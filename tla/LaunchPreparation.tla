-------------------------- MODULE LaunchPreparation --------------------------
(***************************************************************************)
(* How a command that starts a container prepares it                       *)
(* (src/src/commands/container_launch/): configuration and limits, the     *)
(* preflight, the check for an existing container, the development         *)
(* environment, the host client, the image, the attach token, the          *)
(* specification and what is passed through from the host, and then        *)
(* `podman run`.  A start, run or exec is followed by a restart, with the  *)
(* user editing the configuration and another command loading it.          *)
(*                                                                         *)
(* The workspace lock is held throughout (WorkspaceLock), the stop and the *)
(* wait for readiness are one step here (Lifecycle, Readiness), and so is  *)
(* the image (RuntimeImages).                                              *)
(***************************************************************************)
EXTENDS ConfigFile, Preflight, DevEnvironment, HostPassthrough, SequencesExt

CONSTANTS
    Commands,       \* the invocations: kind, runtime, connect, devEnv, args, overrides
    Scenarios,      \* what to start from: [host, file, command] records,
                    \* a host being a record of the facts read
    StoredLabels    \* the limit labels of a session left by an earlier version

ASSUME LaunchAssumption ==
    /\ {"launch", "other"} \subseteq Loaders
    /\ \A c \in Commands :
          /\ c.kind \in {"start", "restart", "run", "exec"}
          /\ c.runtime \in RuntimeKinds
          /\ c.overrides \in ResourceLimits
    /\ \A s \in Scenarios :
          /\ s.file \in Contents \cup {NoFile}
          /\ s.command \in Commands
          /\ s.host.env \in [Variables -> EnvValues]
          /\ \A v \in Variables \ {"CODEX_HOME"} :
                s.host.env[v] \in {"unset", "abs", "rel", "nonUtf8"}
          /\ s.host.gitRoot \in {"own"} \cup PlaceNames
          /\ s.host.dirs \in [StatePaths -> DirStates]
          /\ s.host.customLinks \in Seq(Locations)
          /\ Len(s.host.files) \in Nat
          /\ s.host.gitRootLevel \in 0 .. Len(s.host.files)
    /\ \A l \in StoredLabels : DOMAIN l = Dimensions

NoContainer == [mode |-> "none"]

\* The tokens: none, the one a session of before was started with, and the
\* ones the first and the second command generate.
Tokens == {"none", "earlier", "first", "second"}

VARIABLES
    host,           \* the facts about the host
    command,        \* the command at work
    turn,           \* "first", then "second": the restart
    pc,             \* the step it is about to take
    limits,         \* the resource limits it decided on
    devEnv,         \* the development environment it found
    spec,           \* the specification it is building
    tokenFile,      \* the token file of the git root
    tempFile,       \* the temporary known_hosts file exists
    container,      \* the running container of the git root
    failedAt,       \* the step that ended it with an error, or "none"
    before          \* history: token and container when the command began

launchVars == <<host, command, turn, pc, limits, devEnv, spec, tokenFile, tempFile,
                container, failedAt, before>>
vars == <<configVars, launchVars>>

\* A mutant that creates the token as the first step.
PreparationOrderTokenFirst ==
    <<"token", "preflight", "existing", "devEnv", "client", "image", "spec">>

\* prepare_runtime_launch: what can fail comes first, the token last of it.
PreparationOrder ==
    <<"preflight", "existing", "devEnv", "client", "image", "token", "spec">>

After(step) ==
    PreparationOrder[1 + CHOOSE i \in DOMAIN PreparationOrder : PreparationOrder[i] = step]

Steps == {"workspace", "config", "git", "knownHosts", "labels", "stop", "run"}
            \cup {PreparationOrder[i] : i \in DOMAIN PreparationOrder}

----------------------------------------------------------------------------
(* Policies *)

Mode(c) == CASE c.kind \in {"start", "restart"} -> "managed"
             [] c.kind = "run" -> "transient"
             [] c.kind = "exec" -> "foreground"

\* host_client_for_connect; a run always connects.
ClientRequired(c) == c.kind = "run" \/ (c.kind \in {"start", "restart"} /\ c.connect)

\* What ensure_required_resources_absent looks for: any container of agentbox,
\* only managed sessions (exec), nothing (restart).
Blocks(c) == CASE c.kind = "restart" -> FALSE
               [] c.kind = "exec" -> container.mode = "managed"
               [] OTHER -> container.mode \in {"managed", "transient"}

GitIdentity(c) == IF c.kind = "exec" THEN "codexExec" ELSE "host"

\* restart_resource_limits: override, stored label, configuration.
RestartLimits(labels, overrides, config) ==
    [d \in Dimensions |-> Or(overrides[d], Or(labels[d], config.limits[d]))]

\* stored_resource_limits parses what a label says.
LabelsParse(labels) ==
    /\ labels.cpus \in CpuLimits \cup {NoLimit}
    /\ labels.memory \in MemoryLimits \cup {NoLimit}

\* append_common_run_args: what podman is told, nothing for "0".
LimitArgs(l) == {<<d, l[d]>> : d \in {x \in Dimensions : l[x] \notin {NoLimit, "0"}}}

----------------------------------------------------------------------------

HasConfigPath == host.env["XDG_CONFIG_HOME"] # "unset" \/ host.env["HOME"] # "unset"

\* What may be running: nothing, a session an earlier version of agentbox left
\* with the labels it wrote, or a transient run.
Earlier(mode, labels) ==
    [mode |-> mode, runtime |-> "codex", token |-> "earlier", serverArgs |-> <<"earlier">>,
     stored |-> labels, args |-> LimitArgs(labels), replaces |-> {}, mounted |-> TRUE,
     spec |-> None]

FirstStep(c) == IF c.kind = "restart" THEN "workspace" ELSE "config"

Init ==
    /\ \E s \in Scenarios : host = s.host /\ command = s.command /\ ConfigInit({s.file})
    /\ turn = "first"
    /\ pc = FirstStep(command)
    /\ limits = NoLimits
    /\ devEnv = NoDevEnv
    /\ spec = None
    /\ container \in {NoContainer, Earlier("transient", NoLimits)}
                       \cup {Earlier("managed", l) : l \in StoredLabels}
    /\ command.kind = "restart" =>
          container.mode = "managed" /\ command.runtime = container.runtime
    /\ tokenFile = IF container.mode = "managed" THEN "earlier" ELSE "none"
    /\ tempFile = FALSE
    /\ failedAt = "none"
    /\ before = [token |-> tokenFile, container |-> container]

Goto(step) == pc' = step /\ UNCHANGED <<tempFile, failedAt>>

\* The preparation ends with an error; the guard of the temporary file goes.
Fail ==
    /\ pc' = "failed"
    /\ failedAt' = pc
    /\ tempFile' = FALSE

\* restart_launch_workspace: the stored directory may be gone or belong to
\* another git root by now.
RestartLaunchWorkspace ==
    /\ pc = "workspace"
    /\ Goto("config") \/ Fail
    /\ UNCHANGED <<host, command, turn, limits, devEnv, spec, tokenFile, container, before, configVars>>

\* start and run load the configuration before anything else, restart once it
\* has the session; exec takes no limits.
LoadLimits ==
    /\ pc = "config"
    /\ command.kind # "exec"
    /\ LoadConfig("launch", HasConfigPath)
    /\ UNCHANGED launchVars

TakeLimits ==
    /\ pc = "config"
    /\ command.kind # "exec"
    /\ TakeConfig("launch")
    /\ IF command.kind # "restart"
       THEN /\ limits' = Overlay(loading["launch"].config.limits, command.overrides)
            /\ Goto(PreparationOrder[1])
       ELSE IF LabelsParse(container.stored)
       THEN /\ limits' = RestartLimits(container.stored, command.overrides,
                                       loading["launch"].config)
            /\ Goto(PreparationOrder[1])
       ELSE limits' = limits /\ Fail
    /\ UNCHANGED <<host, command, turn, devEnv, spec, tokenFile, container, before,
                   configFile, backups, edits, wrote, editedMeanwhile>>

\* foreground_launch_request: an exec has no limits and loads nothing.
ExecLimits ==
    /\ pc = "config"
    /\ command.kind = "exec"
    /\ limits' = NoLimits
    /\ Goto(PreparationOrder[1])
    /\ UNCHANGED <<host, command, turn, devEnv, spec, tokenFile, container, before, configVars>>

\* A step that only reads: it succeeds or ends the preparation.
Check(step, ok) ==
    /\ pc = step
    /\ IF ok THEN Goto(After(step)) ELSE Fail
    /\ UNCHANGED <<host, command, turn, limits, spec, tokenFile, container, before, configVars>>

CheckPreflight ==
    Check("preflight", Passes(host, command.runtime, Mode(command))) /\ UNCHANGED devEnv

CheckExisting == Check("existing", ~Blocks(command)) /\ UNCHANGED devEnv

ResolveEnvironment ==
    LET outcomes == ResolveDevEnv(host, command.devEnv)
    IN  /\ Check("devEnv", outcomes # {})
        /\ IF outcomes = {} THEN UNCHANGED devEnv ELSE devEnv' \in outcomes

CheckClient ==
    Check("client", ClientRequired(command) => HostClient(command.runtime) \in host.commands)
    /\ UNCHANGED devEnv

\* ensure_default_runtime_image: there, or built; the build may fail.
EnsureImage ==
    \E built \in BOOLEAN : Check("image", built) /\ UNCHANGED devEnv

----------------------------------------------------------------------------

\* prepare_codex_attach_token: a managed codex session gets a new token file,
\* a transient server a token without a file.  It may fail before the file is
\* opened (no random bytes, no directory), once it is truncated, and when it
\* is written but its permissions cannot be set.
PrepareToken ==
    LET generates == command.runtime = "codex" /\ Mode(command) # "foreground"
        written == IF generates /\ Mode(command) = "managed" THEN {"none", turn} ELSE {}
    IN  /\ pc = "token"
        /\ \/ /\ tokenFile' = IF written = {} THEN tokenFile ELSE turn
              /\ Goto(After("token"))
           \/ generates /\ tokenFile' \in {tokenFile} \cup written /\ Fail
        /\ UNCHANGED <<host, command, turn, limits, devEnv, spec, container, before, configVars>>

\* A restart runs with the arguments stored with the session, a transient
\* server with none.
ServerArgs == CASE command.kind = "restart" -> container.serverArgs
                [] command.kind = "start" -> command.args
                [] OTHER -> <<>>

\* build_runtime_invocation
Invocation ==
    WrapArgv(devEnv,
        IF Mode(command) = "foreground" THEN CodexExecCommand(command.args)
        ELSE ServerRuntimeCommand(command.runtime, turn, ServerArgs))

\* run_spec, the runtime's environment and the Wayland socket
BuildSpec ==
    LET report == PreflightReport(host, command.runtime, Mode(command))
        created == RunSpec(command.runtime, Mode(command), GitRoot(host), 1, report.nixMounts,
                           report.stateMounts, Invocation, ServerArgs, limits)
        wayland == Wayland(host)
    IN  /\ pc = "spec"
        /\ spec' = ExtendEnv(AddMounts(ExtendEnv(created, report.environment),
                                       wayland.mounts), wayland.env)
        /\ Goto("git")
        /\ UNCHANGED <<host, command, turn, limits, devEnv, tokenFile, container,
                       before, configVars>>

\* apply_git_and_ssh_passthrough up to the known hosts, which need an agent.
PassGitAndAgent ==
    LET signing == CommitSigning(host, GitIdentity(command))
    IN  /\ pc = "git"
        /\ spec' = ExtendEnv(AddMounts(spec, signing.mounts), signing.env)
        /\ Goto(IF AgentAvailable(host) THEN "knownHosts" ELSE "labels")
        /\ UNCHANGED <<host, command, turn, limits, devEnv, tokenFile, container,
                       before, configVars>>

\* The configuration is loaded a second time, for its known hosts.
LoadKnownHosts ==
    /\ pc = "knownHosts"
    /\ LoadConfig("launch", HasConfigPath)
    /\ UNCHANGED launchVars

\* A mutant that drops the guard of the file with the end of the function.
GuardDropped(mounts) == FALSE

\* SshPassthroughGuard: the temporary file lives as long as the preparation.
GuardHeld(mounts) == mounts # <<>>

PassKnownHosts ==
    LET known == KnownHosts(host, loading["launch"].config.knownHosts)
    IN  /\ pc = "knownHosts"
        /\ TakeConfig("launch")
        /\ spec' = ExtendEnv(AddMounts(spec, known.mounts), known.env)
        /\ tempFile' = GuardHeld(known.mounts)
        /\ pc' = "labels"
        /\ UNCHANGED <<host, command, turn, limits, devEnv, tokenFile, container, before, failedAt,
                       configFile, backups, edits, wrote, editedMeanwhile>>

\* record_runtime_image_version and record_managed_resource_limits
RecordLabels ==
    /\ pc = "labels"
    /\ spec' = IF Mode(command) # "managed" THEN spec
               ELSE InsertLabels(spec, Over(IF host.imageVersion THEN [version |-> "recorded"] ELSE << >>,
                                            [limits |-> StoredOrZero(limits)]))
    /\ Goto(IF command.kind = "restart" THEN "stop" ELSE "run")
    /\ UNCHANGED <<host, command, turn, limits, devEnv, tokenFile, container, before,
                   configVars>>

----------------------------------------------------------------------------
(* Starting the container *)

\* stop_existing_session: the session is verified to be gone, or the command
\* fails, because it is still there or because nobody could tell: the stop
\* and the query may fail each, and --rm may remove it after the query.
StopExisting ==
    /\ pc = "stop"
    /\ \/ container' = NoContainer /\ Goto("run")
       \/ container' \in {container, NoContainer} /\ Fail
    /\ UNCHANGED <<host, command, turn, limits, devEnv, spec, tokenFile, before, configVars>>

Started ==
    [mode |-> spec.mode, runtime |-> spec.runtime,
     token |-> IF spec.runtime = "codex" THEN turn ELSE "none",
     serverArgs |-> IF "serverArgs" \in DOMAIN spec.labels THEN spec.labels["serverArgs"] ELSE <<>>,
     stored |-> IF "limits" \in DOMAIN spec.labels THEN spec.labels["limits"] ELSE NoLimits,
     args |-> LimitArgs(spec.limits),
     replaces |-> IF command.kind # "restart" THEN {}
                  ELSE {[stored |-> before.container.stored, args |-> before.container.args,
                         serverArgs |-> before.container.serverArgs]},
     mounted |-> \A i \in DOMAIN spec.mounts :
                    spec.mounts[i].source = <<"temporaryFile">> => tempFile,
     spec |-> spec]

\* podman run, which refuses a name in use, and for start the query for the
\* cache volume before it.  Either may fail, podman run also when it has
\* created the container.  The preparation and its guard go when the command
\* returns.
RunContainer ==
    /\ pc = "run"
    /\ \/ /\ container = NoContainer
          /\ container' = Started
          /\ Fail \/ (pc' = "done" /\ tempFile' = FALSE /\ UNCHANGED failedAt)
       \/ UNCHANGED container /\ Fail
    /\ UNCHANGED <<host, command, turn, limits, devEnv, spec, tokenFile, before, configVars>>

\* A managed session stays, and the user restarts it.
NextCommand(c) ==
    /\ pc = "done" /\ turn = "first" /\ container.mode = "managed"
    /\ c.kind = "restart" /\ c.runtime = container.runtime
    /\ turn' = "second"
    /\ command' = c
    /\ Goto(FirstStep(c))
    /\ spec' = None
    /\ before' = [token |-> tokenFile, container |-> container]
    /\ UNCHANGED <<host, limits, devEnv, tokenFile, container, configVars>>

----------------------------------------------------------------------------

LoaderStep(p) == (CheckBackup(p) \/ RenameAside(p)) /\ UNCHANGED launchVars

\* Another command loads the configuration, any number of times.
OtherCommand ==
    /\ \/ LoadConfig("other", HasConfigPath)
       \/ TakeConfig("other") /\ UNCHANGED <<configFile, backups, edits, wrote, editedMeanwhile>>
    /\ UNCHANGED launchVars

UserEdits(content) == HasConfigPath /\ Edit(content) /\ UNCHANGED launchVars

Finished ==
    /\ pc = "failed" \/ (pc = "done" /\ (turn = "second" \/ container.mode # "managed"))
    /\ UNCHANGED vars

Next ==
    \/ RestartLaunchWorkspace \/ LoadLimits \/ TakeLimits \/ ExecLimits
    \/ CheckPreflight \/ CheckExisting \/ ResolveEnvironment \/ CheckClient \/ EnsureImage
    \/ PrepareToken \/ BuildSpec \/ PassGitAndAgent \/ LoadKnownHosts \/ PassKnownHosts
    \/ RecordLabels \/ StopExisting \/ RunContainer
    \/ \E c \in Commands : NextCommand(c)
    \/ \E p \in Loaders : LoaderStep(p)
    \/ OtherCommand
    \/ \E content \in Contents : UserEdits(content)
    \/ Finished

Spec == Init /\ [][Next]_vars

----------------------------------------------------------------------------
(* Properties *)

TypeOK ==
    /\ ConfigTypeOK
    /\ host.env \in [Variables -> EnvValues]
    /\ host.dirs \in [StatePaths -> DirStates]
    /\ command \in Commands
    /\ turn \in {"first", "second"}
    /\ pc \in Steps \cup {"done", "failed"}
    /\ limits \in ResourceLimits
    /\ devEnv.level \in 0 .. Len(host.files)
    /\ tokenFile \in Tokens
    /\ tempFile \in BOOLEAN
    /\ failedAt \in Steps \cup {"none"}
    /\ container.mode \in RunModes \cup {"none"}

DestinationsOf(s) == {m.destination : m \in ToSet(s.mounts)}

\* A variable is set to a path of the container exactly when it is mounted.
Backed(s, variable, path) ==
    (variable \in DOMAIN s.env /\ s.env[variable] = path) <=> path \in DestinationsOf(s)

GitEntries(s) == IF "GIT_CONFIG" \in DOMAIN s.env THEN s.env["GIT_CONFIG"] ELSE {}

EnvironmentIsBacked(s) ==
    /\ Backed(s, "WAYLAND_DISPLAY", WaylandSocket)
    /\ Backed(s, "SSH_AUTH_SOCK", AgentSocket)
    /\ "CODEX_HOME" \in DOMAIN s.env => s.env["CODEX_HOME"] \in DestinationsOf(s)
    /\ <<"core.excludesFile", ExcludesFile>> \in GitEntries(s) <=> ExcludesFile \in DestinationsOf(s)
    /\ "GIT_SSH_COMMAND" \in DOMAIN s.env <=> KnownHostsFile \in DestinationsOf(s)

\* The directory the runtime reads its state from is the host's.
StateIsTheHosts(s) ==
    s.runtime = "codex" =>
        LET dir == IF "CODEX_HOME" \in DOMAIN s.env THEN s.env["CODEX_HOME"] ELSE <<"/home/user/.codex">>
        IN  \E m \in ToSet(s.mounts) : m.destination = dir /\ ~m.readOnly

\* The two mounts whose place in the container the user chose: the git root
\* and CODEX_HOME are mounted where they are on the host.
UsersChoice(m) ==
    \/ m = Bind(GitRoot(host), GitRoot(host))
    \/ host.env["CODEX_HOME"] # "unset"
          /\ m = Bind(PathOf(host, "CODEX_HOME"), PathOf(host, "CODEX_HOME"))

\* podman refuses two mounts at one place.  The places agentbox chooses are
\* distinct; nothing compares them with the two the user chose, which may be
\* each other, /home/user or a place of Nix.
MountsAreDistinct(s) ==
    \A i, j \in DOMAIN s.mounts :
        i # j /\ s.mounts[i].destination = s.mounts[j].destination =>
            UsersChoice(s.mounts[i]) \/ UsersChoice(s.mounts[j])

\* A setting about signing reaches git only together with gpg.format=ssh and
\* the agent's socket, and a key only as a public key.  (A key that cannot be
\* read is left out, and the rest is passed all the same.)
SigningIsBacked(s) ==
    \A e \in GitEntries(s) :
        e[1] \in {"gpg.format", "user.signingkey", "commit.gpgsign"} =>
            /\ AgentSocket \in DestinationsOf(s)
            /\ <<"gpg.format", "ssh">> \in GitEntries(s)
            /\ e[1] = "user.signingkey" => e[2] = "public"

\* Every link on the way to nix.custom.conf, of a chain of at most two, leads
\* to a place that is mounted when it is under /etc/static/nix.
NixConfigResolves(s) ==
    Len(host.customLinks) <= 2 /\ "staticNix" \in ToSet(host.customLinks) =>
        <<"/etc/static/nix">> \in DestinationsOf(s)

\* The development environment is one of the repository's own.
DevEnvIsInside == devEnv.level <= host.gitRootLevel

\* What the host's files say about a remote's own name is in the file ssh is
\* told to use.
KnownHostsAreThere(s) ==
    AgentAvailable(host) /\ host.keygen = "ok" /\ host.tempFiles =>
        \A r \in SshRemoteHosts(host), f \in DOMAIN host.knownFiles :
            LET name == FormatKnownHost(r.host, r.port)
            IN  f \in SshHostConfig(host, r).files /\ name \in host.knownFiles[f] =>
                    "GIT_SSH_COMMAND" \in DOMAIN s.env /\ name \in s.env["GIT_SSH_COMMAND"][2]

(* A container is started with a consistent view of the host: the          *)
(* variables and Git settings that name a path of the container come with  *)
(* the mount behind it and the mounts with them, no two mounts share a     *)
(* place unless one of them is the git root's or CODEX_HOME's, signing     *)
(* settings come with the agent and never with a private key, Nix's        *)
(* configuration and the remotes' host keys are reachable, and the         *)
(* temporary file is still there when podman run mounts it.                *)
PassthroughIsSound ==
    pc = "done" =>
        /\ container.mounted
        /\ EnvironmentIsBacked(container.spec)
        /\ StateIsTheHosts(container.spec)
        /\ MountsAreDistinct(container.spec)
        /\ SigningIsBacked(container.spec)
        /\ NixConfigResolves(container.spec)
        /\ KnownHostsAreThere(container.spec)
        /\ DevEnvIsInside

(* A restart gives the session what it was started with: the server        *)
(* arguments, and per dimension the very limit arguments podman got,       *)
(* unless the command overrides them, although the user has changed or     *)
(* broken the configuration since, and whether or not a limit was set.     *)
(* Only a limit an earlier version did not record may come from elsewhere. *)
RestartKeepsSession ==
    container.mode = "managed" /\ pc = "done" =>
        \A old \in container.replaces :
            /\ container.serverArgs = old.serverArgs
            /\ \A d \in Dimensions :
                  command.overrides[d] = NoLimit /\ (turn = "second" \/ old.stored[d] # NoLimit) =>
                      {a \in container.args : a[1] = d} = {a \in old.args : a[1] = d}

(* A command that fails before the stop has not touched what runs, one     *)
(* whose stop fails has at most ended it and started nothing in its place; *)
(* and, unless writing the token itself or stopping the session failed, a  *)
(* codex session can still be attached to with the token in its file, the  *)
(* one that a failing podman run leaves included.                          *)
PreparationFailsCleanly ==
    /\ pc = "failed" /\ failedAt \notin {"stop", "run"} => container = before.container
    /\ pc = "failed" /\ failedAt = "stop" => container \in {before.container, NoContainer}
    /\ pc = "failed" /\ failedAt \notin {"token", "stop", "run"} => tokenFile = before.token
    /\ pc \in {"done", "failed"} /\ failedAt \notin {"token", "stop"}
         /\ container.mode = "managed" /\ container.runtime = "codex" => tokenFile = container.token

=============================================================================
