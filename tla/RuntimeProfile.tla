--------------------------- MODULE RuntimeProfile ---------------------------
(***************************************************************************)
(* The two runtimes and what a container for them is made of               *)
(* (src/src/runtime/): their profiles, where their state lives on the host *)
(* and in the container, their commands, and the specification handed to   *)
(* `podman run`.                                                           *)
(*                                                                         *)
(* A path is the sequence of its parts, the first one an absolute path or  *)
(* the name of the environment variable it starts from.  Environments are  *)
(* functions from names, and so are labels.                                *)
(***************************************************************************)
EXTENDS Naturals, Sequences

None == <<"none">>

RuntimeKinds == {"codex", "opencode"}

\* ManagedSession (start, restart), TransientServer (run), Foreground (exec).
RunModes == {"managed", "transient", "foreground"}

\* The places in the container where agentbox mounts a directory of its own
\* choice, as names of what a path of the user may be.
PlaceNames == {"home", "state", "nix", "etcNix"}

\* What an environment variable can hold; an empty value counts as unset
\* everywhere.  "root" is the absolute path of the git root, a name of a place
\* that very path, and "abs" any other absolute path.
EnvValues == {"unset", "abs", "rel", "nonUtf8", "root"} \cup PlaceNames

Variables == {"HOME", "CODEX_HOME", "XDG_CONFIG_HOME", "XDG_DATA_HOME",
              "WAYLAND_DISPLAY", "XDG_RUNTIME_DIR", "SSH_AUTH_SOCK"}

VolumeDestination == <<"/home/user">>

Place(name) == CASE name = "home" -> VolumeDestination
                 [] name = "state" -> <<"/home/user/.codex">>
                 [] name = "nix" -> <<"/nix">>
                 [] OTHER -> <<"/etc/nix">>

\* The git root has a path of its own, or is one of the places.
GitRoot(h) == IF h.gitRoot \in PlaceNames THEN Place(h.gitRoot) ELSE <<"/root">>

\* The later entries over the earlier ones.
Over(later, earlier) ==
    [v \in DOMAIN later \cup DOMAIN earlier |->
        IF v \in DOMAIN later THEN later[v] ELSE earlier[v]]

\* The path a variable of the host names.
PathOf(h, variable) ==
    CASE h.env[variable] = "root" -> GitRoot(h)
      [] h.env[variable] \in PlaceNames -> Place(h.env[variable])
      [] OTHER -> <<variable>>

Utf8(h, variable) == h.env[variable] \in {"abs", "rel", "root"} \cup PlaceNames

----------------------------------------------------------------------------
(* Mounts *)

Bind(source, destination) ==
    [kind |-> "bind", source |-> source, destination |-> destination, readOnly |-> FALSE]

ReadOnlyBind(source, destination) == [Bind(source, destination) EXCEPT !.readOnly = TRUE]

Volume(name, destination) ==
    [kind |-> "volume", source |-> name, destination |-> destination, readOnly |-> FALSE]

----------------------------------------------------------------------------
(* Host state: the directories a runtime keeps its own state in.           *)

\* codex: CODEX_HOME or ~/.codex for a server, ~/.codex alone for exec.
CodexHostState(mode) ==
    <<[source |-> IF mode = "foreground" THEN "home" ELSE "environmentOrHome",
       variable |-> "CODEX_HOME", relative |-> <<>>, home |-> <<".codex">>,
       destination |-> <<"/home/user/.codex">>]>>

\* opencode: its configuration and its data, from XDG or the home directory.
OpencodeHostState ==
    <<[source |-> "xdgOrHome", variable |-> "XDG_CONFIG_HOME", relative |-> <<"opencode">>,
       home |-> <<".config", "opencode">>,
       destination |-> <<"/home/user/.config/opencode">>],
      [source |-> "xdgOrHome", variable |-> "XDG_DATA_HOME", relative |-> <<"opencode">>,
       home |-> <<".local", "share", "opencode">>,
       destination |-> <<"/home/user/.local/share/opencode">>]>>

HostStateMounts(runtime, mode) ==
    IF runtime = "codex" THEN CodexHostState(mode) ELSE OpencodeHostState

\* A directory under HOME; none when HOME is unset or not UTF-8.
HomeSource(h, spec) ==
    IF Utf8(h, "HOME") THEN PathOf(h, "HOME") \o spec.home ELSE None

\* RuntimeHostStateSource::resolve.  A variable that is not UTF-8 is an error
\* for CODEX_HOME and passed over for XDG.
ResolveSource(h, spec) ==
    LET home == [error |-> FALSE, path |-> HomeSource(h, spec), fromEnvironment |-> FALSE]
        set == h.env[spec.variable] # "unset"
        base == PathOf(h, spec.variable)
    IN  CASE spec.source = "environmentOrHome" /\ set ->
                IF Utf8(h, spec.variable)
                THEN [error |-> FALSE, path |-> base, fromEnvironment |-> TRUE]
                ELSE [error |-> TRUE, path |-> None, fromEnvironment |-> FALSE]
          [] spec.source = "xdgOrHome" /\ Utf8(h, spec.variable) ->
                [error |-> FALSE, path |-> base \o spec.relative, fromEnvironment |-> FALSE]
          [] OTHER -> home

\* RuntimeHostStateDestination::resolve: the same path in the container when
\* the path came from CODEX_HOME, which must then be absolute.
Destination(h, spec, resolution) ==
    IF ~resolution.fromEnvironment THEN spec.destination
    ELSE IF h.env[spec.variable] = "rel" THEN None ELSE resolution.path

\* RuntimeHostStateContainerEnvironment::entry_for
StateEnvironment(spec, resolution) ==
    IF resolution.fromEnvironment THEN [v \in {spec.variable} |-> resolution.path] ELSE << >>

----------------------------------------------------------------------------
(* Profiles *)

DefaultEnvironment(runtime) ==
    IF runtime = "codex" THEN << >>
    ELSE [OPENCODE_CONFIG_CONTENT |-> <<"noAutoupdate">>, OPENCODE_PERMISSION |-> <<"allow">>]

AttachSpec(runtime) ==
    IF runtime = "codex" THEN [scheme |-> "ws", port |-> 1455]
                         ELSE [scheme |-> "http", port |-> 4096]

HealthPolicy(runtime) == IF runtime = "codex" THEN "HttpOk" ELSE "JsonHealthyFlag"

\* The argv a server template renders to; codex listens on an endpoint,
\* opencode on an address and a port.
ServerCommand(runtime) ==
    IF runtime = "codex"
    THEN <<"codex", "yolo", "app-server", "--listen", AttachSpec("codex")>>
    ELSE <<"opencode", "serve", "--hostname", "0.0.0.0", "--port", AttachSpec("opencode").port>>

ForegroundCommand(runtime) == IF runtime = "codex" THEN <<"codex", "yolo">> ELSE <<"opencode">>

\* The program of the host client template.
HostClient(runtime) == runtime

\* server_runtime_command: only a codex server takes the token's digest.
ServerRuntimeCommand(runtime, token, serverArgs) ==
    ServerCommand(runtime)
      \o (IF runtime = "codex" THEN <<"--ws-token-sha256", token>> ELSE <<>>)
      \o serverArgs

\* codex_exec_runtime_command
CodexExecCommand(args) ==
    ForegroundCommand("codex") \o <<"exec", "--disable", "codex_git_commit">> \o args

----------------------------------------------------------------------------
(* The specification of a container *)

\* runtime_mounts_for_workspace
MountsForWorkspace(gitRoot, nixMounts, stateMounts) ==
    <<Bind(gitRoot, gitRoot), Volume(<<"cache">>, VolumeDestination)>> \o nixMounts \o stateMounts

PublishesAttachEndpoint(mode) == mode \in {"managed", "transient"}

\* The labels: a managed session carries its markers and its server arguments,
\* a transient run its kind, a foreground container none.
Labels(runtime, mode, target, serverArgs) ==
    LET server(kind) == [runtime |-> runtime, launchDirectory |-> target,
                         attach |-> AttachSpec(runtime), kind |-> kind]
    IN  CASE mode = "managed" ->
                Over(IF serverArgs = <<>> THEN << >> ELSE [serverArgs |-> serverArgs],
                     server("managed-session"))
          [] mode = "transient" -> server("transient-run")
          [] OTHER -> << >>

\* create_spec and run_spec
RunSpec(runtime, mode, gitRoot, target, nixMounts, stateMounts, command, serverArgs, limits) ==
    [runtime |-> runtime, mode |-> mode, workdir |-> target,
     labels |-> Labels(runtime, mode, target, serverArgs),
     mounts |-> MountsForWorkspace(gitRoot, nixMounts, stateMounts),
     command |-> command, env |-> DefaultEnvironment(runtime),
     ports |-> IF PublishesAttachEndpoint(mode) THEN {AttachSpec(runtime).port} ELSE {},
     limits |-> limits]

AddMounts(spec, mounts) == [spec EXCEPT !.mounts = @ \o mounts]
ExtendEnv(spec, env) == [spec EXCEPT !.env = Over(env, @)]
InsertLabels(spec, labels) == [spec EXCEPT !.labels = Over(labels, @)]

=============================================================================
