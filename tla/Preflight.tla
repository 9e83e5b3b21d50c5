------------------------------ MODULE Preflight ------------------------------
(***************************************************************************)
(* The check of the host before a launch (src/src/preflight/): a snapshot  *)
(* of what the host has, the requirements in their order, and the mounts   *)
(* that follow from them.                                                  *)
(***************************************************************************)
EXTENDS RuntimeProfile, FiniteSets

\* Where a hop of a symbolic link ends: under /etc/nix, under
\* /etc/static/nix, under /nix, or somewhere that is not mounted.
Locations == {"etcNix", "staticNix", "nix", "elsewhere"}

\* A state directory of the host: usable, missing, no directory (a dangling
\* link too), or one that the user may not read, write and search.
DirStates == {"usable", "missing", "notDirectory", "noAccess"}

\* The directories the runtimes' state can resolve to.
StatePaths ==
    {<<"/root">>} \cup {Place(n) : n \in PlaceNames}
    \cup {<<"CODEX_HOME">>, <<"HOME", ".codex">>,
          <<"XDG_CONFIG_HOME", "opencode">>, <<"HOME", ".config", "opencode">>,
          <<"XDG_DATA_HOME", "opencode">>, <<"HOME", ".local", "share", "opencode">>}

----------------------------------------------------------------------------
(* The snapshot *)

\* HostDirectoryPreflightSnapshot::detect_with and path_status
DirStatus(h, path) ==
    LET state == IF path \in StatePaths THEN h.dirs[path] ELSE "missing"
    IN  [exists |-> state # "missing", isDirectory |-> state \in {"usable", "noAccess"},
         access |-> state = "usable"]

\* detect_runtime_state
RuntimeState(h, spec) ==
    LET resolution == ResolveSource(h, spec)
    IN  [resolution |-> resolution, status |-> DirStatus(h, resolution.path)]

\* path_reaches_mount_root for /etc/nix/nix.custom.conf and /etc/static/nix:
\* the target of a link that /etc/nix is, of the link the file is, and the
\* canonical path.
ReachesStatic(h) ==
    \/ h.etcNixLink = "staticNix"
    \/ /\ h.customLinks # <<>>
       /\ "staticNix" \in {h.customLinks[1], h.customLinks[Len(h.customLinks)]}

\* NixCustomConfPreflightSnapshot::detect
CustomConf(h) ==
    [present |-> h.customConf # "absent",
     readable |-> h.customConf = "readable",
     needsStaticMount |-> ReachesStatic(h)]

----------------------------------------------------------------------------
(* The checks *)

\* validate_host_tools, validate_nix_daemon, nix_client_source and
\* validate_nix_config
HostOk(h) ==
    /\ {"git", "podman"} \subseteq h.commands
    /\ h.daemonSocket
    /\ "nix" \in h.commands
    /\ h.etcNix /\ h.nixConf
    /\ CustomConf(h).present => CustomConf(h).readable

\* HostStateMountRequirement::validate
ValidMount(h, spec) ==
    LET state == RuntimeState(h, spec)
    IN  /\ ~state.resolution.error
        /\ state.resolution.path # None
        /\ Destination(h, spec, state.resolution) # None
        /\ state.status.exists /\ state.status.isDirectory /\ state.status.access

StateMount(h, spec) ==
    LET resolution == ResolveSource(h, spec)
    IN  Bind(resolution.path, Destination(h, spec, resolution))

\* host_nix_mounts
HostNixMounts(static) ==
    <<ReadOnlyBind(<<"/nix">>, <<"/nix">>),
      ReadOnlyBind(<<"nixClient">>, <<"/usr/local/bin/nix">>),
      ReadOnlyBind(<<"/etc/nix">>, <<"/etc/nix">>)>>
      \o (IF static THEN <<ReadOnlyBind(<<"/etc/static/nix">>, <<"/etc/static/nix">>)>> ELSE <<>>)

\* runtime_mounts: one mount and at most one variable per state directory.
RuntimeMounts(h, specs) == [i \in DOMAIN specs |-> StateMount(h, specs[i])]

RuntimeEnvironment(h, specs) ==
    LET envs == {StateEnvironment(specs[i], ResolveSource(h, specs[i])) : i \in DOMAIN specs}
    IN  [v \in UNION {DOMAIN e : e \in envs} |-> (CHOOSE e \in envs : v \in DOMAIN e)[v]]

\* check_host_prerequisites_with_snapshot_for_mode
Passes(h, runtime, mode) ==
    LET specs == HostStateMounts(runtime, mode)
    IN  HostOk(h) /\ \A i \in DOMAIN specs : ValidMount(h, specs[i])

PreflightReport(h, runtime, mode) ==
    LET specs == HostStateMounts(runtime, mode)
    IN  [nixMounts |-> HostNixMounts(CustomConf(h).needsStaticMount),
         stateMounts |-> RuntimeMounts(h, specs),
         environment |-> RuntimeEnvironment(h, specs)]

=============================================================================
