--------------------------- MODULE HostPassthrough ---------------------------
(***************************************************************************)
(* What of the host a container gets to see (src/src/wayland.rs,           *)
(* src/src/host_socket.rs, src/src/ssh_signing/): the Wayland socket, the  *)
(* Git identity and excludes file, the SSH agent with the signing          *)
(* configuration, and the known hosts of the repository's remotes.         *)
(* Nothing here fails a launch: what cannot be passed is left out.         *)
(***************************************************************************)
EXTENDS RuntimeProfile

WaylandSocket == <<"/run/agentbox/wayland.sock">>
AgentSocket == <<"/run/agentbox/ssh-agent.sock">>
ExcludesFile == <<"/run/agentbox/git-ignore">>
KnownHostsFile == <<"/run/agentbox/known_hosts">>

NoPassthrough == [mounts |-> <<>>, env |-> << >>]

\* validate_connectable_unix_socket: h.sockets are the ones that accept.
Connectable(h, socket) == socket \in h.sockets

----------------------------------------------------------------------------
(* Wayland *)

\* The socket WAYLAND_DISPLAY names, relative to an absolute XDG_RUNTIME_DIR.
WaylandHostSocket(h) ==
    CASE h.env["WAYLAND_DISPLAY"] = "abs" -> <<"WAYLAND_DISPLAY">>
      [] h.env["WAYLAND_DISPLAY"] = "rel" /\ h.env["XDG_RUNTIME_DIR"] = "abs" ->
            <<"XDG_RUNTIME_DIR", "WAYLAND_DISPLAY">>
      [] OTHER -> None

\* apply_wayland_passthrough
Wayland(h) ==
    IF WaylandHostSocket(h) = None \/ ~Connectable(h, "wayland") THEN NoPassthrough
    ELSE [mounts |-> <<Bind(WaylandHostSocket(h), WaylandSocket)>>,
          env |-> [WAYLAND_DISPLAY |-> WaylandSocket]]

----------------------------------------------------------------------------
(* Git configuration: h.git gives what `git config --get` answers, "unset" *)
(* (exit status 1), "error", or a value.                                   *)

ReadKeys(h, keys) == {<<k, h.git[k]>> : k \in {x \in keys : h.git[x] \notin {"unset", "error"}}}

IdentityEntries(h, identity) ==
    IF identity = "host" THEN ReadKeys(h, {"user.name", "user.email"})
    ELSE {<<"user.name", "Codex">>, <<"user.email", "noreply@openai.com">>}

\* append_agentbox_git_identity_env
IdentityEnv(entries) ==
    [v \in {e[1] : e \in entries} |-> (CHOOSE e \in entries : e[1] = v)[2]]

\* git_excludes::source_path; a relative value is taken from the git root, and
\* an empty one turns the default off.
ExcludesSource(h) ==
    LET value == h.git["core.excludesFile"]
        home == IF Utf8(h, "HOME") THEN <<"HOME", ".config", "git", "ignore">> ELSE None
        xdg == IF Utf8(h, "XDG_CONFIG_HOME") THEN <<"XDG_CONFIG_HOME", "git", "ignore">> ELSE None
    IN  CASE value = "unset" -> IF h.env["XDG_CONFIG_HOME"] # "unset" THEN xdg ELSE home
          [] value \in {"error", ""} -> None
          [] value = "rel" -> GitRoot(h) \o <<"core.excludesFile">>
          [] OTHER -> <<"core.excludesFile">>

\* readable_regular_file
ExcludesReadable(h) == ExcludesSource(h) # None /\ h.excludes = "regular"

Excludes(h) ==
    IF ~ExcludesReadable(h) THEN [mounts |-> <<>>, entries |-> {}]
    ELSE [mounts |-> <<ReadOnlyBind(ExcludesSource(h), ExcludesFile)>>,
          entries |-> {<<"core.excludesFile", ExcludesFile>>}]

----------------------------------------------------------------------------
(* Commit signing *)

\* public_key_for_path and read_public_key_file: whether the configuration
\* names the key or its .pub, the .pub is the file read, and its first line
\* counts when it is a public key.
PublicKeyForPath(h) == IF h.publicKey = "publicKey" THEN "public" ELSE "none"

\* normalize_signing_key_value: a literal as it is, a path by the public key
\* beside it; ~user and an unset home cannot be resolved.
SigningKey(h) ==
    CASE h.git["user.signingkey"] = "literal" -> "public"
      [] h.git["user.signingkey"] = "path" -> PublicKeyForPath(h)
      [] h.git["user.signingkey"] = "~/path" /\ Utf8(h, "HOME") -> PublicKeyForPath(h)
      [] OTHER -> "none"

\* read_ssh_signing_config_entries: nothing unless gpg.format is ssh.
SigningEntries(h) ==
    IF h.git["gpg.format"] # "ssh" THEN {}
    ELSE ReadKeys(h, {"gpg.format", "commit.gpgsign"})
          \cup (IF SigningKey(h) = "public" THEN {<<"user.signingkey", "public">>} ELSE {})

\* detect_host_agent_socket
AgentAvailable(h) == Utf8(h, "SSH_AUTH_SOCK") /\ Connectable(h, "agent")

\* append_git_config_env: count, keys and values as the set of the entries,
\* whose keys differ.
GitConfigEnv(entries) == IF entries = {} THEN << >> ELSE [GIT_CONFIG |-> entries]

\* commit_signing::detect_with
CommitSigning(h, identity) ==
    LET plain == IdentityEntries(h, identity) \cup Excludes(h).entries
        named == [IDENTITY |-> IdentityEnv(IdentityEntries(h, identity))]
    IN  IF ~AgentAvailable(h)
        THEN [mounts |-> Excludes(h).mounts, env |-> Over(named, GitConfigEnv(plain))]
        ELSE [mounts |-> Append(Excludes(h).mounts, Bind(PathOf(h, "SSH_AUTH_SOCK"), AgentSocket)),
              env |-> Over([SSH_AUTH_SOCK |-> AgentSocket],
                            Over(named, GitConfigEnv(plain \cup SigningEntries(h))))]

----------------------------------------------------------------------------
(* Known hosts *)

NoPort == 0

\* format_known_host
FormatKnownHost(host, port) == IF port \in {NoPort, 22} THEN <<host>> ELSE <<host, port>>

\* ssh_remote_hosts: the host and the port of the ssh:// and scp-like URLs of
\* `git remote -v`, each once; none when git fails.  A port that does not
\* parse is NoPort.
SshRemoteHosts(h) ==
    {[host |-> u.host, port |-> IF u.form = "scp" THEN NoPort ELSE u.port] :
        u \in {v \in h.remotes : v.form \in {"ssh", "git+ssh", "scp"} /\ v.host # ""}}

\* ssh_config_lookup_hosts: the alias, the resolved host, the remote's own.
LookupNames(h, remote) ==
    LET config == h.sshHosts[remote.host]
    IN  {<<a>> : a \in config.alias} \cup {FormatKnownHost(config.hostname, config.port),
                                           FormatKnownHost(remote.host, remote.port)}

\* `ssh -G`, or, when it fails, the remote's name and the files under HOME.
\* h.knownFiles are the known_hosts files there are, each a set of entries.
SshHostConfig(h, remote) ==
    IF h.ssh = "ok"
    THEN [names |-> LookupNames(h, remote), files |-> h.sshHosts[remote.host].files]
    ELSE [names |-> {FormatKnownHost(remote.host, remote.port)},
          files |-> IF h.env["HOME"] # "unset" THEN {"user"} ELSE {}]

\* host_known_hosts_lines: a failing ssh-keygen takes every line away.
HostLines(h) ==
    LET lookups(r) == (SshHostConfig(h, r).files \cap DOMAIN h.knownFiles)
                        \X SshHostConfig(h, r).names
        asked == UNION {lookups(r) : r \in SshRemoteHosts(h)}
    IN  IF h.keygen # "ok" /\ asked # {} THEN {}
        ELSE UNION {{e \in h.knownFiles[q[1]] : e = q[2]} : q \in asked}

\* prepare_with: the lines of the host and of the configuration, in a
\* temporary file, mounted and named to ssh; nothing when there are none.
KnownHosts(h, configLines) ==
    LET lines == HostLines(h) \cup {<<l>> : l \in configLines}
    IN  IF lines = {} \/ ~h.tempFiles THEN NoPassthrough
        ELSE [mounts |-> <<ReadOnlyBind(<<"temporaryFile">>, KnownHostsFile)>>,
              env |-> [GIT_SSH_COMMAND |-> <<KnownHostsFile, lines>>]]

=============================================================================
