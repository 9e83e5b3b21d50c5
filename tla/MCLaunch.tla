------------------------------ MODULE MCLaunch ------------------------------
(***************************************************************************)
(* Instances of LaunchPreparation: a host with everything, every host that *)
(* differs from it in one fact (or in a pair that matters together), and   *)
(* the configurations a user may write.                                    *)
(***************************************************************************)
EXTENDS LaunchPreparation

FullHost ==
    [env |-> [v \in Variables |->
                CASE v \in {"HOME", "XDG_RUNTIME_DIR", "SSH_AUTH_SOCK"} -> "abs"
                  [] v = "WAYLAND_DISPLAY" -> "rel"
                  [] OTHER -> "unset"],
     gitRoot |-> "own", dirs |-> [p \in StatePaths |-> "usable"],
     commands |-> {"git", "podman", "nix", "codex", "opencode"},
     daemonSocket |-> TRUE, etcNix |-> TRUE, nixConf |-> TRUE,
     customConf |-> "readable", etcNixLink |-> "none", customLinks |-> <<"nix">>,
     imageVersion |-> TRUE, gitRootLevel |-> 2, files |-> <<{}, {"flake.nix"}, {".envrc"}>>,
     targetName |-> "target", shells |-> [target |-> "false", default |-> "true"],
     sockets |-> {"wayland", "agent"},
     git |-> [k \in {"user.name", "user.email"} |-> "name"]
              @@ ("gpg.format" :> "ssh") @@ ("user.signingkey" :> "path")
              @@ ("commit.gpgsign" :> "true") @@ ("core.excludesFile" :> "unset"),
     excludes |-> "regular", publicKey |-> "publicKey",
     remotes |-> {[form |-> "ssh", host |-> "alias", port |-> 2222],
                  [form |-> "https", host |-> "web", port |-> NoPort]},
     ssh |-> "ok",
     sshHosts |-> [alias |-> [alias |-> {}, hostname |-> "real", port |-> 2222,
                              files |-> {"user", "global"}]],
     knownFiles |-> [user |-> {<<"alias", 2222>>, <<"other">>}, global |-> {<<"real", 2222>>}],
     keygen |-> "ok", tempFiles |-> TRUE]

Env(v, value) == [FullHost EXCEPT !.env[v] = value]

Environments ==
    {Env("CODEX_HOME", x) : x \in EnvValues \ {"unset"}}
    \cup {Env("XDG_CONFIG_HOME", x) : x \in {"abs", "nonUtf8"}}
    \cup {Env("HOME", x) : x \in {"unset", "nonUtf8"}}
    \cup {Env("SSH_AUTH_SOCK", x) : x \in {"unset", "nonUtf8"}}
    \cup {Env("WAYLAND_DISPLAY", "abs"), Env("XDG_RUNTIME_DIR", "unset")}

Installations ==
    {[FullHost EXCEPT !.dirs[<<"HOME", ".codex">>] = d] : d \in DirStates \ {"usable"}}
    \cup {[FullHost EXCEPT !.commands = @ \ {c}] : c \in {"podman", "nix", "codex"}}
    \cup {[FullHost EXCEPT !.daemonSocket = FALSE], [FullHost EXCEPT !.customConf = "unreadable"],
          [FullHost EXCEPT !.etcNixLink = "staticNix"], [FullHost EXCEPT !.imageVersion = FALSE]}
    \cup {[FullHost EXCEPT !.customLinks = l] :
            l \in {<<>>, <<"staticNix">>, <<"elsewhere", "staticNix">>, <<"staticNix", "nix">>}}

Repositories ==
    {[FullHost EXCEPT !.files = f] :
        f \in {<<{}, {}, {".envrc"}>>, <<{"flake.nix"}, {"devenv.nix"}, {}>>,
               <<{"devenv.nix"}, {".envrc"}, {}>>}}
    \cup {[FullHost EXCEPT !.gitRoot = g] : g \in PlaceNames}
    \cup {[FullHost EXCEPT !.shells = [target |-> t, default |-> d]] :
            t \in {"true", "false", "error"}, d \in {"false", "error"}}

Secrets ==
    {[FullHost EXCEPT !.sockets = @ \ {s}] : s \in {"wayland", "agent"}}
    \cup {[FullHost EXCEPT !.git["user.signingkey"] = k] : k \in {"literal", "~/path", "other", "unset"}}
    \cup {[FullHost EXCEPT !.git["gpg.format"] = k] : k \in {"openpgp", "error"}}
    \cup {[FullHost EXCEPT !.git["core.excludesFile"] = k] : k \in {"", "rel", "abs"}}
    \cup {[FullHost EXCEPT !.excludes = "directory"], [FullHost EXCEPT !.publicKey = "other"],
          [FullHost EXCEPT !.ssh = "fails"], [FullHost EXCEPT !.keygen = "fails"],
          [FullHost EXCEPT !.tempFiles = FALSE], [FullHost EXCEPT !.remotes = {}]}

MCHosts == {FullHost} \cup Environments \cup Installations \cup Repositories \cup Secrets

Override(d, value) == [NoLimits EXCEPT ![d] = value]

Command(kind, runtime, connect, wrap, overrides) ==
    [kind |-> kind, runtime |-> runtime, connect |-> connect, devEnv |-> wrap,
     args |-> <<"--arg">>, overrides |-> overrides]

Restarts ==
    {Command("restart", r, FALSE, "auto", NoLimits) : r \in RuntimeKinds}
    \cup {Command("restart", "codex", TRUE, "auto", Override("memory", "0"))}

MCCommands ==
    Restarts
    \cup {Command("start", r, r = "opencode", "auto", NoLimits) : r \in RuntimeKinds}
    \cup {Command("start", "codex", FALSE, "auto", Override("cpus", "2")),
          Command("run", "codex", FALSE, "auto", NoLimits),
          Command("exec", "codex", FALSE, "auto", NoLimits),
          Command("exec", "codex", FALSE, "none", NoLimits)}

Cpu(json, text) == [json |-> json, text |-> text]

Content(form, knownHosts, cpus, memory) ==
    [form |-> form, knownHosts |-> knownHosts, cpus |-> cpus, memory |-> memory]

Limited == Content("object", {"line"}, Cpu("number", "2"), "1g")
Malformed == Content("malformed", {}, NoLimit, NoLimit)

MCContents ==
    {Limited, Malformed,
     Content("object", {}, Cpu("string", "0"), NoLimit),
     Content("object", {"line", "blank"}, NoLimit, "1g"),
     Content("object", {}, Cpu("string", "-1"), NoLimit),
     Content("unreadable", {}, NoLimit, NoLimit)}

\* The hosts with one file and the plain commands, the files with one host
\* and every command.
MCScenarios ==
    [host : MCHosts \ {FullHost}, file : {NoFile},
     command : {c \in MCCommands : c.overrides = NoLimits /\ c.kind # "restart"}]
    \cup [host : {FullHost}, file : MCContents \cup {NoFile}, command : MCCommands]

MCStoredLabels ==
    {NoLimits, [cpus |-> "2", memory |-> "0"], [cpus |-> "2", memory |-> "lots"]}

=============================================================================
