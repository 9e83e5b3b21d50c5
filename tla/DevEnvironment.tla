--------------------------- MODULE DevEnvironment ---------------------------
(***************************************************************************)
(* The development environment a launch wraps its command in               *)
(* (src/src/dev_env/).  The target directory and its ancestors are         *)
(* numbered from 1, the target, upwards; h.gitRootLevel is the level of    *)
(* the git root, and there are directories above it.                       *)
(***************************************************************************)
EXTENDS Naturals, Sequences, FiniteSets

DevEnvFiles == {".envrc", "devenv.nix", "flake.nix"}

NoLevel == 0

NoDevEnv == [provider |-> "none", level |-> NoLevel, attr |-> "none"]

\* ancestor_directories: up to the git root and no further.
AncestorDirectories(h) == 1 .. h.gitRootLevel

\* nearest_file
NearestFile(h, file) ==
    LET levels == {l \in AncestorDirectories(h) : file \in h.files[l]}
    IN  IF levels = {} THEN NoLevel ELSE CHOOSE l \in levels : \A k \in levels : l <= k

\* nix_develop_candidate_attrs: the name of the target directory, then the
\* default; in the flake's own directory, or one named so, the default alone.
CandidateAttrs(h, level) ==
    IF level = 1 \/ h.targetName = "default" THEN <<"default">> ELSE <<"target", "default">>

\* nix_dev_shell_exists: h.shells gives the answer of `nix eval` per
\* attribute, "true", "false" or an error (it does not run, or says
\* something else).
Answers(h, attrs) == [i \in DOMAIN attrs |-> h.shells[attrs[i]]]

\* resolve_nix_develop: the first attribute whose answer is not "false".
FirstDecided(h, attrs) ==
    {i \in DOMAIN attrs : /\ Answers(h, attrs)[i] # "false"
                          /\ \A j \in 1 .. i - 1 : Answers(h, attrs)[j] = "false"}

\* DevEnvironmentDiscovery::resolve_with_probe: .envrc, then devenv.nix, then
\* flake.nix, wherever each was found.
DevEnvOutcomes(h) ==
    LET envrc == NearestFile(h, ".envrc")
        devenv == NearestFile(h, "devenv.nix")
        flake == NearestFile(h, "flake.nix")
        attrs == CandidateAttrs(h, flake)
    IN  CASE envrc # NoLevel -> {[provider |-> "direnv", level |-> envrc, attr |-> "none"]}
          [] envrc = NoLevel /\ devenv # NoLevel ->
                {[provider |-> "devenv", level |-> devenv, attr |-> "none"]}
          [] envrc = NoLevel /\ devenv = NoLevel /\ flake # NoLevel ->
                IF FirstDecided(h, attrs) = {} THEN {NoDevEnv}
                ELSE {[provider |-> "nix", level |-> flake, attr |-> attrs[i]] :
                        i \in {j \in FirstDecided(h, attrs) : Answers(h, attrs)[j] = "true"}}
          [] OTHER -> {NoDevEnv}

\* DevEnvironment::resolve; a failed evaluation leaves no outcome.
ResolveDevEnv(h, mode) == IF mode = "none" THEN {NoDevEnv} ELSE DevEnvOutcomes(h)

\* DevEnvironment::wrap_argv
WrapArgv(env, argv) ==
    CASE env.provider = "none" -> argv
      [] env.provider = "direnv" -> <<"direnv", "exec", ".">> \o argv
      [] env.provider = "devenv" -> <<"devenv", "shell", "--no-tui", "--">> \o argv
      [] env.provider = "nix" -> <<"nix", "develop", <<env.level, env.attr>>, "--command">> \o argv

=============================================================================
