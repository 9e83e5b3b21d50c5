-------------------------- MODULE SessionDiscovery --------------------------
(***************************************************************************)
(* src/session: which of Podman's containers are agentbox sessions, what   *)
(* state they are in, and which of them a command may take.                *)
(*                                                                         *)
(* A container is what `podman ps` and `podman inspect` say of it.  Label  *)
(* values are abstracted to whether they pass the check made of them; the  *)
(* git root and its hash, which discovery compares, are kept.  A label     *)
(* that is missing or blank is None.  A discovery is a function of the set *)
(* of containers and of the git roots that are live on the host.           *)
(***************************************************************************)

CONSTANTS
    Roots,      \* canonical git roots
    Hashes,     \* what git_root_hash12 can return
    HashOf,     \* git_root_hash12
    Names,      \* container names
    None

ASSUME HashAssumption ==
    /\ HashOf \in [Roots -> Hashes]
    /\ None \notin Roots
    /\ None \notin Hashes

Containers ==
    [name : Names,
     made : {"earlier", "now"},
     kind : {"managed", "run", "other"},    \* AgentboxContainerKind
     schema : BOOLEAN,                      \* io.agentbox.schema is 1
     root : Roots \cup {None},              \* io.agentbox.git_root
     hash : Hashes \cup {None},             \* io.agentbox.git_root_hash
     metadata : BOOLEAN,                    \* image, launch dir, logical name
     launchInside : BOOLEAN,                \* launch directory below the root
     codex : BOOLEAN,                       \* runtime label: codex, or not
     attach : BOOLEAN,                      \* attach labels fit the runtime
     published : BOOLEAN,                   \* the attach port is published
     args : BOOLEAN,                        \* server_args parses
     mount : BOOLEAN,                       \* the cache volume is mounted
     running : BOOLEAN]

(***************************************************************************)
(* The status of one container.                                            *)
(***************************************************************************)

\* require_agentbox_container_marker
Marker(c) == c.kind = "run" \/ (c.kind = "managed" /\ c.schema)

\* Mutant: the hash label is not compared with the root.
IdentityLabelsUnvalidated(c) == Marker(c) /\ c.root # None /\ c.hash # None

\* SessionIdentityLabels::validated; a hash that is not the root's is drift.
IdentityLabels(c) ==
    /\ Marker(c)
    /\ c.root # None /\ c.hash # None
    /\ c.hash = HashOf[c.root]

RequiredLabels(c) == IdentityLabels(c) /\ c.metadata /\ c.launchInside

AttachEndpoint(c) == c.attach /\ c.published

DeriveStatus(c, live) ==
    IF ~(RequiredLabels(c) /\ AttachEndpoint(c) /\ c.mount /\ c.running)
    THEN "failed"
    ELSE IF c.root \in live THEN "running" ELSE "orphaned"

Failed(c) == DeriveStatus(c, {}) = "failed"

(***************************************************************************)
(* Discovery.                                                              *)
(***************************************************************************)

\* ContainerDiscoveryScope: ManagedSessions or AgentboxOwned.
Candidates(ctrs, kinds) == {c \in ctrs : c.kind \in kinds}
ManagedSessions == {"managed"}
AgentboxOwned == {"managed", "run"}

\* should_inspect_ps_candidate: a container without a hash is inspected.
InScope(c, r) == c.hash \in {None, HashOf[r]}

\* classify_session
Matches(c, r) == c.root = r \/ (c.root = None /\ c.hash = HashOf[r])
Collides(c, r) == c.hash = HashOf[r] /\ c.root \notin {None, r}

\* SessionDiscoveryQuery without and with for_git_root.
DiscoverAll(ctrs, kinds) == Candidates(ctrs, kinds)

DiscoverRoot(ctrs, kinds, r) ==
    {c \in Candidates(ctrs, kinds) : InScope(c, r) /\ Matches(c, r)}

\* SessionCollector::finish fails.
Collision(ctrs, kinds, r) ==
    \E c \in Candidates(ctrs, kinds) : InScope(c, r) /\ Collides(c, r)

\* The status with mark_duplicate_sessions: failed containers do not count.
Status(c, sessions, live) ==
    IF ~Failed(c)
       /\ \E d \in sessions : d # c /\ ~Failed(d) /\ d.root = c.root
    THEN "duplicate"
    ELSE DeriveStatus(c, live)

\* exact_git_root_matches
ExactMatches(sessions, r) == {c \in sessions : c.root = r}

\* The label says another root's hash: found by no search for its root.
Drifted(c) == c.root # None /\ c.hash \notin {None, HashOf[c.root]}

(***************************************************************************)
(* What connect and restart take, and what their prompts offer.            *)
(***************************************************************************)

\* connect <dir>: select_single_session, then prepare_connect_session.
ConnectTakes(ctrs, live, r) ==
    LET sessions == DiscoverRoot(ctrs, ManagedSessions, r)
    IN  {c \in sessions :
            /\ r \in live
            /\ ~Collision(ctrs, ManagedSessions, r)
            /\ sessions = {c}
            /\ Status(c, sessions, live) = "running"}

\* Mutant: a transient run is restarted.
RestartTakesAnyKind(ctrs, live, h) ==
    LET sessions == DiscoverAll(ctrs, AgentboxOwned)
        same == {c \in sessions : c.hash = h}
    IN  {c \in same :
            /\ same = {c}
            /\ c.root # None
            /\ Status(c, sessions, live) = "running"
            /\ c.args}

\* restart <id>: all containers with the id, and exactly one.
RestartTakes(ctrs, live, h) ==
    LET sessions == DiscoverAll(ctrs, AgentboxOwned)
        same == {c \in sessions : c.hash = h}
    IN  {c \in same :
            /\ same = {c}
            /\ c.root # None
            /\ c.kind = "managed"
            /\ Status(c, sessions, live) = "running"
            /\ c.args}

\* is_connectable_candidate over the managed sessions.
ConnectOffers(ctrs, live) ==
    LET sessions == DiscoverAll(ctrs, ManagedSessions)
    IN  {c \in sessions :
            /\ Status(c, sessions, live) = "running"
            /\ AttachEndpoint(c) /\ c.root # None}

\* is_restartable_candidate over the managed sessions.
RestartOffers(ctrs, live) ==
    LET sessions == DiscoverAll(ctrs, ManagedSessions)
    IN  {c \in sessions :
            /\ Status(c, sessions, live) = "running"
            /\ c.hash # None /\ c.metadata /\ c.root # None}
=============================================================================
