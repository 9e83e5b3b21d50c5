---------------------------- MODULE StopSessions ----------------------------
(***************************************************************************)
(* src/commands/stop: `agentbox stop` over several workspaces.             *)
(*                                                                         *)
(* A stop takes directories, stored paths of repositories that are gone,   *)
(* stable id prefixes, or --all.  It looks for containers (see             *)
(* SessionDiscovery), locks one git root after the other, and stops what   *)
(* it selected by container name.  Meanwhile sessions are started, codex   *)
(* exec runs a foreground container, servers exit, `--rm` removes          *)
(* containers and repositories disappear.  Lifecycle has the commands on   *)
(* one workspace in full; here a start is one step that needs the lock of  *)
(* its root, and an exec is two, its beginning and its end.                *)
(***************************************************************************)
EXTENDS SessionDiscovery, Naturals, Sequences, FiniteSets

CONSTANTS
    Procs,      \* the invocations of stop
    Exec,       \* whoever holds a lock for a foreground container
    Jobs,       \* their command lines
    Mortal,     \* the roots that may vanish
    Startable,  \* the roots a container may be started for meanwhile
    NameOf,     \* container_name_from_canonical_root
    Leftovers   \* the sets of containers there may be at first

\* A path names a root: one that does not is refused before anything else.
Target ==
    {t \in [sel : {"path", "id", "all"}, root : Roots \cup {None},
            ids : SUBSET Hashes] : t.sel = "path" => t.root \in Roots}

\* Roots are numbers in the order of their paths.
ASSUME StopAssumption ==
    /\ Roots \subseteq Nat
    /\ NameOf \in [Roots -> Names]
    /\ None \notin Procs /\ Exec \notin Procs /\ Exec # None
    /\ \A j \in Jobs :
          /\ j.force \in BOOLEAN
          /\ j.targets \in Seq(Target) /\ j.targets # <<>>
    /\ \A s \in Leftovers :
          /\ s \subseteq Containers
          /\ \A c \in s : c.made = "earlier"
          /\ \A c, d \in s : c.name = d.name => c = d

VARIABLES
    ctrs,       \* Podman's containers
    live,       \* the git roots that exist on the host
    tokens,     \* the roots that have a Codex attach token file
    lock,       \* the holder of each root's workspace lock
    started,    \* the roots a container was started for meanwhile
    cmd         \* the state of each invocation

vars == <<ctrs, live, tokens, lock, started, cmd>>

PCs == {"new", "resolve", "groups", "lock", "discover", "stop", "verify", "done"}

Command ==
    [pc : PCs,
     force : BOOLEAN,
     todo : Seq(Target),                \* targets still to be processed
     scoped : BOOLEAN,                  \* StopExactGitRootTargetMode
     picked : SUBSET Containers,        \* records selected before any lock
     groups : SUBSET Roots,             \* roots still to be locked
     at : Roots \cup {None},            \* the root being worked on
     queue : SUBSET Containers,         \* records still to be stopped
     cur : Containers \cup {None},      \* the record being stopped
     failed : BOOLEAN,                  \* some cleanup or target failed
     claimed : SUBSET Containers]       \* what the command line covered

NewCommand ==
    [pc |-> "new", force |-> FALSE, todo |-> <<>>, scoped |-> FALSE,
     picked |-> {}, groups |-> {}, at |-> None, queue |-> {}, cur |-> None,
     failed |-> FALSE, claimed |-> {}]

\* Every Codex session that was started has its token file.
Init ==
    /\ ctrs \in Leftovers
    /\ live = Roots
    /\ tokens = Roots
    /\ lock = [r \in Roots |-> None]
    /\ started = {}
    /\ cmd = [p \in Procs |-> NewCommand]

At(p, where) == cmd[p].pc = where
Sel(p) == Head(cmd[p].todo).sel

(***************************************************************************)
(* Selection before the lock.                                              *)
(***************************************************************************)

Covers(t, c) ==
    /\ c.kind \in AgentboxOwned
    /\ \/ t.sel = "all" /\ c.running
       \/ t.sel = "path" /\ c.root = t.root
       \/ t.sel = "id" /\ c.hash \in t.ids

Invoke(p, j) ==
    /\ At(p, "new")
    /\ cmd' = [cmd EXCEPT
          ![p].pc = "resolve", ![p].todo = j.targets, ![p].force = j.force,
          ![p].claimed = {c \in ctrs : \E i \in DOMAIN j.targets :
                                          Covers(j.targets[i], c)}]
    /\ UNCHANGED <<ctrs, live, tokens, lock, started>>

\* Mutant: the error path keeps the guard.
ReleaseForgets(p) == UNCHANGED lock

\* The guard of the locked root, if any, is dropped.
Release(p) == lock' = [r \in Roots |-> IF lock[r] = p THEN None ELSE lock[r]]

\* Mutant: the failure of a target is forgotten once the next one succeeds.
EndTargetForgets(p, bad) ==
    /\ cmd' = [cmd EXCEPT
          ![p].pc = IF Len(cmd[p].todo) = 1 THEN "done" ELSE "resolve",
          ![p].todo = Tail(@), ![p].failed = bad, ![p].picked = {},
          ![p].groups = {}, ![p].at = None, ![p].queue = {}, ![p].cur = None]
    /\ Release(p)
    /\ UNCHANGED <<ctrs, live, tokens, started>>

\* stop_targets goes on with the next target, whatever became of this one,
\* and fails in the end if one did.
EndTarget(p, bad) ==
    /\ cmd' = [cmd EXCEPT
          ![p].pc = IF Len(cmd[p].todo) = 1 THEN "done" ELSE "resolve",
          ![p].todo = Tail(@), ![p].failed = @ \/ bad, ![p].picked = {},
          ![p].groups = {}, ![p].at = None, ![p].queue = {}, ![p].cur = None]
    /\ Release(p)
    /\ UNCHANGED <<ctrs, live, tokens, started>>

Select(p, records, roots) ==
    /\ cmd' = [cmd EXCEPT ![p].pc = "groups", ![p].picked = records,
                          ![p].groups = roots]
    /\ UNCHANGED <<ctrs, live, tokens, lock, started>>

\* An existing directory (scoped), or an absolute path that does not exist.
ResolvePath(p) ==
    /\ At(p, "resolve") /\ Sel(p) = "path"
    /\ LET r == Head(cmd[p].todo).root
       IN  cmd' = [cmd EXCEPT ![p].pc = "groups", ![p].groups = {r},
                              ![p].scoped = r \in live]
    /\ UNCHANGED <<ctrs, live, tokens, lock, started>>

RootsOf(records) == {c.root : c \in records} \ {None}

\* select_stable_id_prefix, into_all_rooted_sessions and require_force.
IdSelectable(p, same) ==
    /\ Cardinality({c.hash : c \in same}) = 1
    /\ \A c \in same : c.root # None
    /\ Cardinality(same) > 1 => cmd[p].force

ResolveStableId(p) ==
    /\ At(p, "resolve") /\ Sel(p) = "id"
    /\ LET same == {c \in DiscoverAll(ctrs, AgentboxOwned) :
                       c.hash \in Head(cmd[p].todo).ids}
       IN  \/ IdSelectable(p, same) /\ Select(p, same, RootsOf(same))
           \/ ~IdSelectable(p, same) /\ EndTarget(p, TRUE)

\* stop_all_running
ResolveAll(p) ==
    /\ At(p, "resolve") /\ Sel(p) = "all"
    /\ LET running == {c \in DiscoverAll(ctrs, AgentboxOwned) : c.running}
       IN  Select(p, running, RootsOf(running))

(***************************************************************************)
(* Group after group: lock, discover, stop.                                *)
(***************************************************************************)

Unrooted(p) == {c \in cmd[p].picked : c.root = None}

\* cleanup_rooted_session_groups, in the order of the roots.
NextGroup(p) ==
    /\ At(p, "groups")
    /\ \E r \in cmd[p].groups :
          /\ \A s \in cmd[p].groups : r <= s
          /\ cmd' = [cmd EXCEPT ![p].pc = "lock", ![p].at = r,
                                ![p].groups = @ \ {r}]
    /\ UNCHANGED <<ctrs, live, tokens, lock, started>>

\* stop --all: the containers without a git root, without a lock.
UnrootedGroup(p) ==
    /\ At(p, "groups") /\ cmd[p].groups = {} /\ Unrooted(p) # {}
    /\ cmd' = [cmd EXCEPT ![p].pc = "stop", ![p].at = None,
                          ![p].queue = Unrooted(p), ![p].picked = {}]
    /\ UNCHANGED <<ctrs, live, tokens, lock, started>>

GroupsDone(p) ==
    /\ At(p, "groups") /\ cmd[p].groups = {} /\ Unrooted(p) = {}
    /\ EndTarget(p, FALSE)

AcquireLock(p) ==
    /\ At(p, "lock")
    /\ lock[cmd[p].at] = None
    /\ lock' = [lock EXCEPT ![cmd[p].at] = p]
    /\ cmd' = [cmd EXCEPT ![p].pc = "discover"]
    /\ UNCHANGED <<ctrs, live, tokens, started>>

StartStopping(p, records) ==
    /\ cmd' = [cmd EXCEPT ![p].pc = "stop", ![p].queue = records]
    /\ UNCHANGED <<ctrs, live, tokens, lock, started>>

\* Mutant: takes all that the scoped discovery matches.
PathMatchesByHash(p) ==
    IF cmd[p].scoped
    THEN DiscoverRoot(ctrs, AgentboxOwned, cmd[p].at)
    ELSE ExactMatches(DiscoverAll(ctrs, AgentboxOwned), cmd[p].at)

\* Scoped for a directory, everything for a stored path.
PathMatches(p) ==
    ExactMatches(IF cmd[p].scoped
                 THEN DiscoverRoot(ctrs, AgentboxOwned, cmd[p].at)
                 ELSE DiscoverAll(ctrs, AgentboxOwned), cmd[p].at)

\* stop_exact_git_root_matches
DiscoverPath(p) ==
    /\ At(p, "discover") /\ Sel(p) = "path"
    /\ LET matches == PathMatches(p)
           usable ==
             /\ cmd[p].scoped => ~Collision(ctrs, AgentboxOwned, cmd[p].at)
             /\ matches # {}
             /\ Cardinality(matches) > 1 => cmd[p].force
       IN  \/ usable /\ StartStopping(p, matches)
           \/ ~usable /\ EndTarget(p, TRUE)

\* RootedSessionCleanupScope::Selected
DiscoverSelected(p) ==
    /\ At(p, "discover") /\ Sel(p) = "id"
    /\ StartStopping(p, {c \in cmd[p].picked : c.root = cmd[p].at})

\* Mutant: trusts what it saw before the lock.
RunningMatchesPicked(p) == {c \in cmd[p].picked : c.root = cmd[p].at}

\* cleanup_running_exact_matches_for_locked_root
RunningMatches(p) ==
    {c \in ExactMatches(DiscoverRoot(ctrs, AgentboxOwned, cmd[p].at),
                        cmd[p].at) : c.running}

DiscoverRunning(p) ==
    /\ At(p, "discover") /\ Sel(p) = "all"
    /\ \/ /\ ~Collision(ctrs, AgentboxOwned, cmd[p].at)
          /\ StartStopping(p, RunningMatches(p))
       \/ Collision(ctrs, AgentboxOwned, cmd[p].at) /\ EndTarget(p, TRUE)

\* "workspace lock file changed while acquiring it; retry the command"
LockFails(p) == At(p, "lock") /\ EndTarget(p, TRUE)

\* podman ps or inspect fails: a container may vanish between the two.
DiscoveryFails(p) ==
    /\ \/ At(p, "resolve") /\ Sel(p) # "path"
       \/ At(p, "discover") /\ Sel(p) # "id"
    /\ EndTarget(p, TRUE)

Named(n) == {c \in ctrs : c.name = n}
Ended(n) == {IF c.name = n THEN [c EXCEPT !.running = FALSE] ELSE c : c \in ctrs}

\* podman stop --ignore <name>: the container ends and --rm removes it, or
\* it ends and is not removed yet, or the call fails.
StopIgnore(p) ==
    /\ At(p, "stop")
    /\ \E c \in cmd[p].queue :
          /\ cmd' = [cmd EXCEPT ![p].pc = "verify", ![p].cur = c,
                                ![p].queue = @ \ {c}]
          /\ ctrs' \in {ctrs, ctrs \ Named(c.name), Ended(c.name)}
    /\ UNCHANGED <<live, tokens, lock, started>>

\* remove_codex_attach_token_for_session
RemoveToken(p) ==
    LET c == cmd[p].cur
    IN  tokens' = IF c.codex /\ c.root # None THEN tokens \ {c.root} ELSE tokens

ContainerRemoved(p) ==
    /\ At(p, "verify")
    /\ Named(cmd[p].cur.name) = {}
    /\ cmd' = [cmd EXCEPT ![p].pc = "stop", ![p].cur = None]
    /\ RemoveToken(p)
    /\ UNCHANGED <<ctrs, live, lock, started>>

\* Mutant: an existing container counts as stopped.
ContainerRemainsIgnored(p) ==
    /\ At(p, "verify")
    /\ cmd' = [cmd EXCEPT ![p].pc = "stop", ![p].cur = None]
    /\ UNCHANGED <<ctrs, live, tokens, lock, started>>

\* The container still exists, or the query fails.
ContainerRemains(p) ==
    /\ At(p, "verify")
    /\ cmd' = [cmd EXCEPT ![p].pc = "stop", ![p].cur = None,
                          ![p].failed = TRUE]
    /\ UNCHANGED <<ctrs, live, tokens, lock, started>>

\* The guard of this root is dropped and the next group follows.
EndGroup(p) ==
    /\ At(p, "stop") /\ cmd[p].queue = {}
    /\ cmd' = [cmd EXCEPT ![p].pc = "groups", ![p].at = None]
    /\ Release(p)
    /\ UNCHANGED <<ctrs, live, tokens, started>>

StopStep(p) ==
    \/ ResolvePath(p) \/ ResolveStableId(p) \/ ResolveAll(p)
    \/ NextGroup(p) \/ UnrootedGroup(p) \/ GroupsDone(p)
    \/ DiscoverPath(p) \/ DiscoverSelected(p) \/ DiscoverRunning(p)
    \/ DiscoveryFails(p)
    \/ StopIgnore(p) \/ ContainerRemoved(p) \/ ContainerRemains(p)
    \/ EndGroup(p)

(***************************************************************************)
(* Everything else that happens.                                           *)
(***************************************************************************)

Session(r) ==
    [name |-> NameOf[r], made |-> "now", kind |-> "managed", schema |-> TRUE,
     root |-> r, hash |-> HashOf[r], metadata |-> TRUE, launchInside |-> TRUE,
     codex |-> TRUE, attach |-> TRUE, published |-> TRUE, args |-> TRUE,
     mount |-> TRUE, running |-> TRUE]

\* What exec runs under the name of the workspace: without labels.
Bare(r) ==
    [name |-> NameOf[r], made |-> "now", kind |-> "other", schema |-> FALSE,
     root |-> None, hash |-> None, metadata |-> FALSE, launchInside |-> FALSE,
     codex |-> FALSE, attach |-> FALSE, published |-> FALSE, args |-> TRUE,
     mount |-> TRUE, running |-> TRUE]

\* A start holds the lock of r from ensure_required_resources_absent on.
\* Bound: one start or exec per root, which also tells a container from its
\* successor.
StartSession(r) ==
    /\ r \in Startable \ started
    /\ lock[r] = None
    /\ r \in live
    /\ DiscoverRoot(ctrs, AgentboxOwned, r) = {}
    /\ ~Collision(ctrs, AgentboxOwned, r)
    /\ Named(NameOf[r]) = {}
    /\ ctrs' = ctrs \cup {Session(r)}
    /\ tokens' = tokens \cup {r}
    /\ started' = started \cup {r}
    /\ UNCHANGED <<live, lock, cmd>>

\* An exec refuses only managed sessions, writes no token, and holds the lock
\* while its container runs.
StartExec(r) ==
    /\ r \in Startable \ started
    /\ lock[r] = None
    /\ r \in live
    /\ DiscoverRoot(ctrs, ManagedSessions, r) = {}
    /\ ~Collision(ctrs, ManagedSessions, r)
    /\ Named(NameOf[r]) = {}
    /\ ctrs' = ctrs \cup {Bare(r)}
    /\ lock' = [lock EXCEPT ![r] = Exec]
    /\ started' = started \cup {r}
    /\ UNCHANGED <<live, tokens, cmd>>

\* The container has ended and is gone, or exec was killed and it goes on.
ExecEnds(r) ==
    /\ lock[r] = Exec
    /\ lock' = [lock EXCEPT ![r] = None]
    /\ ctrs' \in {ctrs, ctrs \ {Bare(r), [Bare(r) EXCEPT !.running = FALSE]}}
    /\ UNCHANGED <<live, tokens, started, cmd>>

ServerExits(c) ==
    /\ c.running
    /\ ctrs' = Ended(c.name)
    /\ UNCHANGED <<live, tokens, lock, started, cmd>>

Reap(c) ==
    /\ ~c.running
    /\ ctrs' = ctrs \ {c}
    /\ UNCHANGED <<live, tokens, lock, started, cmd>>

RootVanishes(r) ==
    /\ r \in Mortal \cap live
    /\ live' = live \ {r}
    /\ UNCHANGED <<ctrs, tokens, lock, started, cmd>>

\* What happened before the first stop is in Leftovers.
Environment ==
    /\ \E p \in Procs : cmd[p].pc \notin {"new", "done"}
    /\ \/ \E r \in Roots : StartSession(r) \/ StartExec(r) \/ RootVanishes(r)
       \/ \E c \in ctrs : ServerExits(c) \/ Reap(c)

Finished ==
    /\ \A p \in Procs : At(p, "done")
    /\ UNCHANGED vars

Next ==
    \/ \E p \in Procs, j \in Jobs : Invoke(p, j)
    \/ \E p \in Procs : StopStep(p) \/ AcquireLock(p) \/ LockFails(p)
    \/ Environment
    \/ \E r \in Roots : ExecEnds(r)
    \/ Finished

Spec == Init /\ [][Next]_vars

\* A running command takes its next step, flock does not pass over a waiting
\* command for ever, and codex exec comes to an end.
FairSpec ==
    /\ Spec
    /\ \A r \in Roots : WF_vars(ExecEnds(r))
    /\ \A p \in Procs : WF_vars(StopStep(p)) /\ SF_vars(AcquireLock(p))

-----------------------------------------------------------------------------
(***************************************************************************)
(* Properties                                                              *)
(***************************************************************************)

Done(p) == At(p, "done")
Holds(p) == cmd[p].pc \in {"discover", "stop", "verify"} /\ cmd[p].at # None

\* The state is well typed, names are unique, and an invocation holds the
\* lock of the root it works on, from its acquisition to the end of the
\* group or target, and no other lock.
TypeOK ==
    /\ ctrs \subseteq Containers
    /\ \A c, d \in ctrs : c.name = d.name => c = d
    /\ live \subseteq Roots /\ tokens \subseteq Roots /\ started \subseteq Roots
    /\ lock \in [Roots -> Procs \cup {Exec, None}]
    /\ cmd \in [Procs -> Command]
    /\ \A p \in Procs, r \in Roots : lock[r] = p <=> Holds(p) /\ cmd[p].at = r

\* A container of the command line is still there: the same one, and still
\* running if only running ones were meant.
Survives(c) ==
    \E d \in ctrs : d.name = c.name /\ d.made = c.made /\ d.running

\* Whatever happens meanwhile, a stop that reports success has ended every
\* container its command line covered, except those with a drifted hash.
OkLeavesOnlyDrifted ==
    \A p \in Procs : Done(p) /\ ~cmd[p].failed =>
        \A c \in cmd[p].claimed : Survives(c) => Drifted(c)

\* The step of p that may end c.
Stops(p, c) == At(p, "stop") /\ cmd'[p].pc = "verify" /\ cmd'[p].cur.name = c.name

\* Under the lock of a root, the stop of a directory and stop --all end only
\* containers of that root, also if what they saw before the lock is gone and
\* another container took its name.  (The containers without a git root are
\* stopped by name and without a lock, and by then the name can be another
\* container's, even that of an exec.)
StopIsExact ==
    [][\A p \in Procs : \A c \in ctrs : Stops(p, c) =>
          /\ Sel(p) = "path" => c.root = Head(cmd[p].todo).root
          /\ Sel(p) = "all" /\ cmd[p].at # None =>
                c.root = cmd[p].at /\ c.kind \in AgentboxOwned]_vars

\* A stop of a directory or of all takes away a root's attach token only
\* with its sessions: every healthy session of the root is still to be
\* stopped, or the command has failed.
TokenLeavesWithSessions ==
    [][\A p \in Procs : \A c \in ctrs :
          (/\ At(p, "verify") /\ Sel(p) # "id" /\ cmd'[p] # cmd[p]
           /\ c.root \in tokens \ tokens'
           /\ c.kind = "managed" /\ ~Failed(c))
          => cmd[p].failed \/ \E d \in cmd[p].queue : d.name = c.name]_vars

\* connect and restart take no session that their prompts do not offer.
TakenIsOffered ==
    /\ \A r \in Roots : ConnectTakes(ctrs, live, r) \subseteq ConnectOffers(ctrs, live)
    /\ \A h \in Hashes : RestartTakes(ctrs, live, h) \subseteq RestartOffers(ctrs, live)

\* What the prompts offer is taken, unless another container claims the
\* root or the id, or the stored arguments are malformed.
OfferedIsTaken ==
    /\ \A c \in ConnectOffers(ctrs, live) :
          \/ c \in ConnectTakes(ctrs, live, c.root)
          \/ \E d \in ctrs : d # c /\ (d.root = c.root \/ d.hash = c.hash)
    /\ \A c \in RestartOffers(ctrs, live) :
          \/ c \in RestartTakes(ctrs, live, c.hash)
          \/ ~c.args
          \/ \E d \in ctrs : d # c /\ d.hash = c.hash

\* Every stop returns, also behind other stops and with several groups.
StopReturns == \A p \in Procs : cmd[p].pc # "new" ~> Done(p)
=============================================================================
