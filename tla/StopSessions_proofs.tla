------------------------- MODULE StopSessions_proofs -------------------------
(***************************************************************************)
(* Proofs about StopSessions: any number of stops over any roots, targets  *)
(* and containers, while sessions and containers of codex exec start, end  *)
(* and disappear.                                                          *)
(***************************************************************************)
EXTENDS StopSessions, TLAPS

-----------------------------------------------------------------------------
(* The inductive invariant. *)

\* The records a command has still to stop or to look after.
InHand(p) == cmd[p].queue \cup (IF At(p, "verify") THEN {cmd[p].cur} ELSE {})

\* What a command carries at a program counter.
OnPath(p) ==
    /\ cmd[p].pc \notin {"new", "done"} => cmd[p].todo # <<>>
    /\ cmd[p].pc \in {"new", "resolve", "groups", "done"} => cmd[p].at = None
    /\ cmd[p].pc \in {"lock", "discover"} => cmd[p].at # None
    /\ cmd[p].pc \notin {"stop", "verify"} => cmd[p].queue = {}
    /\ cmd[p].pc \in {"new", "resolve", "done"} =>
          cmd[p].picked = {} /\ cmd[p].groups = {}
    /\ At(p, "verify") => cmd[p].cur \in Containers
    /\ \A c \in InHand(p) : c.root = cmd[p].at

\* While a command that looked at a root under its lock works on it, every
\* healthy session of the root is one it has in hand.
HasAll(p) ==
    /\ cmd[p].pc \in {"stop", "verify"} /\ cmd[p].at # None
    /\ Sel(p) # "id" /\ ~cmd[p].failed
    => \A c \in ctrs : c.root = cmd[p].at /\ c.kind = "managed" /\ ~Failed(c) =>
          \E d \in InHand(p) : d.name = c.name

StopInv == TypeOK /\ \A p \in Procs : OnPath(p) /\ HasAll(p)

-----------------------------------------------------------------------------
(* Names.  A name is derived from a root (container_name_from_canonical_   *)
(* root); the labels of a container are written with its name.             *)

NamesAreApart == \A r, s \in Roots : NameOf[r] = NameOf[s] => r = s

NameFits(c) == c.kind \in AgentboxOwned =>
    \A r \in Roots : c.name = NameOf[r] => c.root \in {r, None}

NamesTellRoots == NamesAreApart /\ \A s \in Leftovers : \A c \in s : NameFits(c)

\* What has the name of a record to be stopped is still of its root.
ExactPath(p) ==
    cmd[p].pc \notin {"new", "resolve", "done"} /\ Sel(p) = "path" =>
       LET r == Head(cmd[p].todo).root
       IN  /\ cmd[p].picked = {} /\ cmd[p].groups \subseteq {r}
           /\ cmd[p].at \in {r, None}
           /\ cmd[p].pc \in {"stop", "verify"} => cmd[p].at = r
           /\ \A q \in cmd[p].queue :
                 /\ \A s \in Roots : q.name = NameOf[s] => s = r
                 /\ \A c \in ctrs : c.name = q.name => c.root = r

\* What has the name of a record that stop --all is to stop under a lock is
\* agentbox's, and of that root.
ExactAll(p) ==
    /\ cmd[p].pc \in {"stop", "verify"} /\ cmd[p].at # None
    /\ Sel(p) = "all"
    => \A q \in cmd[p].queue :
          /\ \A s \in Roots : q.name = NameOf[s] => s = cmd[p].at
          /\ \A c \in ctrs : c.name = q.name =>
                c.root = cmd[p].at /\ c.kind \in AgentboxOwned

ExactInv == (\A c \in ctrs : NameFits(c)) /\ \A p \in Procs : ExactPath(p) /\ ExactAll(p)

-----------------------------------------------------------------------------
(* What a command line covered. *)

\* Containers that were started meanwhile.
MadeNow(c) == c.made = "now" => \E r \in started : c.name = NameOf[r]

\* It is selected, and its group is still to come.
Due(p, c) ==
    /\ Sel(p) = "id" => c \in cmd[p].picked
    /\ c.root # None
    /\ \/ c.root \in cmd[p].groups
       \/ cmd[p].pc \in {"lock", "discover"} /\ c.root = cmd[p].at

\* p will come to c, or has it in hand.
Ahead(p, c) ==
    \/ \E i \in (IF At(p, "resolve") THEN 1 ELSE 2)..Len(cmd[p].todo) :
          Covers(cmd[p].todo[i], c)
    \/ /\ cmd[p].pc \notin {"new", "resolve", "done"}
       /\ Due(p, c) \/ (c.root = None /\ c \in cmd[p].picked) \/ c \in InHand(p)

\* The one container with c's name that runs, and was there at first or was
\* started meanwhile as c was, is c.
Itself(c) ==
    /\ c.kind \in AgentboxOwned /\ MadeNow(c)
    /\ \A d \in ctrs : d.name = c.name /\ d.made = c.made /\ d.running => d = c

\* p loses sight of nothing that its command line covered.
Claims(p) ==
    /\ Done(p) => Len(cmd[p].todo) = 0
    /\ \A c \in cmd[p].claimed :
          Survives(c) /\ ~Drifted(c) => cmd[p].failed \/ Ahead(p, c)

ClaimInv ==
    /\ \A c \in ctrs : MadeNow(c)
    /\ \A p \in Procs : Claims(p) /\ \A c \in cmd[p].claimed : Itself(c)

-----------------------------------------------------------------------------
(* What the actions do to the state of a command, field by field. *)

Typed(p) ==
    cmd' \in [Procs -> Command] /\ \A q \in Procs \ {p} : cmd'[q] = cmd[q]

Becomes(p, pc, todo, picked, groups, at, queue, cur, failed) ==
    /\ Typed(p) /\ cmd'[p].claimed = cmd[p].claimed
    /\ cmd'[p].pc = pc /\ cmd'[p].todo = todo /\ cmd'[p].picked = picked
    /\ cmd'[p].groups = groups /\ cmd'[p].at = at /\ cmd'[p].queue = queue
    /\ cmd'[p].cur = cur /\ cmd'[p].failed = failed

\* p selects records.
LEMMA SelectEffect ==
    ASSUME cmd \in [Procs -> Command], NEW p \in Procs,
           NEW R \in SUBSET Containers, NEW G \in SUBSET Roots,
           cmd' = [cmd EXCEPT ![p].pc = "groups", ![p].picked = R, ![p].groups = G]
    PROVE  Becomes(p, "groups", cmd[p].todo, R, G, cmd[p].at, cmd[p].queue,
                   cmd[p].cur, cmd[p].failed)
  <1>1. cmd[p] \in Command
    OBVIOUS
  <1>2. [cmd[p] EXCEPT !.pc = "groups", !.picked = R, !.groups = G] \in Command
    BY <1>1 DEF Command, PCs
  <1>3. Typed(p) /\ cmd'[p] = [cmd[p] EXCEPT !.pc = "groups", !.picked = R,
                               !.groups = G]
    BY <1>2 DEF Typed
  <1>4. QED
    BY <1>1, <1>3 DEF Command, Becomes

\* p knows its root.
LEMMA PathEffect ==
    ASSUME cmd \in [Procs -> Command], NEW p \in Procs, NEW G \in SUBSET Roots,
           NEW b \in BOOLEAN,
           cmd' = [cmd EXCEPT ![p].pc = "groups", ![p].groups = G, ![p].scoped = b]
    PROVE  Becomes(p, "groups", cmd[p].todo, cmd[p].picked, G, cmd[p].at,
                   cmd[p].queue, cmd[p].cur, cmd[p].failed)
  <1>1. cmd[p] \in Command
    OBVIOUS
  <1>2. [cmd[p] EXCEPT !.pc = "groups", !.groups = G, !.scoped = b] \in Command
    BY <1>1 DEF Command, PCs
  <1>3. Typed(p) /\ cmd'[p] = [cmd[p] EXCEPT !.pc = "groups", !.groups = G,
                               !.scoped = b]
    BY <1>2 DEF Typed
  <1>4. QED
    BY <1>1, <1>3 DEF Command, Becomes

\* p takes up a root.
LEMMA GroupEffect ==
    ASSUME cmd \in [Procs -> Command], NEW p \in Procs, NEW r \in Roots,
           NEW G \in SUBSET Roots,
           cmd' = [cmd EXCEPT ![p].pc = "lock", ![p].at = r, ![p].groups = G]
    PROVE  Becomes(p, "lock", cmd[p].todo, cmd[p].picked, G, r, cmd[p].queue,
                   cmd[p].cur, cmd[p].failed)
  <1>1. cmd[p] \in Command
    OBVIOUS
  <1>2. [cmd[p] EXCEPT !.pc = "lock", !.at = r, !.groups = G] \in Command
    BY <1>1 DEF Command, PCs
  <1>3. Typed(p) /\ cmd'[p] = [cmd[p] EXCEPT !.pc = "lock", !.at = r, !.groups = G]
    BY <1>2 DEF Typed
  <1>4. QED
    BY <1>1, <1>3 DEF Command, Becomes

\* p takes up the records without a root.
LEMMA UnrootedEffect ==
    ASSUME cmd \in [Procs -> Command], NEW p \in Procs, NEW Q \in SUBSET Containers,
           cmd' = [cmd EXCEPT ![p].pc = "stop", ![p].at = None, ![p].queue = Q,
                   ![p].picked = {}]
    PROVE  Becomes(p, "stop", cmd[p].todo, {}, cmd[p].groups, None, Q, cmd[p].cur,
                   cmd[p].failed)
  <1>1. cmd[p] \in Command
    OBVIOUS
  <1>2. [cmd[p] EXCEPT !.pc = "stop", !.at = None, !.queue = Q,
         !.picked = {}] \in Command
    BY <1>1 DEF Command, PCs
  <1>3. Typed(p) /\ cmd'[p] = [cmd[p] EXCEPT !.pc = "stop", !.at = None,
                               !.queue = Q, !.picked = {}]
    BY <1>2 DEF Typed
  <1>4. QED
    BY <1>1, <1>3 DEF Command, Becomes

\* p has a lock.
LEMMA LockEffect ==
    ASSUME cmd \in [Procs -> Command], NEW p \in Procs,
           cmd' = [cmd EXCEPT ![p].pc = "discover"]
    PROVE  Becomes(p, "discover", cmd[p].todo, cmd[p].picked, cmd[p].groups,
                   cmd[p].at, cmd[p].queue, cmd[p].cur, cmd[p].failed)
  <1>1. cmd[p] \in Command
    OBVIOUS
  <1>2. [cmd[p] EXCEPT !.pc = "discover"] \in Command
    BY <1>1 DEF Command, PCs
  <1>3. Typed(p) /\ cmd'[p] = [cmd[p] EXCEPT !.pc = "discover"]
    BY <1>2 DEF Typed
  <1>4. QED
    BY <1>1, <1>3 DEF Command, Becomes

\* p has records to stop.
LEMMA QueueEffect ==
    ASSUME cmd \in [Procs -> Command], NEW p \in Procs, NEW Q \in SUBSET Containers,
           cmd' = [cmd EXCEPT ![p].pc = "stop", ![p].queue = Q]
    PROVE  Becomes(p, "stop", cmd[p].todo, cmd[p].picked, cmd[p].groups, cmd[p].at,
                   Q, cmd[p].cur, cmd[p].failed)
  <1>1. cmd[p] \in Command
    OBVIOUS
  <1>2. [cmd[p] EXCEPT !.pc = "stop", !.queue = Q] \in Command
    BY <1>1 DEF Command, PCs
  <1>3. Typed(p) /\ cmd'[p] = [cmd[p] EXCEPT !.pc = "stop", !.queue = Q]
    BY <1>2 DEF Typed
  <1>4. QED
    BY <1>1, <1>3 DEF Command, Becomes

\* p stops a record.
LEMMA StopEffect ==
    ASSUME cmd \in [Procs -> Command], NEW p \in Procs, NEW c \in Containers,
           NEW Q \in SUBSET Containers,
           cmd' = [cmd EXCEPT ![p].pc = "verify", ![p].cur = c, ![p].queue = Q]
    PROVE  Becomes(p, "verify", cmd[p].todo, cmd[p].picked, cmd[p].groups,
                   cmd[p].at, Q, c, cmd[p].failed)
  <1>1. cmd[p] \in Command
    OBVIOUS
  <1>2. [cmd[p] EXCEPT !.pc = "verify", !.cur = c, !.queue = Q] \in Command
    BY <1>1 DEF Command, PCs
  <1>3. Typed(p) /\ cmd'[p] = [cmd[p] EXCEPT !.pc = "verify", !.cur = c,
                               !.queue = Q]
    BY <1>2 DEF Typed
  <1>4. QED
    BY <1>1, <1>3 DEF Command, Becomes

\* The record is gone.
LEMMA GoneEffect ==
    ASSUME cmd \in [Procs -> Command], NEW p \in Procs,
           cmd' = [cmd EXCEPT ![p].pc = "stop", ![p].cur = None]
    PROVE  Becomes(p, "stop", cmd[p].todo, cmd[p].picked, cmd[p].groups, cmd[p].at,
                   cmd[p].queue, None, cmd[p].failed)
  <1>1. cmd[p] \in Command
    OBVIOUS
  <1>2. [cmd[p] EXCEPT !.pc = "stop", !.cur = None] \in Command
    BY <1>1 DEF Command, PCs
  <1>3. Typed(p) /\ cmd'[p] = [cmd[p] EXCEPT !.pc = "stop", !.cur = None]
    BY <1>2 DEF Typed
  <1>4. QED
    BY <1>1, <1>3 DEF Command, Becomes

\* The record is not gone.
LEMMA RemainsEffect ==
    ASSUME cmd \in [Procs -> Command], NEW p \in Procs,
           cmd' = [cmd EXCEPT ![p].pc = "stop", ![p].cur = None, ![p].failed = TRUE]
    PROVE  Becomes(p, "stop", cmd[p].todo, cmd[p].picked, cmd[p].groups, cmd[p].at,
                   cmd[p].queue, None, TRUE)
  <1>1. cmd[p] \in Command
    OBVIOUS
  <1>2. [cmd[p] EXCEPT !.pc = "stop", !.cur = None, !.failed = TRUE] \in Command
    BY <1>1 DEF Command, PCs
  <1>3. Typed(p) /\ cmd'[p] = [cmd[p] EXCEPT !.pc = "stop", !.cur = None,
                               !.failed = TRUE]
    BY <1>2 DEF Typed
  <1>4. QED
    BY <1>1, <1>3 DEF Command, Becomes

\* p is done with a root.
LEMMA GroupEndEffect ==
    ASSUME cmd \in [Procs -> Command], NEW p \in Procs,
           cmd' = [cmd EXCEPT ![p].pc = "groups", ![p].at = None]
    PROVE  Becomes(p, "groups", cmd[p].todo, cmd[p].picked, cmd[p].groups, None,
                   cmd[p].queue, cmd[p].cur, cmd[p].failed)
  <1>1. cmd[p] \in Command
    OBVIOUS
  <1>2. [cmd[p] EXCEPT !.pc = "groups", !.at = None] \in Command
    BY <1>1 DEF Command, PCs
  <1>3. Typed(p) /\ cmd'[p] = [cmd[p] EXCEPT !.pc = "groups", !.at = None]
    BY <1>2 DEF Typed
  <1>4. QED
    BY <1>1, <1>3 DEF Command, Becomes

\* p is done with its target.
EndsTarget(p, bad) ==
    /\ Becomes(p, IF Len(cmd[p].todo) = 1 THEN "done" ELSE "resolve",
               Tail(cmd[p].todo), {}, {}, None, {}, None, cmd[p].failed \/ bad)
    /\ Release(p) /\ UNCHANGED <<ctrs, live, tokens, started>>

\* What EndTarget does.
LEMMA EndEffect ==
    ASSUME cmd \in [Procs -> Command], NEW p \in Procs, cmd[p].todo # <<>>,
           NEW bad \in BOOLEAN, EndTarget(p, bad)
    PROVE  EndsTarget(p, bad)
  <1>1. cmd[p] \in Command /\ cmd[p].failed \in BOOLEAN /\ cmd[p].todo \in Seq(Target)
    BY DEF Command
  <1>2. PICK to \in PCs, rest \in Seq(Target), f \in BOOLEAN :
          /\ to = (IF Len(cmd[p].todo) = 1 THEN "done" ELSE "resolve")
          /\ rest = Tail(cmd[p].todo) /\ f = (cmd[p].failed \/ bad)
    <2>1. Tail(cmd[p].todo) \in Seq(Target)
      BY <1>1
    <2>2. (cmd[p].failed \/ bad) \in BOOLEAN
      OBVIOUS
    <2>3. (IF Len(cmd[p].todo) = 1 THEN "done" ELSE "resolve") \in PCs
      BY DEF PCs
    <2>4. QED
      BY <2>1, <2>2, <2>3
  <1>3. [cmd[p] EXCEPT !.pc = to, !.todo = rest, !.failed = f, !.picked = {},
                       !.groups = {}, !.at = None, !.queue = {}, !.cur = None]
           \in Command
    BY <1>1 DEF Command
  <1>4. cmd' = [cmd EXCEPT ![p] =
            [cmd[p] EXCEPT !.pc = to, !.todo = rest, !.failed = f, !.picked = {},
                           !.groups = {}, !.at = None, !.queue = {}, !.cur = None]]
    BY <1>1, <1>2 DEF EndTarget
  <1>5. Typed(p) /\ cmd'[p] =
            [cmd[p] EXCEPT !.pc = to, !.todo = rest, !.failed = f, !.picked = {},
                           !.groups = {}, !.at = None, !.queue = {}, !.cur = None]
    BY <1>3, <1>4 DEF Typed
  <1>6. Becomes(p, to, rest, {}, {}, None, {}, None, f)
    BY <1>1, <1>5 DEF Command, Becomes
  <1>7. QED
    BY <1>2, <1>6 DEF EndsTarget, EndTarget

World == UNCHANGED <<ctrs, live, tokens, lock, started>>

\* The parts of the invariant that say what the state of a command is.
LEMMA Basics ==
    ASSUME StopInv, NEW p \in Procs
    PROVE  /\ cmd \in [Procs -> Command] /\ cmd[p] \in Command
           /\ ctrs \subseteq Containers
           /\ cmd[p].picked \subseteq Containers /\ cmd[p].queue \subseteq Containers
           /\ cmd[p].groups \subseteq Roots /\ cmd[p].at \in Roots \cup {None}
           /\ cmd[p].failed \in BOOLEAN /\ cmd[p].pc \in PCs
           /\ cmd[p].pc \notin {"new", "done"} =>
                 /\ cmd[p].todo # <<>> /\ Head(cmd[p].todo) \in Target
                 /\ Sel(p) \in {"path", "id", "all"}
  <1>1. /\ cmd \in [Procs -> Command] /\ cmd[p] \in Command /\ ctrs \subseteq Containers
        /\ OnPath(p)
    BY DEF StopInv, TypeOK
  <1>2. /\ cmd[p].picked \subseteq Containers /\ cmd[p].queue \subseteq Containers
        /\ cmd[p].groups \subseteq Roots /\ cmd[p].at \in Roots \cup {None}
        /\ cmd[p].failed \in BOOLEAN /\ cmd[p].pc \in PCs
        /\ cmd[p].todo \in Seq(Target)
    BY <1>1 DEF Command
  <1>3. ASSUME cmd[p].pc \notin {"new", "done"}
        PROVE  /\ cmd[p].todo # <<>> /\ Head(cmd[p].todo) \in Target
               /\ Sel(p) \in {"path", "id", "all"}
    <2>1. cmd[p].todo # <<>>
      BY <1>1, <1>3 DEF OnPath
    <2>2. Head(cmd[p].todo) \in Target
      BY <1>2, <2>1
    <2>3. QED
      BY <2>1, <2>2 DEF Target, Sel
  <1>4. QED
    BY <1>1, <1>2, <1>3

\* A stop starts.
LEMMA InvokeDoes ==
    ASSUME StopInv, NEW p \in Procs, NEW j \in Jobs, Invoke(p, j)
    PROVE  /\ World /\ Typed(p) /\ At(p, "new") /\ cmd'[p].pc = "resolve"
           /\ cmd'[p].todo = j.targets /\ j.targets \in Seq(Target) /\ j.targets # <<>>
           /\ cmd'[p].claimed = {c \in ctrs : \E i \in DOMAIN j.targets :
                                                 Covers(j.targets[i], c)}
           /\ cmd'[p].picked = cmd[p].picked /\ cmd'[p].groups = cmd[p].groups
           /\ cmd'[p].at = cmd[p].at /\ cmd'[p].queue = cmd[p].queue
           /\ cmd'[p].failed = cmd[p].failed
  <1>1. j.targets \in Seq(Target) /\ j.targets # <<>> /\ j.force \in BOOLEAN
    BY StopAssumption
  <1>2. PICK C \in SUBSET Containers :
           C = {c \in ctrs : \E i \in DOMAIN j.targets : Covers(j.targets[i], c)}
    BY Basics
  <1>3. [cmd[p] EXCEPT !.pc = "resolve", !.todo = j.targets, !.force = j.force,
                       !.claimed = C] \in Command
    BY <1>1, Basics DEF Command, PCs
  <1>4. Typed(p) /\ cmd'[p] = [cmd[p] EXCEPT !.pc = "resolve", !.todo = j.targets,
                                             !.force = j.force, !.claimed = C]
    BY <1>2, <1>3, Basics DEF Invoke, Typed
  <1>5. /\ cmd'[p].pc = "resolve" /\ cmd'[p].todo = j.targets /\ cmd'[p].claimed = C
        /\ cmd'[p].picked = cmd[p].picked /\ cmd'[p].groups = cmd[p].groups
        /\ cmd'[p].at = cmd[p].at /\ cmd'[p].queue = cmd[p].queue
        /\ cmd'[p].failed = cmd[p].failed
    BY <1>4, Basics DEF Command
  <1>6. QED
    BY <1>1, <1>2, <1>4, <1>5 DEF Invoke, World

\* A target is resolved to records and roots, or fails.
LEMMA ResolveDoes ==
    ASSUME StopInv, NEW p \in Procs,
           ResolvePath(p) \/ ResolveStableId(p) \/ ResolveAll(p)
    PROVE  /\ At(p, "resolve")
           /\ \/ EndsTarget(p, TRUE)
              \/ \E R \in SUBSET Containers, G \in SUBSET Roots :
                    /\ World
                    /\ Becomes(p, "groups", cmd[p].todo, R, G, cmd[p].at,
                               cmd[p].queue, cmd[p].cur, cmd[p].failed)
                    /\ Sel(p) = "path" =>
                          R = {} /\ G = {Head(cmd[p].todo).root}
                    /\ Sel(p) # "path" =>
                          /\ R \subseteq ctrs /\ G = RootsOf(R)
                          /\ \A c \in R : c.kind \in AgentboxOwned
                    /\ Sel(p) = "id" =>
                          /\ \A c \in R : c.root # None
                          /\ \A c \in ctrs : c.kind \in AgentboxOwned
                               /\ c.hash \in Head(cmd[p].todo).ids => c \in R
                    /\ Sel(p) = "all" =>
                          \A c \in ctrs : c.kind \in AgentboxOwned /\ c.running => c \in R
  <1>1. /\ At(p, "resolve") /\ cmd \in [Procs -> Command] /\ cmd[p].todo # <<>>
        /\ Head(cmd[p].todo) \in Target /\ cmd[p].picked = {}
    BY Basics DEF ResolvePath, ResolveStableId, ResolveAll, At, StopInv, OnPath
  <1>2. CASE ResolvePath(p)
    <2>1. Head(cmd[p].todo).root \in Roots /\ Sel(p) = "path"
      BY <1>1, <1>2 DEF ResolvePath, Target, Sel
    <2>2. PICK G \in SUBSET Roots, b \in BOOLEAN :
            /\ G = {Head(cmd[p].todo).root} /\ b = (Head(cmd[p].todo).root \in live)
      <3>1. (Head(cmd[p].todo).root \in live) \in BOOLEAN
        OBVIOUS
      <3>2. QED
        BY <2>1, <3>1
    <2>3. cmd' = [cmd EXCEPT ![p].pc = "groups", ![p].groups = G, ![p].scoped = b]
      BY <1>2, <2>2 DEF ResolvePath
    <2>4. Becomes(p, "groups", cmd[p].todo, cmd[p].picked, G, cmd[p].at,
                  cmd[p].queue, cmd[p].cur, cmd[p].failed)
      BY <1>1, <2>3, PathEffect
    <2>5. World
      BY <1>2 DEF ResolvePath, World
    <2>6. QED
      BY <1>1, <2>1, <2>2, <2>4, <2>5
  <1>3. ASSUME NEW R \in SUBSET ctrs, \A c \in R : c.kind \in AgentboxOwned,
               Select(p, R, RootsOf(R))
        PROVE  /\ World /\ R \in SUBSET Containers /\ RootsOf(R) \in SUBSET Roots
               /\ Becomes(p, "groups", cmd[p].todo, R, RootsOf(R), cmd[p].at,
                          cmd[p].queue, cmd[p].cur, cmd[p].failed)
    <2>1. R \in SUBSET Containers /\ RootsOf(R) \in SUBSET Roots
      BY Basics DEF RootsOf, Containers
    <2>2. QED
      BY <1>1, <1>3, <2>1, SelectEffect DEF Select, World
  <1>4. CASE ResolveStableId(p)
    <2> DEFINE same == {c \in DiscoverAll(ctrs, AgentboxOwned) :
                           c.hash \in Head(cmd[p].todo).ids}
    <2>1. /\ Sel(p) = "id"
          /\ \/ IdSelectable(p, same) /\ Select(p, same, RootsOf(same))
             \/ EndTarget(p, TRUE)
      BY <1>4 DEF ResolveStableId
    <2>2. /\ \A c : c \in same <=> /\ c \in ctrs /\ c.kind \in AgentboxOwned
                                   /\ c.hash \in Head(cmd[p].todo).ids
      BY DEF DiscoverAll, Candidates
    <2>3. IdSelectable(p, same) => \A c \in same : c.root # None
      BY DEF IdSelectable
    <2> HIDE DEF same
    <2>4. CASE EndTarget(p, TRUE)
      BY <1>1, <2>4, EndEffect
    <2>5. CASE IdSelectable(p, same) /\ Select(p, same, RootsOf(same))
      BY <1>1, <1>3, <2>1, <2>2, <2>3, <2>5
    <2>6. QED
      BY <2>1, <2>4, <2>5
  <1>5. CASE ResolveAll(p)
    <2> DEFINE running == {c \in DiscoverAll(ctrs, AgentboxOwned) : c.running}
    <2>1. /\ Sel(p) = "all" /\ Select(p, running, RootsOf(running))
      BY <1>5 DEF ResolveAll
    <2>2. \A c : c \in running <=> c \in ctrs /\ c.kind \in AgentboxOwned /\ c.running
      BY DEF DiscoverAll, Candidates
    <2> HIDE DEF running
    <2>3. QED
      BY <1>1, <1>3, <2>1, <2>2
  <1>6. QED
    BY <1>2, <1>4, <1>5

\* The next group of records is taken up.
LEMMA GroupDoes ==
    ASSUME StopInv, NEW p \in Procs, NextGroup(p) \/ UnrootedGroup(p)
    PROVE  /\ World /\ At(p, "groups")
           /\ \/ \E r \in cmd[p].groups :
                    Becomes(p, "lock", cmd[p].todo, cmd[p].picked,
                            cmd[p].groups \ {r}, r, cmd[p].queue, cmd[p].cur,
                            cmd[p].failed)
              \/ /\ cmd[p].groups = {} /\ Unrooted(p) # {}
                 /\ Becomes(p, "stop", cmd[p].todo, {}, cmd[p].groups, None,
                            Unrooted(p), cmd[p].cur, cmd[p].failed)
  <1>1. World /\ At(p, "groups")
    BY DEF NextGroup, UnrootedGroup, World
  <1>2. CASE NextGroup(p)
    <2>1. PICK r \in cmd[p].groups :
            cmd' = [cmd EXCEPT ![p].pc = "lock", ![p].at = r, ![p].groups = @ \ {r}]
      BY <1>2 DEF NextGroup
    <2>2. PICK G \in SUBSET Roots : G = cmd[p].groups \ {r}
      BY Basics
    <2>3. cmd' = [cmd EXCEPT ![p].pc = "lock", ![p].at = r, ![p].groups = G]
      BY <2>1, <2>2
    <2>4. Becomes(p, "lock", cmd[p].todo, cmd[p].picked, G, r, cmd[p].queue,
                  cmd[p].cur, cmd[p].failed)
      BY <2>1, <2>3, GroupEffect, Basics
    <2>5. QED
      BY <1>1, <2>2, <2>4
  <1>3. CASE UnrootedGroup(p)
    <2>1. Unrooted(p) \in SUBSET Containers
      BY Basics DEF Unrooted
    <2>2. QED
      BY <1>1, <1>3, <2>1, UnrootedEffect, Basics DEF UnrootedGroup
  <1>4. QED
    BY <1>2, <1>3

\* A target ends: all its groups are done, or something fails.
LEMMA EndDoes ==
    ASSUME StopInv, NEW p \in Procs,
           GroupsDone(p) \/ DiscoveryFails(p) \/ LockFails(p)
    PROVE  /\ cmd[p].pc \in {"resolve", "groups", "lock", "discover"}
           /\ \/ EndsTarget(p, TRUE)
              \/ /\ EndsTarget(p, FALSE) /\ At(p, "groups")
                 /\ cmd[p].groups = {} /\ Unrooted(p) = {}
  <1>1. cmd[p].pc \in {"resolve", "groups", "lock", "discover"}
    BY DEF GroupsDone, DiscoveryFails, LockFails, At
  <1>2. cmd \in [Procs -> Command] /\ cmd[p].todo # <<>>
    BY <1>1, Basics
  <1>3. QED
    BY <1>1, <1>2, EndEffect DEF GroupsDone, DiscoveryFails, LockFails

\* What is found under the lock is to be stopped, or the target fails.
LEMMA DiscoverDoes ==
    ASSUME StopInv, NEW p \in Procs,
           DiscoverPath(p) \/ DiscoverSelected(p) \/ DiscoverRunning(p)
    PROVE  /\ At(p, "discover")
           /\ \/ EndsTarget(p, TRUE)
              \/ \E Q \in SUBSET Containers :
                    /\ World
                    /\ Becomes(p, "stop", cmd[p].todo, cmd[p].picked, cmd[p].groups,
                               cmd[p].at, Q, cmd[p].cur, cmd[p].failed)
                    /\ \A c \in Q : c.root = cmd[p].at
                    /\ Sel(p) = "id" =>
                          \A c \in cmd[p].picked : c.root = cmd[p].at => c \in Q
                    /\ Sel(p) # "id" =>
                          /\ Q \subseteq ctrs /\ \A c \in Q : c.kind \in AgentboxOwned
                          /\ \A c \in ctrs :
                                /\ c.kind \in AgentboxOwned /\ c.root = cmd[p].at
                                /\ ~Drifted(c) /\ c.running
                                => c \in Q
  <1>1. /\ At(p, "discover") /\ cmd \in [Procs -> Command] /\ cmd[p].todo # <<>>
        /\ cmd[p].at \in Roots
    BY Basics DEF DiscoverPath, DiscoverSelected, DiscoverRunning, At, StopInv, OnPath
  <1>2. ASSUME NEW Q \in SUBSET Containers, StartStopping(p, Q)
        PROVE  /\ World
               /\ Becomes(p, "stop", cmd[p].todo, cmd[p].picked, cmd[p].groups,
                          cmd[p].at, Q, cmd[p].cur, cmd[p].failed)
    BY <1>1, <1>2, QueueEffect DEF StartStopping, World
  <1>3. CASE EndTarget(p, TRUE)
    BY <1>1, <1>3, EndEffect
  <1>4. CASE DiscoverSelected(p)
    <2>1. PICK Q \in SUBSET Containers : Q = {c \in cmd[p].picked : c.root = cmd[p].at}
      BY Basics
    <2>2. Sel(p) = "id" /\ StartStopping(p, Q)
      BY <1>4, <2>1 DEF DiscoverSelected
    <2>3. QED
      BY <1>1, <1>2, <2>1, <2>2
  <1>5. \A c \in ctrs : /\ c.kind \in AgentboxOwned /\ c.root = cmd[p].at
                        /\ ~Drifted(c)
           => c \in ExactMatches(DiscoverRoot(ctrs, AgentboxOwned, cmd[p].at), cmd[p].at)
    BY <1>1, HashAssumption
    DEF ExactMatches, DiscoverRoot, Candidates, InScope, Matches, Drifted
  <1>6. CASE DiscoverPath(p) /\ ~EndTarget(p, TRUE)
    <2>1. Sel(p) = "path" /\ StartStopping(p, PathMatches(p))
      BY <1>6 DEF DiscoverPath
    <2>2. /\ PathMatches(p) \subseteq ctrs
          /\ \A c \in PathMatches(p) : c.kind \in AgentboxOwned /\ c.root = cmd[p].at
      BY DEF PathMatches, ExactMatches, DiscoverRoot, DiscoverAll, Candidates
    <2>3. \A c \in ctrs : c.kind \in AgentboxOwned /\ c.root = cmd[p].at /\ ~Drifted(c)
             => c \in PathMatches(p)
      BY <1>5 DEF PathMatches, ExactMatches, DiscoverAll, Candidates
    <2>4. PathMatches(p) \in SUBSET Containers
      BY <2>2, Basics
    <2>5. QED
      BY <1>1, <1>2, <2>1, <2>2, <2>3, <2>4
  <1>7. CASE DiscoverRunning(p) /\ ~EndTarget(p, TRUE)
    <2>1. Sel(p) = "all" /\ StartStopping(p, RunningMatches(p))
      BY <1>7 DEF DiscoverRunning
    <2>2. /\ RunningMatches(p) \subseteq ctrs
          /\ \A c \in RunningMatches(p) : c.kind \in AgentboxOwned /\ c.root = cmd[p].at
      BY DEF RunningMatches, ExactMatches, DiscoverRoot, Candidates
    <2>3. \A c \in ctrs : /\ c.kind \in AgentboxOwned /\ c.root = cmd[p].at
                          /\ ~Drifted(c) /\ c.running
             => c \in RunningMatches(p)
      BY <1>5 DEF RunningMatches
    <2>4. RunningMatches(p) \in SUBSET Containers
      BY <2>2, Basics
    <2>5. QED
      BY <1>1, <1>2, <2>1, <2>2, <2>3, <2>4
  <1>8. QED
    BY <1>3, <1>4, <1>6, <1>7

\* Containers end or go, and nothing else becomes of them.
Like(d, e) ==
    d.name = e.name /\ d.made = e.made /\ d.kind = e.kind /\ d.root = e.root

Fewer ==
    /\ ctrs' \subseteq Containers
    /\ \A c, d \in ctrs' : c.name = d.name => c = d
    /\ \A d \in ctrs' : \E e \in ctrs : Like(d, e) /\ (d.running => d = e)

\* What an end, or the removal of some containers, does.
LEMMA FewerEffect ==
    ASSUME StopInv, ctrs' \subseteq ctrs \/ \E n : ctrs' = Ended(n)
    PROVE  Fewer
  <1>1. ctrs \subseteq Containers /\ \A c, d \in ctrs : c.name = d.name => c = d
    BY DEF StopInv, TypeOK
  <1>2. CASE ctrs' \subseteq ctrs
    BY <1>1, <1>2 DEF Fewer, Like
  <1>3. ASSUME NEW n, ctrs' = Ended(n)
        PROVE  Fewer
    <2> DEFINE E(c) == IF c.name = n THEN [c EXCEPT !.running = FALSE] ELSE c
    <2>1. ASSUME NEW c \in Containers
          PROVE  /\ E(c) \in Containers /\ Like(E(c), c)
                 /\ E(c).running => E(c) = c
      <3>1. /\ [c EXCEPT !.running = FALSE] \in Containers
            /\ Like([c EXCEPT !.running = FALSE], c)
            /\ [c EXCEPT !.running = FALSE].running = FALSE
        BY <2>1 DEF Containers, Like
      <3>2. QED
        BY <2>1, <3>1 DEF Like
    <2>2. ctrs' = {E(c) : c \in ctrs}
      BY <1>3 DEF Ended
    <2> HIDE DEF E
    <2>3. QED
      BY <1>1, <2>1, <2>2 DEF Fewer, Like
  <1>4. QED
    BY <1>2, <1>3

\* A record is stopped by name.
LEMMA StopDoes ==
    ASSUME StopInv, NEW p \in Procs, StopIgnore(p)
    PROVE  /\ At(p, "stop") /\ Fewer /\ UNCHANGED <<live, tokens, lock, started>>
           /\ \E c \in cmd[p].queue :
                 Becomes(p, "verify", cmd[p].todo, cmd[p].picked, cmd[p].groups,
                         cmd[p].at, cmd[p].queue \ {c}, c, cmd[p].failed)
  <1>1. PICK c \in cmd[p].queue :
          /\ cmd' = [cmd EXCEPT ![p].pc = "verify", ![p].cur = c, ![p].queue = @ \ {c}]
          /\ ctrs' \in {ctrs, ctrs \ Named(c.name), Ended(c.name)}
    BY DEF StopIgnore
  <1>2. PICK Q \in SUBSET Containers : Q = cmd[p].queue \ {c}
    BY Basics
  <1>3. c \in Containers
    BY <1>1, Basics
  <1>4. cmd' = [cmd EXCEPT ![p].pc = "verify", ![p].cur = c, ![p].queue = Q]
    BY <1>1, <1>2
  <1>5. Becomes(p, "verify", cmd[p].todo, cmd[p].picked, cmd[p].groups, cmd[p].at,
                Q, c, cmd[p].failed)
    BY <1>3, <1>4, StopEffect, Basics
  <1>6. Fewer
    BY <1>1, FewerEffect
  <1>7. QED
    BY <1>2, <1>5, <1>6 DEF StopIgnore

\* It is gone, and its token with it, or it is not.
LEMMA VerifyDoes ==
    ASSUME StopInv, NEW p \in Procs, ContainerRemoved(p) \/ ContainerRemains(p)
    PROVE  /\ At(p, "verify") /\ UNCHANGED <<ctrs, live, lock, started>>
           /\ \/ /\ tokens' = tokens
                 /\ Becomes(p, "stop", cmd[p].todo, cmd[p].picked, cmd[p].groups,
                            cmd[p].at, cmd[p].queue, None, TRUE)
              \/ /\ Named(cmd[p].cur.name) = {}
                 /\ tokens' \subseteq tokens /\ tokens \ tokens' \subseteq {cmd[p].cur.root}
                 /\ Becomes(p, "stop", cmd[p].todo, cmd[p].picked, cmd[p].groups,
                            cmd[p].at, cmd[p].queue, None, cmd[p].failed)
  <1>1. CASE ContainerRemoved(p)
    BY <1>1, GoneEffect, Basics DEF ContainerRemoved, RemoveToken
  <1>2. CASE ContainerRemains(p)
    BY <1>2, RemainsEffect, Basics DEF ContainerRemains
  <1>3. QED
    BY <1>1, <1>2

\* A group ends.
LEMMA EndGroupDoes ==
    ASSUME StopInv, NEW p \in Procs, EndGroup(p)
    PROVE  /\ At(p, "stop") /\ cmd[p].queue = {}
           /\ Release(p) /\ UNCHANGED <<ctrs, live, tokens, started>>
           /\ Becomes(p, "groups", cmd[p].todo, cmd[p].picked, cmd[p].groups,
                      None, cmd[p].queue, cmd[p].cur, cmd[p].failed)
  BY GroupEndEffect, Basics DEF EndGroup

\* A lock is acquired.
LEMMA LockDoes ==
    ASSUME StopInv, NEW p \in Procs, AcquireLock(p)
    PROVE  /\ At(p, "lock") /\ lock[cmd[p].at] = None
           /\ lock' = [lock EXCEPT ![cmd[p].at] = p]
           /\ UNCHANGED <<ctrs, live, tokens, started>>
           /\ Becomes(p, "discover", cmd[p].todo, cmd[p].picked, cmd[p].groups,
                      cmd[p].at, cmd[p].queue, cmd[p].cur, cmd[p].failed)
  BY LockEffect, Basics DEF AcquireLock

StepOf(p) ==
    \/ \E j \in Jobs : Invoke(p, j)
    \/ StopStep(p) \/ AcquireLock(p) \/ LockFails(p)

-----------------------------------------------------------------------------
(* The parts of the invariant, one after the other, under a step of p. *)

\* A step of p leaves the other commands alone, and starts nothing.
LEMMA WorldStep ==
    ASSUME StopInv, NEW p \in Procs, StepOf(p)
    PROVE  /\ Typed(p) /\ Fewer /\ UNCHANGED <<live, started>>
           /\ tokens' \subseteq tokens
  <1>1. CASE \E j \in Jobs : Invoke(p, j)
    BY <1>1, InvokeDoes, FewerEffect DEF Becomes, EndsTarget, World
  <1>2. CASE ResolvePath(p) \/ ResolveStableId(p) \/ ResolveAll(p)
    BY <1>2, ResolveDoes, FewerEffect DEF Becomes, EndsTarget, World
  <1>3. CASE NextGroup(p) \/ UnrootedGroup(p)
    BY <1>3, GroupDoes, FewerEffect DEF Becomes, EndsTarget, World
  <1>4. CASE GroupsDone(p) \/ DiscoveryFails(p) \/ LockFails(p)
    BY <1>4, EndDoes, FewerEffect DEF Becomes, EndsTarget, World
  <1>5. CASE DiscoverPath(p) \/ DiscoverSelected(p) \/ DiscoverRunning(p)
    BY <1>5, DiscoverDoes, FewerEffect DEF Becomes, EndsTarget, World
  <1>6. CASE StopIgnore(p)
    BY <1>6, StopDoes, FewerEffect DEF Becomes, EndsTarget, World
  <1>7. CASE ContainerRemoved(p) \/ ContainerRemains(p)
    BY <1>7, VerifyDoes, FewerEffect DEF Becomes, EndsTarget, World
  <1>8. CASE EndGroup(p)
    BY <1>8, EndGroupDoes, FewerEffect DEF Becomes, EndsTarget, World
  <1>9. CASE AcquireLock(p)
    BY <1>9, LockDoes, FewerEffect DEF Becomes, EndsTarget, World
  <1>10. QED
    BY <1>1, <1>2, <1>3, <1>4, <1>5, <1>6, <1>7, <1>8, <1>9
    DEF StepOf, StopStep

\* What becomes of p's lock.
LEMMA HoldStep ==
    ASSUME StopInv, NEW p \in Procs, StepOf(p)
    PROVE  \/ /\ lock' = lock /\ (Holds(p)' <=> Holds(p))
              /\ Holds(p) => cmd'[p].at = cmd[p].at
           \/ Release(p) /\ ~Holds(p)'
           \/ /\ ~Holds(p) /\ Holds(p)' /\ cmd'[p].at = cmd[p].at
              /\ cmd[p].at \in Roots /\ lock[cmd[p].at] = None
              /\ lock' = [lock EXCEPT ![cmd[p].at] = p]
  <1>1. OnPath(p) /\ cmd[p].at \in Roots \cup {None}
    BY Basics DEF StopInv
  <1>2. CASE \E j \in Jobs : Invoke(p, j)
    BY <1>1, <1>2, InvokeDoes DEF Holds, At, Becomes, EndsTarget, World, OnPath
  <1>3. CASE ResolvePath(p) \/ ResolveStableId(p) \/ ResolveAll(p)
    BY <1>1, <1>3, ResolveDoes DEF Holds, At, Becomes, EndsTarget, World
  <1>4. CASE NextGroup(p) \/ UnrootedGroup(p)
    BY <1>1, <1>4, GroupDoes DEF Holds, At, Becomes, EndsTarget, World, OnPath
  <1>5. CASE GroupsDone(p) \/ DiscoveryFails(p) \/ LockFails(p)
    BY <1>1, <1>5, EndDoes DEF Holds, At, Becomes, EndsTarget, World
  <1>6. CASE DiscoverPath(p) \/ DiscoverSelected(p) \/ DiscoverRunning(p)
    BY <1>1, <1>6, DiscoverDoes
    DEF Holds, At, Becomes, EndsTarget, World, OnPath
  <1>7. CASE StopIgnore(p)
    BY <1>1, <1>7, StopDoes DEF Holds, At, Becomes, EndsTarget, World
  <1>8. CASE ContainerRemoved(p) \/ ContainerRemains(p)
    BY <1>1, <1>8, VerifyDoes DEF Holds, At, Becomes, EndsTarget, World
  <1>9. CASE EndGroup(p)
    BY <1>1, <1>9, EndGroupDoes DEF Holds, At, Becomes, EndsTarget, World
  <1>10. CASE AcquireLock(p)
    <2>1. cmd[p].pc = "lock" /\ cmd[p].at \in Roots /\ cmd[p].at # None
      BY <1>1, <1>10, LockDoes DEF OnPath, At
    <2>2. QED
      BY <1>10, <2>1, LockDoes DEF Holds, Becomes
  <1>11. QED
    BY <1>2, <1>3, <1>4, <1>5, <1>6, <1>7, <1>8, <1>9, <1>10
    DEF StepOf, StopStep

\* Types, names, and locks.
LEMMA TypeStep ==
    ASSUME StopInv, NEW p \in Procs, StepOf(p)
    PROVE  TypeOK'
  <1>1. /\ TypeOK /\ Typed(p) /\ Fewer /\ UNCHANGED <<live, started>>
        /\ tokens' \subseteq tokens
    BY WorldStep DEF StopInv
  <1>2. /\ lock \in [Roots -> Procs \cup {Exec, None}]
        /\ None \notin Procs /\ Exec \notin Procs
    BY <1>1, StopAssumption DEF TypeOK
  <1>3. /\ lock' \in [Roots -> Procs \cup {Exec, None}]
        /\ \A r \in Roots, q \in Procs \ {p} : lock'[r] = q <=> lock[r] = q
        /\ \A r \in Roots : lock'[r] = p <=> Holds(p)' /\ cmd'[p].at = r
    <2>1. \A r \in Roots : lock[r] = p <=> Holds(p) /\ cmd[p].at = r
      BY <1>1 DEF TypeOK
    <2>2. CASE /\ lock' = lock /\ (Holds(p)' <=> Holds(p))
               /\ Holds(p) => cmd'[p].at = cmd[p].at
      BY <1>2, <2>1, <2>2
    <2>3. CASE Release(p) /\ ~Holds(p)'
      BY <1>2, <2>3 DEF Release
    <2>4. CASE /\ ~Holds(p) /\ Holds(p)' /\ cmd'[p].at = cmd[p].at
               /\ cmd[p].at \in Roots /\ lock[cmd[p].at] = None
               /\ lock' = [lock EXCEPT ![cmd[p].at] = p]
      BY <1>2, <2>1, <2>4
    <2>5. QED
      BY <2>2, <2>3, <2>4, HoldStep
  <1>4. \A q \in Procs, r \in Roots : lock'[r] = q <=> Holds(q)' /\ cmd'[q].at = r
    <2>1. ASSUME NEW q \in Procs, NEW r \in Roots
          PROVE  lock'[r] = q <=> Holds(q)' /\ cmd'[q].at = r
      <3>1. CASE q = p
        BY <1>3, <3>1
      <3>2. CASE q # p
        <4>1. cmd'[q] = cmd[q]
          BY <1>1, <3>2 DEF Typed
        <4>2. lock[r] = q <=> Holds(q) /\ cmd[q].at = r
          BY <1>1 DEF TypeOK
        <4>3. QED
          BY <1>3, <3>2, <4>1, <4>2 DEF Holds
      <3>3. QED
        BY <3>1, <3>2
    <2>2. QED
      BY <2>1
  <1>5. QED
    BY <1>1, <1>3, <1>4 DEF TypeOK, Fewer, Typed

\* What is left of a sequence after its head.
LEMMA RestOfTargets ==
    ASSUME NEW S, NEW s \in Seq(S), s # <<>>
    PROVE  /\ Len(s) \in Nat \ {0} /\ Len(Tail(s)) = Len(s) - 1
           /\ Head(s) = s[1] /\ \A n \in 1..Len(Tail(s)) : Tail(s)[n] = s[n + 1]
           /\ Len(s) # 1 => Tail(s) # <<>>
  <1>1. /\ Len(s) \in Nat \ {0} /\ Len(Tail(s)) = Len(s) - 1
        /\ Head(s) = s[1] /\ \A n \in 1..Len(Tail(s)) : Tail(s)[n] = s[n + 1]
    OBVIOUS
  <1>2. ASSUME Len(s) # 1, Tail(s) = <<>>
        PROVE  FALSE
    <2>1. Len(Tail(s)) # 0
      BY <1>1, <1>2
    <2>2. \A t : t = <<>> => Len(t) = 0
      OBVIOUS
    <2>3. QED
      BY <1>2, <2>1, <2>2
  <1>3. QED
    BY <1>1, <1>2

\* After its target, a command takes up the next one, or is done.
LEMMA EndedIsOnPath ==
    ASSUME StopInv, NEW p \in Procs, cmd[p].pc \notin {"new", "done"},
           NEW bad, EndsTarget(p, bad)
    PROVE  OnPath(p)'
  <1>1. cmd[p].todo \in Seq(Target) /\ cmd[p].todo # <<>>
    BY Basics DEF Command
  <1>2. /\ cmd'[p].pc = (IF Len(cmd[p].todo) = 1 THEN "done" ELSE "resolve")
        /\ cmd'[p].todo = Tail(cmd[p].todo)
        /\ cmd'[p].picked = {} /\ cmd'[p].groups = {} /\ cmd'[p].at = None
        /\ cmd'[p].queue = {}
    BY DEF EndsTarget, Becomes
  <1>3. Len(cmd[p].todo) # 1 => Tail(cmd[p].todo) # <<>>
    BY <1>1, RestOfTargets
  <1>4. QED
    BY <1>2, <1>3 DEF OnPath, At, InHand

\* What a command carries.
LEMMA PathStep ==
    ASSUME StopInv, NEW p \in Procs, StepOf(p)
    PROVE  OnPath(p)'
  <1>1. OnPath(p)
    BY DEF StopInv
  <1>2. CASE \E j \in Jobs : Invoke(p, j)
    BY <1>1, <1>2, InvokeDoes DEF OnPath, At, InHand, Becomes
  <1>3. CASE ResolvePath(p) \/ ResolveStableId(p) \/ ResolveAll(p)
    <2>1. CASE EndsTarget(p, TRUE)
      BY <1>3, <2>1, ResolveDoes, EndedIsOnPath DEF At
    <2>2. QED
      BY <1>1, <1>3, <2>1, ResolveDoes DEF OnPath, At, InHand, Becomes
  <1>4. CASE NextGroup(p) \/ UnrootedGroup(p)
    <2>1. cmd[p].groups \subseteq Roots /\ None \notin Roots
      BY Basics, HashAssumption
    <2>2. \A c \in Unrooted(p) : c.root = None
      BY DEF Unrooted
    <2>3. QED
      BY <1>1, <1>4, <2>1, <2>2, GroupDoes DEF OnPath, At, InHand, Becomes
  <1>5. CASE GroupsDone(p) \/ DiscoveryFails(p) \/ LockFails(p)
    <2>1. EndsTarget(p, TRUE) \/ EndsTarget(p, FALSE)
      BY <1>5, EndDoes
    <2>2. cmd[p].pc \in {"resolve", "groups", "lock", "discover"}
      BY <1>5, EndDoes
    <2>3. QED
      BY <2>1, <2>2, EndedIsOnPath
  <1>6. CASE DiscoverPath(p) \/ DiscoverSelected(p) \/ DiscoverRunning(p)
    <2>1. CASE EndsTarget(p, TRUE)
      BY <1>6, <2>1, DiscoverDoes, EndedIsOnPath DEF At
    <2>2. QED
      BY <1>1, <1>6, <2>1, DiscoverDoes DEF OnPath, At, InHand, Becomes
  <1>7. CASE StopIgnore(p)
    BY <1>1, <1>7, StopDoes, Basics DEF OnPath, At, InHand, Becomes
  <1>8. CASE ContainerRemoved(p) \/ ContainerRemains(p)
    BY <1>1, <1>8, VerifyDoes DEF OnPath, At, InHand, Becomes
  <1>9. CASE EndGroup(p)
    BY <1>1, <1>9, EndGroupDoes DEF OnPath, At, InHand, Becomes
  <1>10. CASE AcquireLock(p)
    BY <1>1, <1>10, LockDoes DEF OnPath, At, InHand, Becomes
  <1>11. QED
    BY <1>2, <1>3, <1>4, <1>5, <1>6, <1>7, <1>8, <1>9, <1>10
    DEF StepOf, StopStep

\* A session that has not failed runs, and its hash is its root's.
LEMMA HealthyRuns ==
    ASSUME NEW c, ~Failed(c)
    PROVE  c.running /\ ~Drifted(c)
  BY DEF Failed, DeriveStatus, RequiredLabels, IdentityLabels, Drifted

\* The healthy sessions of a root are p's, step by step.
LEMMA HasAllStep ==
    ASSUME StopInv, NEW p \in Procs, StepOf(p)
    PROVE  HasAll(p)'
  <1>1. HasAll(p) /\ OnPath(p) /\ Typed(p) /\ Fewer
    BY WorldStep DEF StopInv
  <1>2. CASE \E j \in Jobs : Invoke(p, j)
    BY <1>1, <1>2, InvokeDoes DEF HasAll, At, Becomes, EndsTarget
  <1>3. CASE ResolvePath(p) \/ ResolveStableId(p) \/ ResolveAll(p)
    BY <1>1, <1>3, ResolveDoes DEF HasAll, At, Becomes, EndsTarget
  <1>4. CASE NextGroup(p) \/ UnrootedGroup(p)
    BY <1>1, <1>4, GroupDoes DEF HasAll, At, Becomes, EndsTarget
  <1>5. CASE GroupsDone(p) \/ DiscoveryFails(p) \/ LockFails(p)
    BY <1>1, <1>5, EndDoes DEF HasAll, At, Becomes, EndsTarget
  <1>6. CASE DiscoverPath(p) \/ DiscoverSelected(p) \/ DiscoverRunning(p)
    <2>1. CASE EndsTarget(p, TRUE)
      BY <2>1 DEF HasAll, EndsTarget, Becomes
    <2>2. ASSUME NEW Q \in SUBSET Containers, World,
                 Becomes(p, "stop", cmd[p].todo, cmd[p].picked, cmd[p].groups,
                         cmd[p].at, Q, cmd[p].cur, cmd[p].failed),
                 Sel(p) # "id" =>
                    \A c \in ctrs : /\ c.kind \in AgentboxOwned /\ c.root = cmd[p].at
                                    /\ ~Drifted(c) /\ c.running
                                    => c \in Q
          PROVE  HasAll(p)'
      <3>1. /\ ctrs' = ctrs /\ cmd'[p].at = cmd[p].at /\ cmd'[p].queue = Q
            /\ Sel(p)' = Sel(p)
        BY <2>2 DEF World, Becomes, Sel
      <3>2. "managed" \in AgentboxOwned
        BY DEF AgentboxOwned
      <3>3. QED
        BY <2>2, <3>1, <3>2, HealthyRuns DEF HasAll, InHand
    <2>3. QED
      BY <1>6, <2>1, <2>2, DiscoverDoes
  <1>7. CASE StopIgnore(p)
    <2>1. PICK c \in cmd[p].queue :
             Becomes(p, "verify", cmd[p].todo, cmd[p].picked, cmd[p].groups,
                     cmd[p].at, cmd[p].queue \ {c}, c, cmd[p].failed)
      BY <1>7, StopDoes
    <2>2. /\ InHand(p)' = InHand(p) /\ Sel(p)' = Sel(p)
          /\ cmd'[p].at = cmd[p].at /\ cmd'[p].failed = cmd[p].failed
          /\ cmd[p].pc = "stop"
      BY <1>7, <2>1, StopDoes DEF InHand, Becomes, At, Sel
    <2>3. \A d \in ctrs' : ~Failed(d) => d \in ctrs
      BY <1>1, HealthyRuns DEF Fewer
    <2>4. QED
      BY <1>1, <2>2, <2>3 DEF HasAll
  <1>8. CASE ContainerRemoved(p) \/ ContainerRemains(p)
    <2>1. /\ cmd[p].pc = "verify" /\ ctrs' = ctrs /\ cmd'[p].pc = "stop"
          /\ cmd'[p].at = cmd[p].at /\ cmd'[p].queue = cmd[p].queue
          /\ Sel(p)' = Sel(p)
          /\ cmd'[p].failed = TRUE
             \/ (Named(cmd[p].cur.name) = {} /\ cmd'[p].failed = cmd[p].failed)
      BY <1>8, VerifyDoes DEF At, Becomes, Sel
    <2>2. CASE cmd'[p].failed = TRUE
      BY <2>2 DEF HasAll
    <2>3. CASE Named(cmd[p].cur.name) = {} /\ cmd'[p].failed = cmd[p].failed
      <3>1. \A d \in InHand(p) : d \in cmd[p].queue \/ d = cmd[p].cur
        BY <2>1 DEF InHand, At
      <3>2. \A c \in ctrs : c.name # cmd[p].cur.name
        BY <2>3 DEF Named
      <3>3. cmd[p].queue \subseteq InHand(p)'
        BY <2>1 DEF InHand
      <3>4. QED
        BY <1>1, <2>1, <2>3, <3>1, <3>2, <3>3 DEF HasAll
    <2>4. QED
      BY <2>1, <2>2, <2>3
  <1>9. CASE EndGroup(p)
    BY <1>1, <1>9, EndGroupDoes DEF HasAll, At, Becomes, EndsTarget
  <1>10. CASE AcquireLock(p)
    BY <1>1, <1>10, LockDoes DEF HasAll, At, Becomes, EndsTarget
  <1>11. QED
    BY <1>2, <1>3, <1>4, <1>5, <1>6, <1>7, <1>8, <1>9, <1>10
    DEF StepOf, StopStep

\* Commands that do not step keep theirs.
LEMMA OthersKeep ==
    ASSUME StopInv, NEW q \in Procs, cmd'[q] = cmd[q], Fewer
    PROVE  OnPath(q)' /\ HasAll(q)'
  <1>1. OnPath(q) /\ HasAll(q)
    BY DEF StopInv
  <1>2. InHand(q)' = InHand(q) /\ Sel(q)' = Sel(q)
    BY DEF InHand, At, Sel
  <1>3. OnPath(q)'
    BY <1>1, <1>2 DEF OnPath, At
  <1>4. \A d \in ctrs' : ~Failed(d) => d \in ctrs
    BY HealthyRuns DEF Fewer
  <1>5. HasAll(q)'
    BY <1>1, <1>2, <1>4 DEF HasAll
  <1>6. QED
    BY <1>3, <1>5

\* c is a session of r, or the container of an exec.
Launched(r, c) ==
    /\ lock[r] = None /\ Named(NameOf[r]) = {} /\ r \notin started
    /\ ctrs' = ctrs \cup {c} /\ started' = started \cup {r}
    /\ tokens' \in {tokens, tokens \cup {r}}
    /\ lock' = lock \/ lock' = [lock EXCEPT ![r] = Exec]
    /\ UNCHANGED <<live, cmd>>
    /\ c \in Containers /\ c.name = NameOf[r] /\ c.made = "now"
    /\ c.kind \in AgentboxOwned \/ c.kind = "managed" => c.root = r

\* What the starts of sessions and the execs have in common.
LEMMA LaunchDoes ==
    ASSUME NEW r \in Roots, StartSession(r) \/ StartExec(r)
    PROVE  \E c : Launched(r, c)
  <1>1. CASE StartSession(r)
    <2>1. /\ Session(r) \in Containers /\ Session(r).name = NameOf[r]
          /\ Session(r).root = r /\ Session(r).made = "now"
      BY StopAssumption, HashAssumption DEF Session, Containers
    <2>2. Launched(r, Session(r))
      BY <1>1, <2>1 DEF StartSession, Launched
    <2>3. QED
      BY <2>2
  <1>2. CASE StartExec(r)
    <2>1. /\ Bare(r) \in Containers /\ Bare(r).name = NameOf[r]
          /\ Bare(r).kind = "other" /\ Bare(r).made = "now"
      BY StopAssumption, HashAssumption DEF Bare, Containers
    <2>2. "other" \notin AgentboxOwned
      BY DEF AgentboxOwned
    <2>3. Launched(r, Bare(r))
      BY <1>2, <2>1, <2>2 DEF StartExec, Launched
    <2>4. QED
      BY <2>3
  <1>3. QED
    BY <1>1, <1>2

\* A container is started only where no command holds the lock.
LEMMA StartKeeps ==
    ASSUME StopInv, NEW r \in Roots, NEW k, Launched(r, k)
    PROVE  StopInv'
  <1>1. /\ TypeOK /\ lock[r] = None /\ None \notin Procs /\ None \notin Roots
        /\ Exec \notin Procs /\ Named(NameOf[r]) = {}
        /\ ctrs' = ctrs \cup {k} /\ tokens' \in {tokens, tokens \cup {r}}
        /\ started' = started \cup {r} /\ UNCHANGED <<live, cmd>>
        /\ lock' = lock \/ lock' = [lock EXCEPT ![r] = Exec]
    BY StopAssumption, HashAssumption DEF StopInv, Launched
  <1>2. k \in Containers /\ k.name = NameOf[r] /\ (k.kind = "managed" => k.root = r)
    BY DEF Launched
  <1>3. TypeOK'
    <2>1. \A c \in ctrs : c.name # NameOf[r]
      BY <1>1 DEF Named
    <2>2. ctrs' \subseteq Containers /\ \A c, d \in ctrs' : c.name = d.name => c = d
      BY <1>1, <1>2, <2>1 DEF TypeOK
    <2>3. /\ lock \in [Roots -> Procs \cup {Exec, None}]
          /\ \A p \in Procs, s \in Roots : lock[s] = p <=> Holds(p) /\ cmd[p].at = s
      BY <1>1 DEF TypeOK
    <2>4. /\ lock' \in [Roots -> Procs \cup {Exec, None}]
          /\ \A p \in Procs, s \in Roots : lock'[s] = p <=> lock[s] = p
      BY <1>1, <2>3
    <2>5. \A p \in Procs, s \in Roots : lock'[s] = p <=> (Holds(p) /\ cmd[p].at = s)'
      BY <1>1, <2>3, <2>4 DEF Holds
    <2>6. QED
      BY <1>1, <2>2, <2>4, <2>5 DEF TypeOK
  <1>4. ASSUME NEW q \in Procs
        PROVE  OnPath(q)' /\ HasAll(q)'
    <2>1. OnPath(q) /\ HasAll(q) /\ cmd'[q] = cmd[q]
      BY <1>1 DEF StopInv
    <2>2. InHand(q)' = InHand(q) /\ Sel(q)' = Sel(q)
      BY <2>1 DEF InHand, At, Sel
    <2>3. OnPath(q)'
      BY <2>1, <2>2 DEF OnPath, At
    <2>4. cmd[q].pc \in {"stop", "verify"} => cmd[q].at # r
      <3>1. ~(Holds(q) /\ cmd[q].at = r)
        BY <1>1 DEF TypeOK
      <3>2. QED
        BY <1>1, <3>1 DEF Holds
    <2>5. \A c \in ctrs' : c \in ctrs \/ (c.kind = "managed" => c.root = r)
      BY <1>1, <1>2
    <2>6. HasAll(q)'
      BY <2>1, <2>2, <2>4, <2>5 DEF HasAll
    <2>7. QED
      BY <2>3, <2>6
  <1>5. QED
    BY <1>3, <1>4 DEF StopInv

-----------------------------------------------------------------------------
(* The invariant. *)

\* At first there is nothing to do.
LEMMA InvInit ==
    ASSUME Init
    PROVE  StopInv
  <1>1. NewCommand \in Command
    BY DEF NewCommand, Command, PCs
  <1>2. \A p \in Procs : cmd[p] = NewCommand
    BY DEF Init
  <1>3. TypeOK
    BY <1>1, <1>2, StopAssumption DEF Init, TypeOK, Holds, NewCommand
  <1>4. \A p \in Procs : OnPath(p) /\ HasAll(p)
    BY <1>2 DEF NewCommand, OnPath, HasAll, InHand, At
  <1>5. QED
    BY <1>3, <1>4 DEF StopInv

\* Every step of the specification.
LEMMA StepsAre ==
    ASSUME [Next]_vars
    PROVE  \/ \E p \in Procs : StepOf(p)
           \/ \E r \in Roots : \E c : Launched(r, c)
           \/ /\ cmd' = cmd /\ UNCHANGED <<tokens, started>> /\ live' \subseteq live
              /\ ctrs' \subseteq ctrs \/ \E n : ctrs' = Ended(n)
              /\ \/ lock' = lock
                 \/ \E r \in Roots : lock[r] = Exec /\ lock' = [lock EXCEPT ![r] = None]
  <1>1. CASE \E r \in Roots : StartSession(r) \/ StartExec(r)
    BY <1>1, LaunchDoes
  <1>2. CASE \E r \in Roots : ExecEnds(r)
    BY <1>2 DEF ExecEnds
  <1>3. CASE (\E p \in Procs : StepOf(p)) \/ Finished \/ UNCHANGED vars
    BY <1>3 DEF Finished, vars
  <1>4. CASE /\ Environment
             /\ ~\E r \in Roots : StartSession(r) \/ StartExec(r)
    BY <1>4 DEF Environment, ServerExits, Reap, RootVanishes
  <1>5. QED
    BY <1>1, <1>2, <1>3, <1>4 DEF Next, StepOf

\* The invariant is inductive.
LEMMA InvNext ==
    ASSUME StopInv, [Next]_vars
    PROVE  StopInv'
  <1>1. ASSUME NEW p \in Procs, StepOf(p)
        PROVE  StopInv'
    <2>1. TypeOK' /\ Typed(p) /\ Fewer
      BY <1>1, TypeStep, WorldStep
    <2>2. OnPath(p)' /\ HasAll(p)'
      BY <1>1, PathStep, HasAllStep
    <2>3. \A q \in Procs \ {p} : OnPath(q)' /\ HasAll(q)'
      BY <2>1, OthersKeep DEF Typed
    <2>4. QED
      BY <2>1, <2>2, <2>3 DEF StopInv
  <1>2. ASSUME cmd' = cmd, UNCHANGED <<tokens, started>>, live' \subseteq live,
               ctrs' \subseteq ctrs \/ \E n : ctrs' = Ended(n),
               \/ lock' = lock
               \/ \E r \in Roots : lock[r] = Exec /\ lock' = [lock EXCEPT ![r] = None]
        PROVE  StopInv'
    <2>1. Fewer
      BY <1>2, FewerEffect
    <2>2. TypeOK'
      <3>1. /\ TypeOK /\ lock \in [Roots -> Procs \cup {Exec, None}]
            /\ Exec \notin Procs /\ None \notin Procs
        BY StopAssumption DEF StopInv, TypeOK
      <3>2. /\ lock' \in [Roots -> Procs \cup {Exec, None}]
            /\ \A p \in Procs, s \in Roots : lock'[s] = p <=> lock[s] = p
        BY <1>2, <3>1
      <3>3. QED
        BY <1>2, <2>1, <3>1, <3>2 DEF TypeOK, Fewer, Holds
    <2>3. \A q \in Procs : OnPath(q)' /\ HasAll(q)'
      BY <1>2, <2>1, OthersKeep
    <2>4. QED
      BY <2>2, <2>3 DEF StopInv
  <1>3. QED
    BY <1>1, <1>2, StartKeeps, StepsAre

\* The invariant holds in every reachable state of the stops, with any
\* command lines, containers and roots.
THEOREM StopInvCorrect ==
    Spec => []StopInv
  <1>1. Init => StopInv
    BY InvInit
  <1>2. StopInv /\ [Next]_vars => StopInv'
    BY InvNext
  <1>3. QED
    BY <1>1, <1>2, PTL DEF Spec

\* Types, the uniqueness of names, and the locks: a stop holds the lock of the
\* root it works on, from with_workspace_lock to the end of its group, and no
\* other lock, whatever fails.
THEOREM TypeCorrect ==
    Spec => []TypeOK
  <1>1. StopInv => TypeOK
    BY DEF StopInv
  <1>2. QED
    BY <1>1, StopInvCorrect, PTL

\* The step that takes a token away finds no healthy session left behind.
LEMMA TokenStep ==
    ASSUME StopInv, [Next]_vars, NEW p \in Procs, NEW c \in ctrs,
           At(p, "verify"), Sel(p) # "id", cmd'[p] # cmd[p],
           c.root \in tokens \ tokens', c.kind = "managed", ~Failed(c)
    PROVE  cmd[p].failed \/ \E d \in cmd[p].queue : d.name = c.name
  <1>1. StepOf(p)
    <2>1. PICK q \in Procs : StepOf(q)
      BY StepsAre DEF Launched
    <2>2. q = p
      BY <2>1, WorldStep DEF Typed
    <2>3. QED
      BY <2>1, <2>2
  <1>2. CASE ContainerRemoved(p) \/ ContainerRemains(p)
    <2>1. /\ Named(cmd[p].cur.name) = {} /\ c.root = cmd[p].cur.root
      BY <1>2, VerifyDoes
    <2>2. /\ HasAll(p) /\ OnPath(p) /\ cmd[p].pc = "verify"
          /\ InHand(p) = cmd[p].queue \cup {cmd[p].cur}
      BY DEF StopInv, At, InHand
    <2>3. c.root = cmd[p].at /\ c.root # None
      <3>1. tokens \subseteq Roots /\ None \notin Roots
        BY HashAssumption DEF StopInv, TypeOK
      <3>2. cmd[p].cur.root = cmd[p].at
        BY <2>2 DEF OnPath
      <3>3. QED
        BY <2>1, <3>1, <3>2
    <2>4. c.name # cmd[p].cur.name
      BY <2>1 DEF Named
    <2>5. QED
      BY <2>2, <2>3, <2>4 DEF HasAll
  <1>3. CASE ~(ContainerRemoved(p) \/ ContainerRemains(p))
    BY <1>1, <1>3 DEF StepOf, StopStep, Invoke, At, AcquireLock, LockFails, ResolvePath,
       ResolveStableId, ResolveAll, NextGroup, UnrootedGroup, GroupsDone, DiscoverPath,
       DiscoverSelected, DiscoverRunning, DiscoveryFails, StopIgnore, EndGroup
  <1>4. QED
    BY <1>2, <1>3

\* A stop of a directory or of all that takes a root's attach token away
\* (remove_codex_attach_token_for_session) has every healthy session of the
\* root still to stop, or has failed: no session is left without its token by
\* a stop that reports success.
THEOREM TokenLeavesWithSessionsCorrect ==
    Spec => TokenLeavesWithSessions
  <1> DEFINE Taken == \A p \in Procs : \A c \in ctrs :
          (/\ At(p, "verify") /\ Sel(p) # "id" /\ cmd'[p] # cmd[p]
           /\ c.root \in tokens \ tokens'
           /\ c.kind = "managed" /\ ~Failed(c))
          => cmd[p].failed \/ \E d \in cmd[p].queue : d.name = c.name
  <1>1. StopInv /\ [Next]_vars => [Taken]_vars
    BY TokenStep
  <1>2. [][Taken]_vars <=> TokenLeavesWithSessions
    BY PTL DEF TokenLeavesWithSessions
  <1> HIDE DEF Taken
  <1>3. QED
    BY <1>1, <1>2, StopInvCorrect, PTL DEF Spec

-----------------------------------------------------------------------------
(* A name that was selected still means what it meant. *)

\* The stop of a directory.
LEMMA ExactPathStep ==
    ASSUME StopInv, ExactInv, NEW p \in Procs, StepOf(p)
    PROVE  ExactPath(p)'
  <1>1. /\ ExactPath(p) /\ OnPath(p) /\ Fewer /\ Sel(p)' = Head(cmd'[p].todo).sel
        /\ (Head(cmd[p].todo))' = Head(cmd'[p].todo)
    BY WorldStep DEF StopInv, ExactInv, Sel
  <1>2. \A d \in ctrs' : \E e \in ctrs : d.name = e.name /\ d.root = e.root
                                               /\ d.kind = e.kind
    BY <1>1 DEF Fewer, Like
  <1>3. CASE \E j \in Jobs : Invoke(p, j)
    BY <1>1, <1>2, <1>3, InvokeDoes DEF ExactPath, At, Becomes, EndsTarget, Sel
  <1>4. CASE ResolvePath(p) \/ ResolveStableId(p) \/ ResolveAll(p)
    <2>1. CASE EndsTarget(p, TRUE)
      BY <2>1 DEF ExactPath, EndsTarget, Becomes
    <2>2. cmd[p].queue = {} /\ cmd[p].at = None
      BY <1>1, <1>4, ResolveDoes DEF OnPath, At
    <2>3. QED
      BY <1>1, <1>2, <1>4, <2>1, <2>2, ResolveDoes DEF ExactPath, Becomes, Sel
  <1>5. CASE NextGroup(p) \/ UnrootedGroup(p)
    <2>1. cmd[p].picked = {} => Unrooted(p) = {}
      BY DEF Unrooted
    <2>2. cmd[p].queue = {} /\ cmd[p].pc = "groups"
      BY <1>1, <1>5, GroupDoes DEF OnPath, At
    <2>3. QED
      BY <1>1, <1>2, <1>5, <2>1, <2>2, GroupDoes DEF ExactPath, Becomes, Sel, World
  <1>6. CASE GroupsDone(p) \/ DiscoveryFails(p) \/ LockFails(p)
    BY <1>1, <1>2, <1>6, EndDoes DEF ExactPath, At, Becomes, EndsTarget, Sel
  <1>7. CASE DiscoverPath(p) \/ DiscoverSelected(p) \/ DiscoverRunning(p)
    <2>1. CASE EndsTarget(p, TRUE)
      BY <2>1 DEF ExactPath, EndsTarget, Becomes
    <2>2. ASSUME Sel(p) = "path", NEW Q \in SUBSET ctrs, World,
                 Becomes(p, "stop", cmd[p].todo, cmd[p].picked, cmd[p].groups,
                         cmd[p].at, Q, cmd[p].cur, cmd[p].failed),
                 \A c \in Q : c.root = cmd[p].at /\ c.kind \in AgentboxOwned
          PROVE  ExactPath(p)'
      <3> DEFINE r == Head(cmd[p].todo).root
      <3>1. cmd[p].pc = "discover" /\ cmd[p].at # None
        BY <1>1, <1>7, DiscoverDoes DEF OnPath, At
      <3>2. cmd[p].at = r /\ cmd[p].picked = {} /\ cmd[p].groups \subseteq {r}
        BY <1>1, <2>2, <3>1 DEF ExactPath
      <3>3. \A q \in Q : /\ \A s \in Roots : q.name = NameOf[s] => s = r
                         /\ \A c \in ctrs : c.name = q.name => c.root = r
        BY <2>2, <3>1, <3>2 DEF ExactInv, NameFits, StopInv, TypeOK
      <3>4. /\ cmd'[p].queue = Q /\ cmd'[p].at = r /\ cmd'[p].picked = {}
            /\ cmd'[p].groups = cmd[p].groups /\ cmd'[p].todo = cmd[p].todo
            /\ ctrs' = ctrs
        BY <2>2, <3>2 DEF Becomes, World
      <3>5. QED
        BY <3>2, <3>3, <3>4 DEF ExactPath
    <2>3. QED
      <3>1. Sel(p)' = "path" \/ ExactPath(p)'
        BY DEF ExactPath
      <3>2. CASE Sel(p)' = "path" /\ ~EndsTarget(p, TRUE)
        BY <1>1, <1>7, <2>2, <3>2, DiscoverDoes DEF Becomes, Sel
      <3>3. QED
        BY <2>1, <3>1, <3>2
  <1>8. CASE StopIgnore(p)
    <2>1. /\ cmd[p].pc = "stop" /\ cmd'[p].todo = cmd[p].todo
          /\ cmd'[p].picked = cmd[p].picked /\ cmd'[p].groups = cmd[p].groups
          /\ cmd'[p].at = cmd[p].at /\ cmd'[p].queue \subseteq cmd[p].queue
      BY <1>8, StopDoes DEF At, Becomes
    <2>2. QED
      BY <1>1, <1>2, <2>1 DEF ExactPath, Sel
  <1>9. CASE ContainerRemoved(p) \/ ContainerRemains(p)
    <2>1. /\ cmd[p].pc = "verify" /\ cmd'[p].todo = cmd[p].todo
          /\ cmd'[p].picked = cmd[p].picked /\ cmd'[p].groups = cmd[p].groups
          /\ cmd'[p].at = cmd[p].at /\ cmd'[p].queue = cmd[p].queue
      BY <1>9, VerifyDoes DEF At, Becomes
    <2>2. QED
      BY <1>1, <1>2, <2>1 DEF ExactPath, Sel
  <1>10. CASE EndGroup(p)
    BY <1>1, <1>2, <1>10, EndGroupDoes
    DEF ExactPath, At, Becomes, EndsTarget, Sel
  <1>11. CASE AcquireLock(p)
    BY <1>1, <1>2, <1>11, LockDoes DEF ExactPath, At, Becomes, EndsTarget, Sel
  <1>12. QED
    BY <1>3, <1>4, <1>5, <1>6, <1>7, <1>8, <1>9, <1>10, <1>11
    DEF StepOf, StopStep

\* stop --all.
LEMMA ExactAllStep ==
    ASSUME StopInv, ExactInv, NEW p \in Procs, StepOf(p)
    PROVE  ExactAll(p)'
  <1>1. /\ ExactAll(p) /\ OnPath(p) /\ Fewer /\ Sel(p)' = Head(cmd'[p].todo).sel
    BY WorldStep DEF StopInv, ExactInv, Sel
  <1>2. \A d \in ctrs' : \E e \in ctrs : d.name = e.name /\ d.root = e.root
                                               /\ d.kind = e.kind
    BY <1>1 DEF Fewer, Like
  <1>3. ASSUME cmd'[p].pc \notin {"stop", "verify"} \/ cmd'[p].at = None
        PROVE  ExactAll(p)'
    BY <1>3 DEF ExactAll
  <1>4. CASE \E j \in Jobs : Invoke(p, j)
    BY <1>3, <1>4, InvokeDoes
  <1>5. CASE ResolvePath(p) \/ ResolveStableId(p) \/ ResolveAll(p)
    BY <1>3, <1>5, ResolveDoes DEF Becomes, EndsTarget
  <1>6. CASE NextGroup(p) \/ UnrootedGroup(p)
    BY <1>3, <1>6, GroupDoes DEF Becomes
  <1>7. CASE GroupsDone(p) \/ DiscoveryFails(p) \/ LockFails(p)
    BY <1>3, <1>7, EndDoes DEF Becomes, EndsTarget
  <1>8. CASE DiscoverPath(p) \/ DiscoverSelected(p) \/ DiscoverRunning(p)
    <2>1. CASE EndsTarget(p, TRUE)
      BY <1>3, <2>1 DEF EndsTarget, Becomes
    <2>2. ASSUME Sel(p) = "all", NEW Q \in SUBSET ctrs, World,
                 Becomes(p, "stop", cmd[p].todo, cmd[p].picked, cmd[p].groups,
                         cmd[p].at, Q, cmd[p].cur, cmd[p].failed),
                 \A c \in Q : c.root = cmd[p].at /\ c.kind \in AgentboxOwned
          PROVE  ExactAll(p)'
      <3>1. cmd[p].pc = "discover" /\ cmd[p].at # None
        BY <1>1, <1>8, DiscoverDoes DEF OnPath, At
      <3>2. \A q \in Q :
               /\ \A s \in Roots : q.name = NameOf[s] => s = cmd[p].at
               /\ \A c \in ctrs : c.name = q.name =>
                     c.root = cmd[p].at /\ c.kind \in AgentboxOwned
        BY <2>2, <3>1 DEF ExactInv, NameFits, StopInv, TypeOK
      <3>3. cmd'[p].queue = Q /\ cmd'[p].at = cmd[p].at /\ ctrs' = ctrs
        BY <2>2 DEF Becomes, World
      <3>4. QED
        BY <3>2, <3>3 DEF ExactAll
    <2>3. QED
      <3>1. Sel(p)' = "all" \/ ExactAll(p)'
        BY DEF ExactAll
      <3>2. CASE Sel(p)' = "all" /\ ~EndsTarget(p, TRUE)
        BY <1>1, <1>8, <2>2, <3>2, DiscoverDoes DEF Becomes, Sel
      <3>3. QED
        BY <2>1, <3>1, <3>2
  <1>9. CASE StopIgnore(p)
    <2>1. /\ cmd[p].pc = "stop" /\ cmd'[p].todo = cmd[p].todo
          /\ cmd'[p].at = cmd[p].at /\ cmd'[p].queue \subseteq cmd[p].queue
      BY <1>9, StopDoes DEF At, Becomes
    <2>2. QED
      BY <1>1, <1>2, <2>1 DEF ExactAll, Sel
  <1>10. CASE ContainerRemoved(p) \/ ContainerRemains(p)
    <2>1. /\ cmd[p].pc = "verify" /\ cmd'[p].todo = cmd[p].todo
          /\ cmd'[p].at = cmd[p].at /\ cmd'[p].queue = cmd[p].queue
      BY <1>10, VerifyDoes DEF At, Becomes
    <2>2. QED
      BY <1>1, <1>2, <2>1 DEF ExactAll, Sel
  <1>11. CASE EndGroup(p)
    BY <1>3, <1>11, EndGroupDoes DEF Becomes
  <1>12. CASE AcquireLock(p)
    BY <1>3, <1>12, LockDoes DEF Becomes
  <1>13. QED
    BY <1>4, <1>5, <1>6, <1>7, <1>8, <1>9, <1>10, <1>11, <1>12
    DEF StepOf, StopStep

\* Commands that do not step.
LEMMA ExactOthers ==
    ASSUME StopInv, ExactInv, NEW q \in Procs, cmd'[q] = cmd[q], Fewer
    PROVE  ExactPath(q)' /\ ExactAll(q)'
  <1>1. /\ ExactPath(q) /\ ExactAll(q) /\ Sel(q)' = Sel(q)
        /\ \A d \in ctrs' : \E e \in ctrs : d.name = e.name /\ d.root = e.root
                                               /\ d.kind = e.kind
    BY DEF ExactInv, Fewer, Like, Sel
  <1>2. ExactPath(q)'
    BY <1>1 DEF ExactPath
  <1>3. ExactAll(q)'
    BY <1>1 DEF ExactAll
  <1>4. QED
    BY <1>2, <1>3

\* What is started has its root's name, and no command stops that root.
LEMMA ExactStart ==
    ASSUME NamesTellRoots, StopInv, ExactInv, NEW r \in Roots, NEW k, Launched(r, k)
    PROVE  ExactInv'
  <1>1. /\ ctrs' = ctrs \cup {k} /\ cmd' = cmd /\ lock[r] = None /\ None \notin Procs
        /\ k.name = NameOf[r] /\ (k.kind \in AgentboxOwned => k.root = r)
    BY StopAssumption DEF Launched
  <1>2. NameFits(k)
    BY <1>1 DEF NameFits, NamesTellRoots, NamesAreApart
  <1>3. \A c \in ctrs' : NameFits(c)
    BY <1>1, <1>2 DEF ExactInv
  <1>4. ASSUME NEW q \in Procs
        PROVE  ExactPath(q)' /\ ExactAll(q)'
    <2>1. /\ ExactPath(q) /\ ExactAll(q) /\ cmd'[q] = cmd[q] /\ Sel(q)' = Sel(q)
          /\ (Head(cmd[q].todo))' = Head(cmd[q].todo)
      BY <1>1 DEF ExactInv, Sel
    <2>2. /\ cmd[q].pc \in {"stop", "verify"} => cmd[q].at # r
          /\ cmd[q].pc \notin {"stop", "verify"} => cmd[q].queue = {}
      <3>1. ~(Holds(q) /\ cmd[q].at = r) /\ OnPath(q) /\ None \notin Roots
        BY <1>1, HashAssumption DEF StopInv, TypeOK
      <3>2. QED
        BY <3>1 DEF Holds, OnPath
    <2>3. ExactAll(q)'
      BY <1>1, <2>1, <2>2 DEF ExactAll
    <2>4. ExactPath(q)'
      BY <1>1, <2>1, <2>2 DEF ExactPath
    <2>5. QED
      BY <2>3, <2>4
  <1>5. QED
    BY <1>3, <1>4 DEF ExactInv, NameFits

\* ExactInv is inductive.
LEMMA ExactNext ==
    ASSUME NamesTellRoots, StopInv, ExactInv, [Next]_vars
    PROVE  ExactInv'
  <1>1. ASSUME Fewer
        PROVE  \A c \in ctrs' : NameFits(c)
    BY <1>1 DEF ExactInv, Fewer, Like, NameFits
  <1>2. ASSUME NEW p \in Procs, StepOf(p)
        PROVE  ExactInv'
    <2>1. Typed(p) /\ Fewer
      BY <1>2, WorldStep
    <2>2. ExactPath(p)' /\ ExactAll(p)'
      BY <1>2, ExactPathStep, ExactAllStep
    <2>3. \A q \in Procs \ {p} : ExactPath(q)' /\ ExactAll(q)'
      BY <2>1, ExactOthers DEF Typed
    <2>4. QED
      BY <1>1, <2>1, <2>2, <2>3 DEF ExactInv, NameFits
  <1>3. ASSUME cmd' = cmd, ctrs' \subseteq ctrs \/ \E n : ctrs' = Ended(n)
        PROVE  ExactInv'
    <2>1. Fewer
      BY <1>3, FewerEffect
    <2>2. \A q \in Procs : ExactPath(q)' /\ ExactAll(q)'
      BY <1>3, <2>1, ExactOthers
    <2>3. QED
      BY <1>1, <2>1, <2>2 DEF ExactInv, NameFits
  <1>4. QED
    BY <1>2, <1>3, ExactStart, StepsAre

\* ExactInv holds in every reachable state, if names tell roots apart.
THEOREM ExactInvCorrect ==
    ASSUME NamesTellRoots
    PROVE  Spec => [](StopInv /\ ExactInv)
  <1>1. Init => StopInv /\ ExactInv
    <2>1. ASSUME Init
          PROVE  ExactInv
      <3>1. \A c \in ctrs : NameFits(c)
        BY <2>1 DEF Init, NamesTellRoots
      <3>2. \A p \in Procs : cmd[p].pc = "new"
        BY <2>1 DEF Init, NewCommand
      <3>3. QED
        BY <3>1, <3>2 DEF ExactInv, ExactPath, ExactAll
    <2>2. QED
      BY <2>1, InvInit
  <1>2. StopInv /\ ExactInv /\ [Next]_vars => (StopInv /\ ExactInv)'
    BY InvNext, ExactNext
  <1>3. QED
    BY <1>1, <1>2, PTL DEF Spec

\* podman stop is given a name, and what has that name may have changed since
\* the records were collected.  If container names tell roots apart, the stop of
\* a directory still ends only containers of that root, and so does stop --all
\* under the lock of a root, where they are also agentbox's: no container that
\* codex exec runs is ended under the lock.
THEOREM StopIsExactCorrect ==
    ASSUME NamesTellRoots
    PROVE  Spec => StopIsExact
  <1>1. ASSUME StopInv, ExactInv, [Next]_vars, NEW p \in Procs, NEW c \in ctrs,
               Stops(p, c)
        PROVE  /\ Sel(p) = "path" => c.root = Head(cmd[p].todo).root
               /\ Sel(p) = "all" /\ cmd[p].at # None =>
                     c.root = cmd[p].at /\ c.kind \in AgentboxOwned
    <2>1. At(p, "stop") /\ cmd'[p].pc = "verify" /\ cmd'[p].cur.name = c.name
      BY <1>1 DEF Stops
    <2>2. StepOf(p)
      <3>1. PICK q \in Procs : StepOf(q)
        BY <1>1, <2>1, StepsAre DEF Launched, At
      <3>2. q = p
        BY <1>1, <2>1, <3>1, WorldStep DEF Typed, At
      <3>3. QED
        BY <3>1, <3>2
    <2>3. StopIgnore(p)
      <3>1. CASE StopIgnore(p)
        BY <3>1
      <3>2. CASE EndGroup(p)
        BY <1>1, <2>1, <3>2, EndGroupDoes DEF Becomes
      <3>3. CASE ~StopIgnore(p) /\ ~EndGroup(p)
        BY <2>1, <2>2, <3>3 DEF StepOf, StopStep, Invoke, At, AcquireLock, LockFails,
           ResolvePath, ResolveStableId, ResolveAll, NextGroup, UnrootedGroup, GroupsDone,
           DiscoverPath, DiscoverSelected, DiscoverRunning, DiscoveryFails,
           ContainerRemoved, ContainerRemains
      <3>4. QED
        BY <3>1, <3>2, <3>3
    <2>4. cmd'[p].cur \in cmd[p].queue
      BY <1>1, <2>3, StopDoes DEF Becomes
    <2>5. ExactPath(p) /\ ExactAll(p) /\ cmd[p].pc = "stop"
      BY <1>1, <2>1 DEF ExactInv, At
    <2>6. QED
      BY <2>1, <2>4, <2>5 DEF ExactPath, ExactAll
  <1>2. StopInv /\ ExactInv /\ [Next]_vars =>
          [\A p \in Procs : \A c \in ctrs : Stops(p, c) =>
             /\ Sel(p) = "path" => c.root = Head(cmd[p].todo).root
             /\ Sel(p) = "all" /\ cmd[p].at # None =>
                   c.root = cmd[p].at /\ c.kind \in AgentboxOwned]_vars
    BY <1>1
  <1>3. QED
    BY <1>2, ExactInvCorrect, PTL DEF Spec, StopIsExact

-----------------------------------------------------------------------------
(* Nothing that the command line covered is lost sight of. *)

\* What still runs is the container itself.
LEMMA SurvivorIs ==
    ASSUME NEW c, Itself(c), Survives(c)
    PROVE  c \in ctrs /\ c.running /\ c.kind \in AgentboxOwned
  BY DEF Itself, Survives

\* It was there before.
LEMMA SurvivedBefore ==
    ASSUME Fewer, NEW c, Survives(c)'
    PROVE  Survives(c)
  BY DEF Fewer, Survives

\* A container keeps what it is while others end.
LEMMA StaysItself ==
    ASSUME Fewer, started' = started, NEW c
    PROVE  (MadeNow(c) => MadeNow(c)') /\ (Itself(c) => Itself(c)')
  BY DEF Fewer, Itself, MadeNow

\* A target that ends without a failure has no groups left.
LEMMA EndKeepsAhead ==
    ASSUME StopInv, NEW p \in Procs, NEW c, EndsTarget(p, FALSE), At(p, "groups"),
           cmd[p].groups = {}, Unrooted(p) = {}, Ahead(p, c)
    PROVE  Ahead(p, c)' /\ cmd'[p].pc # "done"
  <1>1. cmd[p].todo \in Seq(Target) /\ cmd[p].todo # <<>> /\ cmd[p].pc = "groups"
    BY Basics DEF Command, At
  <1>2. cmd[p].queue = {}
    BY <1>1 DEF StopInv, OnPath
  <1>3. PICK i \in 2..Len(cmd[p].todo) : Covers(cmd[p].todo[i], c)
    BY <1>1, <1>2 DEF Ahead, Due, InHand, At, Unrooted
  <1>4. /\ Len(cmd[p].todo) \in Nat /\ Len(Tail(cmd[p].todo)) = Len(cmd[p].todo) - 1
        /\ \A n \in 1..Len(Tail(cmd[p].todo)) : Tail(cmd[p].todo)[n] = cmd[p].todo[n + 1]
    BY <1>1, RestOfTargets
  <1>5. i - 1 \in 1..Len(Tail(cmd[p].todo)) /\ Len(cmd[p].todo) # 1 /\ (i - 1) + 1 = i
    BY <1>3, <1>4
  <1>6. Covers(Tail(cmd[p].todo)[i - 1], c)
    BY <1>3, <1>4, <1>5
  <1>7. cmd'[p].pc = "resolve" /\ cmd'[p].todo = Tail(cmd[p].todo)
    BY <1>5 DEF EndsTarget, Becomes
  <1>8. \E j \in 1..Len(cmd'[p].todo) : Covers(cmd'[p].todo[j], c)
    BY <1>5, <1>6, <1>7
  <1>9. QED
    BY <1>7, <1>8 DEF Ahead, At, Covers

\* A record that is selected, or an end of the sequence.
LEMMA ResolveKeepsAhead ==
    ASSUME StopInv, NEW p \in Procs, NEW c \in ctrs \cap Containers, c.running,
           c.kind \in AgentboxOwned, Ahead(p, c), ~EndsTarget(p, TRUE),
           ResolvePath(p) \/ ResolveStableId(p) \/ ResolveAll(p)
    PROVE  Ahead(p, c)'
  <1>1. PICK R \in SUBSET Containers, G \in SUBSET Roots :
           /\ Becomes(p, "groups", cmd[p].todo, R, G, cmd[p].at,
                      cmd[p].queue, cmd[p].cur, cmd[p].failed)
           /\ Sel(p) = "path" => R = {} /\ G = {Head(cmd[p].todo).root}
           /\ Sel(p) # "path" => G = RootsOf(R)
           /\ Sel(p) = "id" =>
                 /\ \A d \in R : d.root # None
                 /\ \A d \in ctrs : d.kind \in AgentboxOwned
                      /\ d.hash \in Head(cmd[p].todo).ids => d \in R
           /\ Sel(p) = "all" =>
                 \A d \in ctrs : d.kind \in AgentboxOwned /\ d.running => d \in R
    BY ResolveDoes
  <1>2. /\ cmd[p].pc = "resolve" /\ cmd[p].todo \in Seq(Target) /\ cmd[p].todo # <<>>
        /\ Head(cmd[p].todo) \in Target
    BY ResolveDoes, Basics DEF Command, At
  <1>3. /\ cmd'[p].pc = "groups" /\ cmd'[p].todo = cmd[p].todo /\ cmd'[p].picked = R
        /\ cmd'[p].groups = G /\ Sel(p)' = Sel(p)
    BY <1>1 DEF Becomes, Sel
  <1>4. PICK i \in 1..Len(cmd[p].todo) : Covers(cmd[p].todo[i], c)
    BY <1>2 DEF Ahead, At
  <1>5. Len(cmd[p].todo) \in Nat /\ Head(cmd[p].todo) = cmd[p].todo[1]
    BY <1>2
  <1>6. CASE i # 1
    <2>1. i \in 2..Len(cmd[p].todo)
      BY <1>4, <1>5, <1>6
    <2>2. \E j \in 2..Len(cmd'[p].todo) : Covers(cmd'[p].todo[j], c)
      BY <1>3, <1>4, <2>1
    <2>3. QED
      BY <1>3, <2>2 DEF Ahead, At, Covers
  <1>7. CASE i = 1
    <2>1. /\ Covers(Head(cmd[p].todo), c) /\ Sel(p) = Head(cmd[p].todo).sel
          /\ Sel(p) \in {"path", "id", "all"}
      BY <1>4, <1>5, <1>7, <1>2 DEF Sel, Target
    <2>2. c \in R /\ c.root # None => c.root \in RootsOf(R)
      BY DEF RootsOf
    <2>3. None \notin Roots /\ (Sel(p) = "path" => Head(cmd[p].todo).root \in Roots)
      BY <1>2, <2>1, HashAssumption DEF Target
    <2>4. \/ c.root # None /\ c.root \in G /\ (Sel(p) = "id" => c \in R)
          \/ c.root = None /\ c \in R
      <3>1. CASE Sel(p) = "path"
        BY <1>1, <2>1, <2>3, <3>1 DEF Covers
      <3>2. CASE Sel(p) = "id"
        BY <1>1, <2>1, <2>2, <3>2 DEF Covers
      <3>3. CASE Sel(p) = "all"
        BY <1>1, <2>2, <3>3
      <3>4. QED
        BY <2>1, <3>1, <3>2, <3>3
    <2>5. QED
      BY <1>3, <2>4 DEF Ahead, Due
  <1>8. QED
    BY <1>6, <1>7

\* What p has ahead, step by step.
LEMMA AheadStep ==
    ASSUME StopInv, ClaimInv, NEW p \in Procs, StepOf(p), cmd'[p].claimed = cmd[p].claimed,
           NEW c \in cmd[p].claimed, Survives(c)', ~Drifted(c), ~cmd'[p].failed
    PROVE  Ahead(p, c)' /\ ~Done(p)'
  <1>1. OnPath(p) /\ Itself(c) /\ Survives(c) /\ c \in Containers
    <2>1. OnPath(p) /\ Itself(c) /\ Survives(c) /\ Fewer
      BY WorldStep, SurvivedBefore DEF StopInv, ClaimInv
    <2>2. QED
      BY <2>1, SurvivorIs, Basics
  <1>2. c \in ctrs /\ c.running /\ c.kind \in AgentboxOwned
    BY <1>1, SurvivorIs
  <1>3. ~cmd[p].failed => Ahead(p, c)
    BY <1>1 DEF ClaimInv, Claims
  <1>4. CASE \E j \in Jobs : Invoke(p, j)
    <2>1. PICK j \in Jobs : Invoke(p, j)
      BY <1>4
    <2>2. /\ cmd'[p].pc = "resolve" /\ cmd'[p].todo = j.targets
          /\ j.targets \in Seq(Target)
          /\ cmd[p].claimed = {d \in ctrs : \E i \in DOMAIN j.targets :
                                               Covers(j.targets[i], d)}
      BY <2>1, InvokeDoes
    <2>3. PICK i \in DOMAIN j.targets : Covers(j.targets[i], c)
      BY <2>2
    <2>4. i \in 1..Len(cmd'[p].todo) /\ Covers(cmd'[p].todo[i], c)
      BY <2>2, <2>3
    <2>5. QED
      BY <2>2, <2>4 DEF Ahead, At, Covers, Done
  <1>5. CASE ResolvePath(p) \/ ResolveStableId(p) \/ ResolveAll(p)
    <2>1. ~EndsTarget(p, TRUE)
      BY DEF EndsTarget, Becomes
    <2>2. ~cmd[p].failed /\ cmd'[p].pc = "groups"
      BY <1>5, <2>1, ResolveDoes DEF Becomes
    <2>3. QED
      BY <1>1, <1>2, <1>3, <1>5, <2>1, <2>2, ResolveKeepsAhead DEF Done, At
  <1>6. CASE NextGroup(p) \/ UnrootedGroup(p)
    <2>1. /\ cmd[p].pc = "groups" /\ cmd'[p].todo = cmd[p].todo
          /\ cmd'[p].failed = cmd[p].failed /\ cmd[p].queue = {} /\ Sel(p)' = Sel(p)
      BY <1>1, <1>6, GroupDoes DEF OnPath, At, Becomes, Sel
    <2>2. \/ \E i \in 2..Len(cmd[p].todo) : Covers(cmd[p].todo[i], c)
          \/ /\ c.root # None /\ c.root \in cmd[p].groups
             /\ Sel(p) = "id" => c \in cmd[p].picked
          \/ c.root = None /\ c \in cmd[p].picked
      BY <1>3, <2>1 DEF Ahead, Due, InHand, At
    <2>3. CASE \E i \in 2..Len(cmd[p].todo) : Covers(cmd[p].todo[i], c)
      BY <1>6, <2>1, <2>3, GroupDoes DEF Becomes, Ahead, At, Covers, Done
    <2>4. ASSUME NEW r \in cmd[p].groups, cmd'[p].pc = "lock", cmd'[p].at = r,
                 cmd'[p].picked = cmd[p].picked, cmd'[p].groups = cmd[p].groups \ {r}
          PROVE  Ahead(p, c)' /\ ~Done(p)'
      BY <2>1, <2>2, <2>3, <2>4 DEF Ahead, Due, Done, At
    <2>5. ASSUME cmd[p].groups = {}, cmd'[p].pc = "stop", cmd'[p].queue = Unrooted(p)
          PROVE  Ahead(p, c)' /\ ~Done(p)'
      <3>1. CASE c.root = None /\ c \in cmd[p].picked
        <4>1. c \in InHand(p)'
          BY <2>5, <3>1 DEF InHand, Unrooted
        <4>2. QED
          BY <2>5, <4>1 DEF Ahead, Done, At
      <3>2. QED
        BY <2>2, <2>3, <2>5, <3>1
    <2>6. QED
      BY <1>6, <2>4, <2>5, GroupDoes DEF Becomes
  <1>7. CASE GroupsDone(p) \/ DiscoveryFails(p) \/ LockFails(p)
    <2>1. EndsTarget(p, FALSE) /\ At(p, "groups") /\ cmd[p].groups = {} /\ Unrooted(p) = {}
      BY <1>7, EndDoes DEF EndsTarget, Becomes
    <2>2. ~cmd[p].failed
      BY <2>1 DEF EndsTarget, Becomes
    <2>3. QED
      BY <1>3, <2>1, <2>2, EndKeepsAhead DEF Done, At
  <1>8. CASE DiscoverPath(p) \/ DiscoverSelected(p) \/ DiscoverRunning(p)
    <2>1. ~EndsTarget(p, TRUE)
      BY DEF EndsTarget, Becomes
    <2>2. PICK Q \in SUBSET Containers :
             /\ Becomes(p, "stop", cmd[p].todo, cmd[p].picked, cmd[p].groups,
                        cmd[p].at, Q, cmd[p].cur, cmd[p].failed)
             /\ Sel(p) = "id" => \A d \in cmd[p].picked : d.root = cmd[p].at => d \in Q
             /\ Sel(p) # "id" =>
                   \A d \in ctrs : /\ d.kind \in AgentboxOwned /\ d.root = cmd[p].at
                                   /\ ~Drifted(d) /\ d.running
                                   => d \in Q
      BY <1>8, <2>1, DiscoverDoes
    <2>3. /\ cmd[p].pc = "discover" /\ cmd'[p].pc = "stop" /\ cmd'[p].todo = cmd[p].todo
          /\ cmd'[p].picked = cmd[p].picked /\ cmd'[p].groups = cmd[p].groups
          /\ cmd'[p].queue = Q /\ cmd[p].queue = {} /\ ~cmd[p].failed /\ Sel(p)' = Sel(p)
      BY <1>1, <1>8, <2>2, DiscoverDoes DEF OnPath, At, Becomes, Sel
    <2>4. \/ \E i \in 2..Len(cmd[p].todo) : Covers(cmd[p].todo[i], c)
          \/ /\ c.root # None /\ c.root \in cmd[p].groups
             /\ Sel(p) = "id" => c \in cmd[p].picked
          \/ c.root = cmd[p].at /\ (Sel(p) = "id" => c \in cmd[p].picked)
          \/ c.root = None /\ c \in cmd[p].picked
      BY <1>3, <2>3 DEF Ahead, Due, InHand, At
    <2>5. CASE c.root = cmd[p].at /\ (Sel(p) = "id" => c \in cmd[p].picked)
      <3>1. c \in Q
        BY <1>2, <2>2, <2>5
      <3>2. c \in InHand(p)'
        BY <2>3, <3>1 DEF InHand
      <3>3. QED
        BY <2>3, <3>2 DEF Ahead, Done, At
    <2>6. QED
      BY <2>3, <2>4, <2>5 DEF Ahead, Due, Covers, Done, At
  <1>9. CASE StopIgnore(p)
    <2>1. /\ cmd[p].pc = "stop" /\ cmd'[p].pc = "verify" /\ cmd'[p].todo = cmd[p].todo
          /\ cmd'[p].picked = cmd[p].picked /\ cmd'[p].groups = cmd[p].groups
          /\ cmd'[p].failed = cmd[p].failed /\ Sel(p)' = Sel(p)
          /\ InHand(p) \subseteq InHand(p)'
      BY <1>9, StopDoes DEF Becomes, At, InHand, Sel
    <2>2. QED
      BY <1>3, <2>1 DEF Ahead, Due, Covers, Done, At
  <1>10. CASE ContainerRemoved(p) \/ ContainerRemains(p)
    <2>1. /\ cmd[p].pc = "verify" /\ cmd'[p].pc = "stop" /\ cmd'[p].todo = cmd[p].todo
          /\ cmd'[p].picked = cmd[p].picked /\ cmd'[p].groups = cmd[p].groups
          /\ cmd'[p].queue = cmd[p].queue /\ Sel(p)' = Sel(p)
          /\ ~cmd[p].failed /\ Named(cmd[p].cur.name) = {}
      BY <1>10, VerifyDoes DEF Becomes, At, Sel
    <2>2. c # cmd[p].cur
      BY <1>2, <2>1 DEF Named
    <2>3. c \in InHand(p) => c \in InHand(p)'
      BY <2>1, <2>2 DEF InHand
    <2>4. QED
      BY <1>3, <2>1, <2>3 DEF Ahead, Due, Covers, Done, At
  <1>11. CASE EndGroup(p)
    <2>1. /\ cmd[p].pc = "stop" /\ cmd'[p].pc = "groups" /\ cmd'[p].todo = cmd[p].todo
          /\ cmd'[p].picked = cmd[p].picked /\ cmd'[p].groups = cmd[p].groups
          /\ cmd'[p].failed = cmd[p].failed /\ Sel(p)' = Sel(p)
          /\ InHand(p) = {}
      BY <1>11, EndGroupDoes DEF Becomes, At, InHand, Sel
    <2>2. QED
      BY <1>3, <2>1 DEF Ahead, Due, Covers, Done, At
  <1>12. CASE AcquireLock(p)
    <2>1. /\ cmd[p].pc = "lock" /\ cmd'[p].pc = "discover" /\ cmd'[p].todo = cmd[p].todo
          /\ cmd'[p].picked = cmd[p].picked /\ cmd'[p].groups = cmd[p].groups
          /\ cmd'[p].failed = cmd[p].failed /\ cmd'[p].at = cmd[p].at
          /\ Sel(p)' = Sel(p) /\ InHand(p) = InHand(p)'
      BY <1>12, LockDoes DEF Becomes, At, InHand, Sel
    <2>2. QED
      BY <1>3, <2>1 DEF Ahead, Due, Covers, Done, At
  <1>13. QED
    BY <1>4, <1>5, <1>6, <1>7, <1>8, <1>9, <1>10, <1>11, <1>12
    DEF StepOf, StopStep

\* A command is done at the end of a target.
LEMMA DoneByEnd ==
    ASSUME StopInv, NEW p \in Procs, StepOf(p), cmd'[p].pc = "done"
    PROVE  \E bad \in BOOLEAN : EndsTarget(p, bad) /\ cmd[p].pc \notin {"new", "done"}
  <1>1. CASE \E j \in Jobs : Invoke(p, j)
    BY <1>1, InvokeDoes DEF Becomes, At
  <1>2. CASE ResolvePath(p) \/ ResolveStableId(p) \/ ResolveAll(p)
    BY <1>2, ResolveDoes DEF Becomes, At
  <1>3. CASE NextGroup(p) \/ UnrootedGroup(p)
    BY <1>3, GroupDoes DEF Becomes, At
  <1>4. CASE GroupsDone(p) \/ DiscoveryFails(p) \/ LockFails(p)
    BY <1>4, EndDoes DEF Becomes, At
  <1>5. CASE DiscoverPath(p) \/ DiscoverSelected(p) \/ DiscoverRunning(p)
    BY <1>5, DiscoverDoes DEF Becomes, At
  <1>6. CASE StopIgnore(p)
    BY <1>6, StopDoes DEF Becomes, At
  <1>7. CASE ContainerRemoved(p) \/ ContainerRemains(p)
    BY <1>7, VerifyDoes DEF Becomes, At
  <1>8. CASE EndGroup(p)
    BY <1>8, EndGroupDoes DEF Becomes, At
  <1>9. CASE AcquireLock(p)
    BY <1>9, LockDoes DEF Becomes, At
  <1>10. QED
    BY <1>1, <1>2, <1>3, <1>4, <1>5, <1>6, <1>7, <1>8, <1>9
    DEF StepOf, StopStep

\* What p's command line covered, after a step of p.
LEMMA ClaimStep ==
    ASSUME StopInv, ClaimInv, NEW p \in Procs, StepOf(p)
    PROVE  Claims(p)' /\ \A c \in cmd'[p].claimed : Itself(c)'
  <1>1. Fewer /\ started' = started /\ Typed(p)
    BY WorldStep
  <1>2. Done(p)' => Len(cmd'[p].todo) = 0
    <2>1. CASE \E bad \in BOOLEAN : EndsTarget(p, bad) /\ cmd[p].pc \notin {"new", "done"}
      <3>1. cmd[p].todo \in Seq(Target) /\ cmd[p].todo # <<>>
        BY <2>1, Basics DEF Command
      <3>2. Len(Tail(cmd[p].todo)) = Len(cmd[p].todo) - 1
        BY <3>1, RestOfTargets
      <3>3. QED
        BY <2>1, <3>2 DEF EndsTarget, Becomes, Done, At
    <2>2. cmd'[p].pc = "done" =>
             \E bad \in BOOLEAN : EndsTarget(p, bad) /\ cmd[p].pc \notin {"new", "done"}
      BY DoneByEnd
    <2>3. QED
      BY <2>1, <2>2 DEF Done, At
  <1>3. CASE cmd'[p].claimed = cmd[p].claimed
    <2>1. \A c \in cmd'[p].claimed : Itself(c)'
      BY <1>1, <1>3, StaysItself DEF ClaimInv
    <2>2. ASSUME NEW c \in cmd'[p].claimed, Survives(c)', ~Drifted(c), ~cmd'[p].failed
          PROVE  Ahead(p, c)'
      BY <1>3, <2>2, AheadStep
    <2>3. QED
      BY <1>2, <2>1, <2>2 DEF Claims, Drifted
  <1>4. ASSUME NEW j \in Jobs, Invoke(p, j)
        PROVE  Claims(p)' /\ \A c \in cmd'[p].claimed : Itself(c)'
    <2>1. /\ cmd'[p].pc = "resolve" /\ cmd'[p].todo = j.targets
          /\ j.targets \in Seq(Target) /\ ctrs' = ctrs
          /\ cmd'[p].claimed = {d \in ctrs : \E i \in DOMAIN j.targets :
                                                Covers(j.targets[i], d)}
      BY <1>4, InvokeDoes DEF World
    <2>2. \A c \in cmd'[p].claimed : Itself(c)
      BY <2>1 DEF StopInv, TypeOK, ClaimInv, Itself, Covers
    <2>3. \A c \in cmd'[p].claimed : Itself(c)'
      BY <1>1, <2>2, StaysItself
    <2>4. ASSUME NEW c \in cmd'[p].claimed
          PROVE  Ahead(p, c)'
      <3>1. PICK i \in DOMAIN j.targets : Covers(j.targets[i], c)
        BY <2>1, <2>4
      <3>2. i \in 1..Len(cmd'[p].todo) /\ Covers(cmd'[p].todo[i], c)
        BY <2>1, <3>1
      <3>3. QED
        BY <2>1, <3>2 DEF Ahead, At, Covers
    <2>5. QED
      BY <1>2, <2>3, <2>4 DEF Claims
  <1>5. (\E j \in Jobs : Invoke(p, j)) \/ cmd'[p].claimed = cmd[p].claimed
    BY ResolveDoes, GroupDoes, EndDoes, DiscoverDoes, StopDoes, VerifyDoes,
       EndGroupDoes, LockDoes
    DEF StepOf, StopStep, Becomes, EndsTarget
  <1>6. QED
    BY <1>3, <1>4, <1>5

\* Commands that do not step.
LEMMA ClaimOthers ==
    ASSUME ClaimInv, NEW q \in Procs, cmd'[q] = cmd[q], Fewer, started' = started
    PROVE  Claims(q)' /\ \A c \in cmd'[q].claimed : Itself(c)'
  <1>1. Claims(q) /\ \A c \in cmd[q].claimed : Itself(c)
    BY DEF ClaimInv
  <1>2. \A c : Ahead(q, c) => Ahead(q, c)'
    BY DEF Ahead, Due, InHand, At, Sel, Covers
  <1>3. \A c \in cmd'[q].claimed : Itself(c)'
    BY <1>1, StaysItself
  <1>4. Claims(q)'
    BY <1>1, <1>2, SurvivedBefore DEF Claims, Done, At, Drifted
  <1>5. QED
    BY <1>3, <1>4

\* A session that is started has not been claimed.
LEMMA ClaimStart ==
    ASSUME NamesAreApart, StopInv, ClaimInv, NEW r \in Roots, NEW k, Launched(r, k)
    PROVE  ClaimInv'
  <1>1. /\ ctrs' = ctrs \cup {k} /\ cmd' = cmd /\ r \notin started
        /\ started' = started \cup {r} /\ started \subseteq Roots
        /\ k.name = NameOf[r] /\ k.made = "now"
    BY DEF Launched, StopInv, TypeOK
  <1>2. \A c : MadeNow(c) => MadeNow(c)' /\ (k.name = c.name => c.made # "now")
    BY <1>1 DEF MadeNow, NamesAreApart
  <1>3. \A c : Itself(c) => Itself(c)' /\ (Survives(c)' => Survives(c))
    BY <1>1, <1>2 DEF Itself, Survives
  <1>4. \A c \in ctrs' : MadeNow(c)'
    BY <1>1, <1>2 DEF ClaimInv, MadeNow
  <1>5. ASSUME NEW q \in Procs
        PROVE  Claims(q)' /\ \A c \in cmd'[q].claimed : Itself(c)'
    <2>1. Claims(q) /\ \A c \in cmd[q].claimed : Itself(c)
      BY DEF ClaimInv
    <2>2. \A c : Ahead(q, c) => Ahead(q, c)'
      BY <1>1 DEF Ahead, Due, InHand, At, Sel, Covers
    <2>3. QED
      BY <1>1, <1>3, <2>1, <2>2 DEF Claims, Done, At, Drifted
  <1>6. QED
    BY <1>4, <1>5 DEF ClaimInv

\* ClaimInv is inductive.
LEMMA ClaimNext ==
    ASSUME NamesAreApart, StopInv, ClaimInv, [Next]_vars
    PROVE  ClaimInv'
  <1>1. ASSUME Fewer, started' = started
        PROVE  \A c \in ctrs' : MadeNow(c)'
    BY <1>1 DEF ClaimInv, Fewer, Like, MadeNow
  <1>2. ASSUME NEW p \in Procs, StepOf(p)
        PROVE  ClaimInv'
    <2>1. Typed(p) /\ Fewer /\ started' = started
      BY <1>2, WorldStep
    <2>2. \A q \in Procs \ {p} : Claims(q)' /\ \A c \in cmd'[q].claimed : Itself(c)'
      BY <2>1, ClaimOthers DEF Typed
    <2>3. QED
      BY <1>1, <1>2, <2>1, <2>2, ClaimStep DEF ClaimInv
  <1>3. ASSUME cmd' = cmd, started' = started, ctrs' \subseteq ctrs \/ \E n : ctrs' = Ended(n)
        PROVE  ClaimInv'
    <2>1. Fewer
      BY <1>3, FewerEffect
    <2>2. QED
      BY <1>1, <1>3, <2>1, ClaimOthers DEF ClaimInv
  <1>4. QED
    BY <1>2, <1>3, ClaimStart, StepsAre

\* The bookkeeping of what the command lines covered holds in every reachable
\* state, if roots have names of their own.
THEOREM ClaimInvCorrect ==
    ASSUME NamesAreApart
    PROVE  Spec => [](StopInv /\ ClaimInv)
  <1>1. Init => StopInv /\ ClaimInv
    <2>1. ASSUME Init
          PROVE  ClaimInv
      <3>1. \A c \in ctrs : MadeNow(c)
        BY <2>1, StopAssumption DEF Init, MadeNow
      <3>2. \A p \in Procs : cmd[p].pc = "new" /\ cmd[p].claimed = {}
        BY <2>1 DEF Init, NewCommand
      <3>3. QED
        BY <3>1, <3>2 DEF ClaimInv, Claims, Done, At
    <2>2. QED
      BY <2>1, InvInit
  <1>2. StopInv /\ ClaimInv /\ [Next]_vars => (StopInv /\ ClaimInv)'
    BY InvNext, ClaimNext
  <1>3. QED
    BY <1>1, <1>2, PTL DEF Spec

\* A stop that reports success has ended every container its command line
\* covered when it was invoked, except those whose hash label has drifted, which
\* no search for a root finds.  It needs that different roots have containers
\* of different names: podman stop goes by the name.
THEOREM OkLeavesOnlyDriftedCorrect ==
    ASSUME NamesAreApart
    PROVE  Spec => []OkLeavesOnlyDrifted
  <1>1. StopInv /\ ClaimInv => OkLeavesOnlyDrifted
    <2>1. ASSUME StopInv, ClaimInv, NEW p \in Procs, Done(p), ~cmd[p].failed,
                 NEW c \in cmd[p].claimed, Survives(c), ~Drifted(c)
          PROVE  FALSE
      <3>1. Ahead(p, c) /\ Len(cmd[p].todo) = 0 /\ cmd[p].pc = "done"
        BY <2>1 DEF ClaimInv, Claims, Done, At
      <3>2. \A i \in 2..Len(cmd[p].todo) : FALSE
        BY <3>1
      <3>3. QED
        BY <3>1, <3>2 DEF Ahead, At
    <2>2. QED
      BY <2>1 DEF OkLeavesOnlyDrifted
  <1>2. QED
    BY <1>1, ClaimInvCorrect, PTL

-----------------------------------------------------------------------------
(* Several locks. *)

\* A stop that waits for a lock has none, and no stop has two.
NoRing ==
    /\ \A p \in Procs, r, s \in Roots : lock[r] = p /\ lock[s] = p => r = s
    /\ \A p, q \in Procs : At(p, "lock") /\ lock[cmd[p].at] = q => q # p /\ ~At(q, "lock")

\* Stops that lock several workspaces, each in its own order, never wait for
\* each other in a ring: whoever has the lock that a stop waits for is past its
\* own acquisition, whatever failed before it came there.
THEOREM NoRingCorrect == Spec => []NoRing
  <1>1. StopInv => NoRing
    <2>1. ASSUME StopInv, NEW p \in Procs, NEW q \in Procs, At(p, "lock"), lock[cmd[p].at] = q
          PROVE  q # p /\ ~At(q, "lock")
      <3>1. TypeOK /\ cmd[p].at # None /\ cmd[p].at \in Roots \cup {None}
        BY <2>1 DEF StopInv, OnPath, TypeOK, Command, At
      <3>2. Holds(q)
        BY <2>1, <3>1 DEF TypeOK
      <3>3. QED
        BY <2>1, <3>2 DEF Holds, At
    <2>2. ASSUME StopInv, NEW p \in Procs, NEW r \in Roots, NEW s \in Roots,
                 lock[r] = p, lock[s] = p
          PROVE  r = s
      BY <2>2 DEF StopInv, TypeOK
    <2>3. QED
      BY <2>1, <2>2 DEF NoRing
  <1>2. QED
    BY <1>1, StopInvCorrect, PTL

-----------------------------------------------------------------------------
(* Discovery, for every set of containers.  The two discoveries, of        *)
(* everything and of one git root, agree on the sessions that are not      *)
(* failed, because such a session's hash label is its root's; they differ  *)
(* exactly on drifted containers.                                          *)

\* A session that is not failed bears its root's hash.
LEMMA HealthyLabels ==
    ASSUME NEW c, ~Failed(c)
    PROVE  c.root # None /\ c.hash # None /\ c.hash = HashOf[c.root]
  BY DEF Failed, DeriveStatus, RequiredLabels, IdentityLabels

\* A running status means not failed, on a live root, and unique among the
\* sessions that were discovered.
LEMMA RunningStatus ==
    ASSUME NEW c, NEW sessions, NEW l, Status(c, sessions, l) = "running"
    PROVE  /\ ~Failed(c)
           /\ c.root \in l
           /\ AttachEndpoint(c) /\ c.metadata
           /\ \A d \in sessions : d # c /\ ~Failed(d) => d.root # c.root
  BY DEF Status, DeriveStatus, Failed, RequiredLabels

\* The converse.
LEMMA StatusRunning ==
    ASSUME NEW c, NEW sessions, NEW l, ~Failed(c), c.root \in l,
           \A d \in sessions : d # c /\ ~Failed(d) => d.root # c.root
    PROVE  Status(c, sessions, l) = "running"
  BY DEF Status, DeriveStatus, Failed

\* The search of one root finds all containers of that root that the search
\* of everything finds, except those whose hash label has drifted: neither
\* `stop <dir>` nor, after its lock, `stop --all` sees those.
THEOREM ScopeMissesOnlyDrifted ==
    ASSUME NEW cs, NEW kinds, NEW r \in Roots,
           NEW c \in ExactMatches(DiscoverAll(cs, kinds), r)
    PROVE  c \in DiscoverRoot(cs, kinds, r) <=> ~Drifted(c)
  BY HashAssumption
  DEF ExactMatches, DiscoverAll, DiscoverRoot, InScope, Matches, Drifted

\* A session that connect or restart takes is in its prompt's list.
LEMMA TakenOffered == TakenIsOffered
  <1>1. ASSUME NEW r \in Roots, NEW c \in ConnectTakes(ctrs, live, r)
        PROVE  c \in ConnectOffers(ctrs, live)
    <2> DEFINE scoped == DiscoverRoot(ctrs, ManagedSessions, r)
               all == DiscoverAll(ctrs, ManagedSessions)
    <2>1. /\ c \in scoped /\ scoped = {c}
          /\ Status(c, scoped, live) = "running"
      BY <1>1 DEF ConnectTakes
    <2>2. ~Failed(c) /\ c.root \in live /\ AttachEndpoint(c) /\ c.root # None
      BY <2>1, RunningStatus, HealthyLabels
    <2>3. c.root = r
      BY <2>1, <2>2 DEF DiscoverRoot, Matches
    <2>4. ASSUME NEW d \in all, d # c, ~Failed(d), d.root = c.root
          PROVE  FALSE
      <3>1. d.hash = HashOf[r]
        BY <2>3, <2>4, HealthyLabels
      <3>2. d \in scoped
        BY <2>3, <2>4, <3>1 DEF DiscoverRoot, DiscoverAll, InScope, Matches
      <3>3. QED
        BY <2>1, <2>4, <3>2
    <2>5. Status(c, all, live) = "running"
      BY <2>2, <2>4, StatusRunning
    <2>6. c \in all
      BY <2>1 DEF DiscoverRoot, DiscoverAll
    <2>7. QED
      BY <2>2, <2>5, <2>6 DEF ConnectOffers
  <1>2. ASSUME NEW h \in Hashes, NEW c \in RestartTakes(ctrs, live, h)
        PROVE  c \in RestartOffers(ctrs, live)
    <2> DEFINE owned == DiscoverAll(ctrs, AgentboxOwned)
               all == DiscoverAll(ctrs, ManagedSessions)
    <2>1. /\ c \in owned /\ c.kind = "managed"
          /\ Status(c, owned, live) = "running"
      BY <1>2 DEF RestartTakes
    <2>2. /\ ~Failed(c) /\ c.root \in live /\ c.metadata
          /\ \A d \in owned : d # c /\ ~Failed(d) => d.root # c.root
      BY <2>1, RunningStatus
    <2>3. all \subseteq owned /\ c \in all
      BY <2>1 DEF DiscoverAll, Candidates, ManagedSessions, AgentboxOwned
    <2>4. Status(c, all, live) = "running"
      BY <2>2, <2>3, StatusRunning
    <2>5. c.root # None /\ c.hash # None
      BY <2>2, HealthyLabels
    <2>6. QED
      BY <2>2, <2>3, <2>4, <2>5 DEF RestartOffers
  <1>3. QED
    BY <1>1, <1>2 DEF TakenIsOffered

\* Whatever containers there are, connect and restart take no session that
\* their prompts do not offer.
THEOREM TakenIsOfferedCorrect == Spec => []TakenIsOffered
  BY TakenOffered, PTL

\* An offered session is taken if no other container claims its root or id.
LEMMA OfferedTaken == OfferedIsTaken
  <1>1. ASSUME NEW c \in ConnectOffers(ctrs, live),
               \A d \in ctrs : d # c => d.root # c.root /\ d.hash # c.hash
        PROVE  c \in ConnectTakes(ctrs, live, c.root)
    <2> DEFINE all == DiscoverAll(ctrs, ManagedSessions)
               scoped == DiscoverRoot(ctrs, ManagedSessions, c.root)
    <2>1. /\ c \in all /\ Status(c, all, live) = "running"
      BY <1>1 DEF ConnectOffers
    <2>2. /\ ~Failed(c) /\ c.root \in live
          /\ c.root # None /\ c.hash = HashOf[c.root]
      BY <2>1, RunningStatus, HealthyLabels
    <2>3. c \in ctrs /\ c \in scoped
      BY <2>1, <2>2 DEF DiscoverAll, DiscoverRoot, Candidates, InScope, Matches
    <2>4. scoped = {c}
      BY <1>1, <2>2, <2>3 DEF DiscoverRoot, Candidates, Matches
    <2>5. ~Collision(ctrs, ManagedSessions, c.root)
      BY <1>1, <2>2 DEF Collision, Candidates, Collides
    <2>6. Status(c, scoped, live) = "running"
      BY <2>2, <2>4, StatusRunning
    <2>7. QED
      BY <2>2, <2>3, <2>4, <2>5, <2>6 DEF ConnectTakes
  <1>2. ASSUME NEW c \in RestartOffers(ctrs, live), c.args,
               \A d \in ctrs : d # c => d.hash # c.hash
        PROVE  c \in RestartTakes(ctrs, live, c.hash)
    <2> DEFINE all == DiscoverAll(ctrs, ManagedSessions)
               owned == DiscoverAll(ctrs, AgentboxOwned)
               same == {d \in owned : d.hash = c.hash}
    <2>1. c \in all /\ Status(c, all, live) = "running"
      BY <1>2 DEF RestartOffers
    <2>2. /\ ~Failed(c) /\ c.root \in live
          /\ c.root # None /\ c.hash = HashOf[c.root]
      BY <2>1, RunningStatus, HealthyLabels
    <2>3. c \in owned /\ c.kind = "managed" /\ owned \subseteq ctrs
      BY <2>1 DEF DiscoverAll, Candidates, ManagedSessions, AgentboxOwned
    <2>4. same = {c}
      BY <1>2, <2>3
    <2>5. \A d \in owned : d # c /\ ~Failed(d) => d.root # c.root
      BY <1>2, <2>2, <2>3, HealthyLabels
    <2>6. Status(c, owned, live) = "running"
      BY <2>2, <2>5, StatusRunning
    <2>7. QED
      BY <1>2, <2>2, <2>3, <2>4, <2>6 DEF RestartTakes
  <1>3. QED
    BY <1>1, <1>2 DEF OfferedIsTaken

\* Whatever containers there are, a session that a prompt offers is taken,
\* unless another container claims its root or id or its arguments are
\* malformed.
THEOREM OfferedIsTakenCorrect == Spec => []OfferedIsTaken
  BY OfferedTaken, PTL
==============================================================================
