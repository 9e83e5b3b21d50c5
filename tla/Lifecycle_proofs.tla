-------------------------- MODULE Lifecycle_proofs --------------------------
(***************************************************************************)
(* Proofs about Lifecycle, for any set of invocations, any command lines   *)
(* and any set of invocations that may be killed.  The properties that a   *)
(* podman run left behind by a killed command can break are proved for     *)
(* the behaviours in which there is none (NoOrphans).                      *)
(***************************************************************************)
EXTENDS Lifecycle, TLAPS

-----------------------------------------------------------------------------
(* The inductive invariant, whoever is killed. *)

\* No two commands are past the workspace lock.
OneHolder == \A p, q \in holders : p = q

\* Which commands pass through a program counter.
OnPath(p) ==
    /\ pc[p] \in {"token", "token_open"} => Op(p) \in {"start", "restart"}
    /\ pc[p] \in {"volume", "volume_rm"} => Op(p) = "start"
    /\ pc[p] \in {"launch", "orphan"} => Op(p) \in Servers \cup {"exec"}
    /\ pc[p] \in {"launched", "wait", "ready"} => Op(p) \in Servers
    /\ pc[p] = "client" => Op(p) # "stop"
    /\ pc[p] \in {"stop", "verify"} => Op(p) \in Servers \cup {"stop"}
    /\ pc[p] = "token_rm" => Op(p) = "stop"

\* A container is selected on the paths that need one, and not before.
Selection(p) ==
    /\ pc[p] \in {"new", "resolve"} => seen[p] = None
    /\ Op(p) = "restart" =>
          IF pc[p] \in {"resolve", "waiting", "discover"} THEN seen[p] = None
          ELSE pc[p] = "done" \/ seen[p] # None
    /\ Op(p) = "stop" =>
          /\ pc[p] = "waiting" /\ job[p].sel = "id" => seen[p] # None
          /\ pc[p] \in {"stop", "verify", "token_rm"} => seen[p] # None

\* p has not yet made a container, nor will have: it is before its launch,
\* or its command launches nothing.
BeforeLaunch(p) ==
    \/ pc[p] \in {"new", "resolve", "waiting", "discover", "token",
                  "token_open", "volume", "launch", "orphan"}
    \/ Op(p) \in {"stop", "connect"}
    \/ Op(p) = "restart" /\ pc[p] \in {"stop", "verify"}

\* Such a p is not the maker of anything.
Fresh(p) ==
    BeforeLaunch(p) =>
        /\ ~MadeBy(box, p)
        /\ volume # p
        /\ \A q \in Procs : ~MadeBy(seen[q], p)

\* The container a stop or a restart selected does not come back once its
\* absence was verified.
StaysGone(p) ==
    /\ \/ Op(p) = "stop" /\ pc[p] = "token_rm"
       \/ Op(p) = "restart" /\ pc[p] = "client"
       \/ TreatedAsGone(p)
    /\ seen[p] # None
    => ~MadeBy(box, seen[p].by)

\* What a result says of the path that led to it.
Outcome(p) ==
    /\ pc[p] = "orphan" => result[p] = "killed"
    /\ result[p] = "cleaned" =>
          /\ Op(p) = "start"
          /\ pc[p] \in {"stop", "verify", "volume_rm", "done"}
    /\ pc[p] = "volume_rm" => ~MadeBy(box, p)

\* A cache volume a start found is there as long as the start runs, and is
\* not its own.
VolumeKept(p) ==
    /\ pc[p] \in {"new", "resolve", "waiting", "volume_rm"} => ~volumeBefore[p]
    /\ volumeBefore[p] /\ p \in holders => volume \notin {None, p}

CleanedUp(p) ==
    pc[p] = "done" /\ result[p] = "cleaned" => ~MadeBy(box, p) /\ volume # p

NothingLeft(p) ==
    Op(p) = "run" /\ pc[p] = "done" /\ result[p] \in {"ok", "error"} =>
        ~MadeBy(box, p)

\* All that the invariant says of one command.
Personal(p) ==
    /\ OnPath(p) /\ Selection(p) /\ Fresh(p) /\ StaysGone(p)
    /\ Outcome(p) /\ VolumeKept(p) /\ CleanedUp(p) /\ NothingLeft(p)

LifeInv ==
    /\ TypeOK
    /\ OneHolder
    /\ \A p \in Procs : Personal(p)

-----------------------------------------------------------------------------
(* What holds besides while no killed command has left a podman run. *)

\* No podman run goes on without the command that started it.
NoOrphans == \A p \in Procs : pc[p] # "orphan"

\* While a command is at work, the container with the workspace's name is
\* its own, the one it selected, or not a session.
BoxIsKnown(p) ==
    /\ Op(p) \in {"start", "run"} /\ p \in holders /\ pc[p] # "discover" =>
          (Managed(box) => MadeBy(box, p))
    /\ \/ Op(p) = "restart" /\ pc[p] \in {"token", "token_open", "stop", "verify"}
       \/ Op(p) = "stop" /\ job[p].sel # "id" /\ pc[p] \in {"stop", "verify"}
       => box = None \/ MadeBy(seen[p], box.by)
    /\ pc[p] = "token_rm" => box = None

\* A start that found no cache volume finds none but its own.
VolumeIsKnown(p) ==
    /\ pc[p] \in {"launch", "launched", "wait", "ready", "stop", "verify",
                  "volume_rm"}
    /\ Op(p) = "start" /\ ~volumeBefore[p]
    => volume \in {None, p}

\* A managed Codex server is launched with its token in place.
TokenWritten(p) ==
    /\ Op(p) = "start" /\ job[p].runtime = "codex" /\ pc[p] \in {"volume", "launch"}
       => tokenFile = p
    /\ /\ Op(p) = "restart" /\ pc[p] \in {"stop", "verify", "launch"}
       /\ seen[p].runtime = "codex"
       => tokenFile = p

QuietInv ==
    /\ LifeInv
    /\ TokenSettled
    /\ \A p \in Procs : BoxIsKnown(p) /\ VolumeIsKnown(p) /\ TokenWritten(p)

-----------------------------------------------------------------------------
(* What a step of one command leaves alone. *)

\* Only p's own locals change; p makes a container or a volume only from a
\* podman run of its own, and removes a volume only under the lock.
Footprint(p) ==
    /\ \A q \in Procs \ {p} :
          /\ pc'[q] = pc[q] /\ job'[q] = job[q] /\ seen'[q] = seen[q]
          /\ volumeBefore'[q] = volumeBefore[q] /\ result'[q] = result[q]
          /\ q \in holders' => q \in holders
    /\ seen'[p] \in {seen[p], None, box}
    /\ \A r \in Makers : MadeBy(box', r) =>
          MadeBy(box, r) \/ (r = p /\ pc[p] \in {"launch", "orphan"})
    /\ \/ volume' = volume
       \/ volume = None /\ volume' = p /\ pc[p] \in {"launch", "orphan"}
       \/ volume' = None /\ pc[p] = "volume_rm"

\* A step of p keeps what the invariant says of another command.
LEMMA OthersKeep ==
    ASSUME LifeInv, NEW p \in Procs, Footprint(p), TypeOK',
           NEW q \in Procs, q # p
    PROVE  Personal(q)'
  <1> USE LifecycleAssumption
  <1>0. /\ pc'[q] = pc[q] /\ job'[q] = job[q] /\ seen'[q] = seen[q]
        /\ volumeBefore'[q] = volumeBefore[q] /\ result'[q] = result[q]
        /\ q \in holders' => q \in holders
        /\ Op(q)' = Op(q)
    BY DEF Footprint, Op
  <1>1. (OnPath(q) /\ Selection(q))'
    BY <1>0 DEF LifeInv, Personal, OnPath, Selection
  <1>2. ~MadeBy(box, q) => ~MadeBy(box', q)
    BY DEF Footprint, Makers
  <1>3. volume # q => volume' # q
    BY DEF Footprint
  <1>4. Fresh(q)'
    <2> SUFFICES ASSUME BeforeLaunch(q)'
                 PROVE  /\ ~MadeBy(box', q) /\ volume' # q
                        /\ \A r \in Procs : ~MadeBy(seen'[r], q)
      BY DEF Fresh, MadeBy
    <2>1. BeforeLaunch(q)
      BY <1>0 DEF BeforeLaunch
    <2>2. ~MadeBy(box, q) /\ volume # q /\ \A r \in Procs : ~MadeBy(seen[r], q)
      BY <2>1 DEF LifeInv, Personal, Fresh
    <2>3. ASSUME NEW r \in Procs PROVE ~MadeBy(seen'[r], q)
      BY <2>2 DEF Footprint, MadeBy
    <2>4. QED
      BY <2>2, <2>3, <1>2, <1>3
  <1>5. StaysGone(q)'
    <2> SUFFICES ASSUME \/ Op(q) = "stop" /\ pc[q] = "token_rm"
                        \/ Op(q) = "restart" /\ pc[q] = "client"
                        \/ TreatedAsGone(q),
                        seen[q] # None, MadeBy(box', seen[q].by)
                 PROVE  FALSE
      BY <1>0 DEF StaysGone, TreatedAsGone, MadeBy
    <2>1. ~MadeBy(box, seen[q].by)
      BY DEF LifeInv, Personal, StaysGone
    <2>2. seen[q].by \in Makers
      BY DEF LifeInv, TypeOK, Box
    <2>3. seen[q].by = p /\ BeforeLaunch(p)
      BY <2>1, <2>2 DEF Footprint, BeforeLaunch
    <2>4. QED
      BY <2>3 DEF LifeInv, Personal, Fresh, MadeBy
  <1>6. (Outcome(q) /\ CleanedUp(q) /\ NothingLeft(q))'
    BY <1>0, <1>2, <1>3 DEF LifeInv, Personal, Outcome, CleanedUp, NothingLeft
  <1>7. VolumeKept(q)'
    <2>1. q \in holders => pc[p] # "volume_rm"
      BY DEF LifeInv, TypeOK, OneHolder, LockedPCs, PCs
    <2>2. QED
      BY <1>0, <2>1 DEF LifeInv, Personal, VolumeKept, Footprint
  <1>8. QED
    BY <1>1, <1>4, <1>5, <1>6, <1>7 DEF Personal

-----------------------------------------------------------------------------
(* The steps of one command. *)

StepOf(p) == Command(p) \/ Interrupt(p) \/ Kill(p) \/ OrphanLaunch(p)

\* What a command does once its container is gone: only the four that stop
\* one get there.
LEMMA RemovedCases ==
    ASSUME LifeInv, NEW p \in Procs, ContainerRemoved(p)
    PROVE  /\ pc[p] = "verify" /\ box = None
           /\ UNCHANGED <<shared, locals>>
           /\ \/ Op(p) = "stop" /\ Step(p, "token_rm")
              \/ Op(p) = "restart" /\ Step(p, "launch")
              \/ Op(p) = "run" /\ Finish(p, result[p])
              \/ Op(p) = "start" /\ volumeBefore[p] /\ Finish(p, result[p])
              \/ Op(p) = "start" /\ ~volumeBefore[p] /\ Step(p, "volume_rm")
  <1>1. pc[p] = "verify" /\ box = None /\ UNCHANGED <<shared, locals>>
    BY DEF ContainerRemoved
  <1>2. CASE Op(p) = "stop"
    BY <1>1, <1>2 DEF ContainerRemoved
  <1>3. CASE Op(p) = "restart"
    BY <1>1, <1>3 DEF ContainerRemoved
  <1>4. CASE Op(p) = "run"
    BY <1>1, <1>4 DEF ContainerRemoved
  <1>5. CASE Op(p) = "start"
    BY <1>1, <1>5 DEF ContainerRemoved
  <1>6. Op(p) \in Servers \cup {"stop"}
    BY <1>1 DEF LifeInv, Personal, OnPath
  <1>7. QED
    BY <1>2, <1>3, <1>4, <1>5, <1>6 DEF Servers

\* A step of p stays within p's footprint.
LEMMA StepFootprint ==
    ASSUME LifeInv, NEW p \in Procs, StepOf(p)
    PROVE  Footprint(p)
  <1> USE LifecycleAssumption
  <1> USE DEF LifeInv, TypeOK, Goto, Finish, Step, Mutex!Release, shared,
              locals, Is, Op, Servers, MadeBy
  <1>1. ASSUME NEW j \in Jobs, Invoke(p, j)
        PROVE  Footprint(p)
    BY <1>1
    DEF Invoke, Footprint, Makers, Box
  <1>2. ASSUME ResolveStableId(p) \/ ResolveAll(p) \/ AcquireLock(p)
        PROVE  Footprint(p)
    BY <1>2
    DEF ResolveStableId, Labelled, ResolveAll, Running, AcquireLock,
        SelectedBeforeLock, Mutex!Acquire, Footprint, Makers, Box
  <1>3. ASSUME DiscoverForLaunch(p)
        PROVE  Footprint(p)
    BY <1>3
    DEF DiscoverForLaunch, Claimed, Labelled, Managed, Runtime, Footprint,
        Makers, Box
  <1>4. ASSUME DiscoverForRestart(p) \/ DiscoverForStop(p)
        PROVE  Footprint(p)
    BY <1>4
    DEF DiscoverForRestart, Managed, Running, DiscoverForStop, Labelled,
        Footprint, Makers, Box
  <1>5. ASSUME DiscoverForConnect(p)
        PROVE  Footprint(p)
    BY <1>5
    DEF DiscoverForConnect, Managed, Running, Footprint, Makers, Box
  <1>6. ASSUME TruncateToken(p) \/ WriteToken(p)
        PROVE  Footprint(p)
    BY <1>6
    DEF TruncateToken, WriteToken, Footprint, Makers, Box
  <1>7. ASSUME RecordVolume(p)
        PROVE  Footprint(p)
    BY <1>7
    DEF RecordVolume, Footprint, Makers, Box
  <1>8. ASSUME PreparationFails(p)
        PROVE  Footprint(p)
    BY <1>8
    DEF PreparationFails, Footprint, Makers, Box
  <1>9. ASSUME RunDetached(p) \/ RunForeground(p)
        PROVE  Footprint(p)
    BY <1>9
    DEF RunDetached, PodmanCreates, NewBox, KindOf, Runtime, WithVolume,
        RunForeground, Footprint, Makers, Box
  <1>10. ASSUME RunDetachedFails(p)
        PROVE  Footprint(p)
    BY <1>10
    DEF RunDetachedFails, PodmanCreates, NewBox, KindOf, Runtime, WithVolume,
        Abort, Footprint, Makers, Box
  <1>11. ASSUME OrphanLaunch(p)
        PROVE  Footprint(p)
    BY <1>11
    DEF OrphanLaunch, PodmanCreates, NewBox, KindOf, Runtime, WithVolume,
        Footprint, Makers, Box
  <1>12. ASSUME AbortInterrupted(p) \/ WaitForServer(p) \/ ServerReady(p)
        PROVE  Footprint(p)
    BY <1>12
    DEF AbortInterrupted, Abort, WaitForServer, ServerReady, Running,
        Footprint, Makers, Box
  <1>13. ASSUME ReadinessFails(p) \/ ReportReady(p)
        PROVE  Footprint(p)
    BY <1>13
    DEF ReadinessFails, ReportReady, Footprint, Makers, Box
  <1>14. ASSUME ClientExits(p) \/ ForegroundExits(p)
        PROVE  Footprint(p)
    BY <1>14
    DEF ClientExits, ForegroundExits, Footprint, Makers, Box
  <1>15. ASSUME StopIgnore(p)
        PROVE  Footprint(p)
    BY <1>15
    DEF StopIgnore, Stops, Exited, Footprint, Makers, Box
  <1>16. ASSUME ContainerRemoved(p)
        PROVE  Footprint(p)
    BY <1>16, RemovedCases
    DEF Footprint, Makers, Box
  <1>17. ASSUME ContainerRemains(p)
        PROVE  Footprint(p)
    BY <1>17
    DEF ContainerRemains, Footprint, Makers, Box
  <1>18. ASSUME RemoveToken(p) \/ RemoveVolume(p)
        PROVE  Footprint(p)
    BY <1>18
    DEF RemoveToken, RemoveVolume, Footprint, Makers, Box
  <1>19. ASSUME Interrupt(p)
        PROVE  Footprint(p)
    BY <1>19
    DEF Interrupt, Footprint, Makers, Box
  <1>20. ASSUME Kill(p)
        PROVE  Footprint(p)
    BY <1>20
    DEF Kill, Footprint, Makers, Box
  <1>21. QED
    BY <1>1, <1>2, <1>3, <1>4, <1>5, <1>6, <1>7, <1>8, <1>9, <1>10, <1>11,
       <1>12, <1>13, <1>14, <1>15, <1>16, <1>17, <1>18, <1>19, <1>20
    DEF StepOf, Command, Work, ClientEnds

\* A step of p leaves a well-typed state with at most one holder.
LEMMA StepTypes ==
    ASSUME LifeInv, NEW p \in Procs, StepOf(p)
    PROVE  TypeOK' /\ OneHolder'
  <1> USE LifecycleAssumption
  <1> USE DEF LifeInv, TypeOK, Goto, Finish, Step, Mutex!Release, shared,
              locals, Is, Op, Servers, MadeBy
  <1>1. ASSUME NEW j \in Jobs, Invoke(p, j)
        PROVE  TypeOK' /\ OneHolder'
    BY <1>1
    DEF Invoke, OneHolder, PCs, LockedPCs, Results, Box, Kinds, Runtimes,
        JobType, Makers, Personal, OnPath, Selection
  <1>2. ASSUME ResolveStableId(p) \/ ResolveAll(p) \/ AcquireLock(p)
        PROVE  TypeOK' /\ OneHolder'
    <2>1. CASE ResolveStableId(p)
      <3>1. /\ pc[p] = "resolve" /\ p \notin holders
            /\ UNCHANGED <<shared, job, volumeBefore, sigint>>
        BY <2>1 DEF ResolveStableId, LockedPCs, PCs
      <3>2. CASE ~Labelled(box) /\ Finish(p, "error") /\ UNCHANGED seen
        BY <3>1, <3>2 DEF OneHolder, PCs, LockedPCs, Results
      <3>3. CASE /\ Step(p, "waiting")
                 /\ seen' = [seen EXCEPT ![p] = IF Op(p) = "stop" THEN box ELSE @]
        <4>1. seen' \in [Procs -> Box \cup {None}]
          BY <3>3
        <4>2. QED
          BY <3>1, <3>3, <4>1 DEF OneHolder, PCs, LockedPCs, Results
      <3>4. QED
        BY <2>1, <3>2, <3>3 DEF ResolveStableId
    <2>2. CASE ResolveAll(p)
      BY <2>2
      DEF ResolveAll, Running, Labelled, OneHolder, PCs, LockedPCs, Results,
          Box, Kinds, Runtimes, JobType, Makers, Personal, OnPath, Selection
    <2>3. CASE AcquireLock(p)
      BY <2>3
      DEF AcquireLock, SelectedBeforeLock, Mutex!Acquire, OneHolder, PCs,
          LockedPCs, Results, Box, Kinds, Runtimes, JobType, Makers, Personal,
          OnPath, Selection
    <2>4. QED
      BY <1>2, <2>1, <2>2, <2>3
  <1>3. ASSUME DiscoverForLaunch(p)
        PROVE  TypeOK' /\ OneHolder'
    BY <1>3
    DEF DiscoverForLaunch, Claimed, Labelled, Managed, Runtime, OneHolder,
        PCs, LockedPCs, Results, Box, Kinds, Runtimes, JobType, Makers,
        Personal, OnPath, Selection
  <1>4. ASSUME DiscoverForRestart(p) \/ DiscoverForStop(p)
        PROVE  TypeOK' /\ OneHolder'
    BY <1>4
    DEF DiscoverForRestart, Managed, Running, DiscoverForStop, Labelled,
        OneHolder, PCs, LockedPCs, Results, Box, Kinds, Runtimes, JobType,
        Makers, Personal, OnPath, Selection
  <1>5. ASSUME DiscoverForConnect(p)
        PROVE  TypeOK' /\ OneHolder'
    BY <1>5
    DEF DiscoverForConnect, Managed, Running, OneHolder, PCs, LockedPCs,
        Results, Box, Kinds, Runtimes, JobType, Makers, Personal, OnPath,
        Selection
  <1>6. ASSUME TruncateToken(p) \/ WriteToken(p)
        PROVE  TypeOK' /\ OneHolder'
    BY <1>6
    DEF TruncateToken, WriteToken, OneHolder, PCs, LockedPCs, Results, Box,
        Kinds, Runtimes, JobType, Makers, Personal, OnPath, Selection
  <1>7. ASSUME RecordVolume(p)
        PROVE  TypeOK' /\ OneHolder'
    BY <1>7
    DEF RecordVolume, OneHolder, PCs, LockedPCs, Results, Box, Kinds,
        Runtimes, JobType, Makers, Personal, OnPath, Selection
  <1>8. ASSUME PreparationFails(p)
        PROVE  TypeOK' /\ OneHolder'
    BY <1>8
    DEF PreparationFails, OneHolder, PCs, LockedPCs, Results, Box, Kinds,
        Runtimes, JobType, Makers, Personal, OnPath, Selection
  <1>9. ASSUME RunDetached(p) \/ RunForeground(p)
        PROVE  TypeOK' /\ OneHolder'
    BY <1>9
    DEF RunDetached, PodmanCreates, NewBox, KindOf, Runtime, WithVolume,
        RunForeground, OneHolder, PCs, LockedPCs, Results, Box, Kinds,
        Runtimes, JobType, Makers, Personal, OnPath, Selection
  <1>10. ASSUME RunDetachedFails(p)
        PROVE  TypeOK' /\ OneHolder'
    BY <1>10
    DEF RunDetachedFails, PodmanCreates, NewBox, KindOf, Runtime, WithVolume,
        Abort, OneHolder, PCs, LockedPCs, Results, Box, Kinds, Runtimes,
        JobType, Makers, Personal, OnPath, Selection
  <1>11. ASSUME OrphanLaunch(p)
        PROVE  TypeOK' /\ OneHolder'
    BY <1>11
    DEF OrphanLaunch, PodmanCreates, NewBox, KindOf, Runtime, WithVolume,
        OneHolder, PCs, LockedPCs, Results, Box, Kinds, Runtimes, JobType,
        Makers, Personal, OnPath, Selection
  <1>12. ASSUME AbortInterrupted(p) \/ WaitForServer(p) \/ ServerReady(p)
        PROVE  TypeOK' /\ OneHolder'
    BY <1>12
    DEF AbortInterrupted, Abort, WaitForServer, ServerReady, Running,
        OneHolder, PCs, LockedPCs, Results, Box, Kinds, Runtimes, JobType,
        Makers, Personal, OnPath, Selection
  <1>13. ASSUME ReadinessFails(p) \/ ReportReady(p)
        PROVE  TypeOK' /\ OneHolder'
    BY <1>13
    DEF ReadinessFails, ReportReady, OneHolder, PCs, LockedPCs, Results, Box,
        Kinds, Runtimes, JobType, Makers, Personal, OnPath, Selection
  <1>14. ASSUME ClientExits(p) \/ ForegroundExits(p)
        PROVE  TypeOK' /\ OneHolder'
    BY <1>14
    DEF ClientExits, ForegroundExits, OneHolder, PCs, LockedPCs, Results, Box,
        Kinds, Runtimes, JobType, Makers, Personal, OnPath, Selection
  <1>15. ASSUME StopIgnore(p)
        PROVE  TypeOK' /\ OneHolder'
    <2>1. box' \in Box \cup {None} /\ result' \in [Procs -> Results]
      BY <1>15 DEF StopIgnore, Stops, Exited, Box, Results
    <2>2. QED
      BY <1>15, <2>1 DEF StopIgnore, OneHolder, PCs, LockedPCs
  <1>16. ASSUME ContainerRemoved(p)
        PROVE  TypeOK' /\ OneHolder'
    BY <1>16, RemovedCases
    DEF OneHolder, PCs, LockedPCs, Results, Box, Kinds, Runtimes, JobType,
        Makers, Personal, OnPath, Selection
  <1>17. ASSUME ContainerRemains(p)
        PROVE  TypeOK' /\ OneHolder'
    BY <1>17
    DEF ContainerRemains, OneHolder, PCs, LockedPCs, Results, Box, Kinds,
        Runtimes, JobType, Makers, Personal, OnPath, Selection
  <1>18. ASSUME RemoveToken(p) \/ RemoveVolume(p)
        PROVE  TypeOK' /\ OneHolder'
    BY <1>18
    DEF RemoveToken, RemoveVolume, OneHolder, PCs, LockedPCs, Results, Box,
        Kinds, Runtimes, JobType, Makers, Personal, OnPath, Selection
  <1>19. ASSUME Interrupt(p)
        PROVE  TypeOK' /\ OneHolder'
    BY <1>19
    DEF Interrupt, OneHolder, PCs, LockedPCs, Results, Box, Kinds, Runtimes,
        JobType, Makers, Personal, OnPath, Selection
  <1>20. ASSUME Kill(p)
        PROVE  TypeOK' /\ OneHolder'
    BY <1>20
    DEF Kill, OneHolder, PCs, LockedPCs, Results, Box, Kinds, Runtimes,
        JobType, Makers, Personal, OnPath, Selection
  <1>21. QED
    BY <1>1, <1>2, <1>3, <1>4, <1>5, <1>6, <1>7, <1>8, <1>9, <1>10, <1>11,
       <1>12, <1>13, <1>14, <1>15, <1>16, <1>17, <1>18, <1>19, <1>20
    DEF StepOf, Command, Work, ClientEnds

\* A step of p keeps p on its path, with a container selected where one is
\* needed.
LEMMA StepOwnPath ==
    ASSUME LifeInv, NEW p \in Procs, StepOf(p)
    PROVE  OnPath(p)' /\ Selection(p)'
  <1> USE LifecycleAssumption
  <1> USE DEF LifeInv, TypeOK, Goto, Finish, Step, Mutex!Release, shared,
              locals, Is, Op, Servers, MadeBy
  <1>1. ASSUME NEW j \in Jobs, Invoke(p, j)
        PROVE  OnPath(p)' /\ Selection(p)'
    BY <1>1
    DEF Invoke, Personal, OnPath, Selection
  <1>2. ASSUME ResolveStableId(p) \/ ResolveAll(p) \/ AcquireLock(p)
        PROVE  OnPath(p)' /\ Selection(p)'
    BY <1>2
    DEF ResolveStableId, Labelled, ResolveAll, Running, AcquireLock,
        SelectedBeforeLock, Mutex!Acquire, Personal, OnPath, Selection
  <1>3. ASSUME DiscoverForLaunch(p)
        PROVE  OnPath(p)' /\ Selection(p)'
    BY <1>3
    DEF DiscoverForLaunch, Claimed, Labelled, Managed, Runtime, Personal,
        OnPath, Selection
  <1>4. ASSUME DiscoverForRestart(p) \/ DiscoverForStop(p)
        PROVE  OnPath(p)' /\ Selection(p)'
    BY <1>4
    DEF DiscoverForRestart, Managed, Running, DiscoverForStop, Labelled,
        Personal, OnPath, Selection
  <1>5. ASSUME DiscoverForConnect(p)
        PROVE  OnPath(p)' /\ Selection(p)'
    BY <1>5
    DEF DiscoverForConnect, Managed, Running, Personal, OnPath, Selection
  <1>6. ASSUME TruncateToken(p) \/ WriteToken(p)
        PROVE  OnPath(p)' /\ Selection(p)'
    BY <1>6
    DEF TruncateToken, WriteToken, Personal, OnPath, Selection
  <1>7. ASSUME RecordVolume(p)
        PROVE  OnPath(p)' /\ Selection(p)'
    BY <1>7
    DEF RecordVolume, Personal, OnPath, Selection
  <1>8. ASSUME PreparationFails(p)
        PROVE  OnPath(p)' /\ Selection(p)'
    BY <1>8
    DEF PreparationFails, Personal, OnPath, Selection
  <1>9. ASSUME RunDetached(p) \/ RunForeground(p)
        PROVE  OnPath(p)' /\ Selection(p)'
    BY <1>9
    DEF RunDetached, PodmanCreates, NewBox, KindOf, Runtime, WithVolume,
        RunForeground, Personal, OnPath, Selection
  <1>10. ASSUME RunDetachedFails(p)
        PROVE  OnPath(p)' /\ Selection(p)'
    BY <1>10
    DEF RunDetachedFails, PodmanCreates, NewBox, KindOf, Runtime, WithVolume,
        Abort, Personal, OnPath, Selection
  <1>11. ASSUME OrphanLaunch(p)
        PROVE  OnPath(p)' /\ Selection(p)'
    BY <1>11
    DEF OrphanLaunch, PodmanCreates, NewBox, KindOf, Runtime, WithVolume,
        Personal, OnPath, Selection
  <1>12. ASSUME AbortInterrupted(p) \/ WaitForServer(p) \/ ServerReady(p)
        PROVE  OnPath(p)' /\ Selection(p)'
    BY <1>12
    DEF AbortInterrupted, Abort, WaitForServer, ServerReady, Running,
        Personal, OnPath, Selection
  <1>13. ASSUME ReadinessFails(p) \/ ReportReady(p)
        PROVE  OnPath(p)' /\ Selection(p)'
    BY <1>13
    DEF ReadinessFails, ReportReady, Personal, OnPath, Selection
  <1>14. ASSUME ClientExits(p) \/ ForegroundExits(p)
        PROVE  OnPath(p)' /\ Selection(p)'
    BY <1>14
    DEF ClientExits, ForegroundExits, Personal, OnPath, Selection
  <1>15. ASSUME StopIgnore(p)
        PROVE  OnPath(p)' /\ Selection(p)'
    BY <1>15
    DEF StopIgnore, Stops, Exited, Personal, OnPath, Selection
  <1>16. ASSUME ContainerRemoved(p)
        PROVE  OnPath(p)' /\ Selection(p)'
    BY <1>16, RemovedCases
    DEF Personal, OnPath, Selection
  <1>17. ASSUME ContainerRemains(p)
        PROVE  OnPath(p)' /\ Selection(p)'
    BY <1>17
    DEF ContainerRemains, Personal, OnPath, Selection
  <1>18. ASSUME RemoveToken(p) \/ RemoveVolume(p)
        PROVE  OnPath(p)' /\ Selection(p)'
    BY <1>18
    DEF RemoveToken, RemoveVolume, Personal, OnPath, Selection
  <1>19. ASSUME Interrupt(p)
        PROVE  OnPath(p)' /\ Selection(p)'
    BY <1>19
    DEF Interrupt, Personal, OnPath, Selection
  <1>20. ASSUME Kill(p)
        PROVE  OnPath(p)' /\ Selection(p)'
    BY <1>20
    DEF Kill, Personal, OnPath, Selection
  <1>21. QED
    BY <1>1, <1>2, <1>3, <1>4, <1>5, <1>6, <1>7, <1>8, <1>9, <1>10, <1>11,
       <1>12, <1>13, <1>14, <1>15, <1>16, <1>17, <1>18, <1>19, <1>20
    DEF StepOf, Command, Work, ClientEnds

\* A command that has launched nothing is the maker of nothing.
LEMMA StepOwnFresh ==
    ASSUME LifeInv, NEW p \in Procs, StepOf(p)
    PROVE  Fresh(p)'
  <1> USE LifecycleAssumption
  <1> USE DEF LifeInv, TypeOK, Goto, Finish, Step, Mutex!Release, shared,
              locals, Is, Op, Servers, MadeBy
  <1>1. ASSUME NEW j \in Jobs, Invoke(p, j)
        PROVE  Fresh(p)'
    BY <1>1
    DEF Invoke, Personal, Fresh, BeforeLaunch, OnPath
  <1>2. ASSUME ResolveStableId(p) \/ ResolveAll(p) \/ AcquireLock(p)
        PROVE  Fresh(p)'
    BY <1>2
    DEF ResolveStableId, Labelled, ResolveAll, Running, AcquireLock,
        SelectedBeforeLock, Mutex!Acquire, Personal, Fresh, BeforeLaunch,
        OnPath
  <1>3. ASSUME DiscoverForLaunch(p)
        PROVE  Fresh(p)'
    BY <1>3
    DEF DiscoverForLaunch, Claimed, Labelled, Managed, Runtime, Personal,
        Fresh, BeforeLaunch, OnPath
  <1>4. ASSUME DiscoverForRestart(p) \/ DiscoverForStop(p)
        PROVE  Fresh(p)'
    BY <1>4
    DEF DiscoverForRestart, Managed, Running, DiscoverForStop, Labelled,
        Personal, Fresh, BeforeLaunch, OnPath
  <1>5. ASSUME DiscoverForConnect(p)
        PROVE  Fresh(p)'
    BY <1>5
    DEF DiscoverForConnect, Managed, Running, Personal, Fresh, BeforeLaunch,
        OnPath
  <1>6. ASSUME TruncateToken(p) \/ WriteToken(p)
        PROVE  Fresh(p)'
    BY <1>6
    DEF TruncateToken, WriteToken, Personal, Fresh, BeforeLaunch, OnPath
  <1>7. ASSUME RecordVolume(p)
        PROVE  Fresh(p)'
    BY <1>7
    DEF RecordVolume, Personal, Fresh, BeforeLaunch, OnPath
  <1>8. ASSUME PreparationFails(p)
        PROVE  Fresh(p)'
    BY <1>8
    DEF PreparationFails, Personal, Fresh, BeforeLaunch, OnPath
  <1>9. ASSUME RunDetached(p) \/ RunForeground(p)
        PROVE  Fresh(p)'
    BY <1>9
    DEF RunDetached, PodmanCreates, NewBox, KindOf, Runtime, WithVolume,
        RunForeground, Personal, Fresh, BeforeLaunch, OnPath
  <1>10. ASSUME RunDetachedFails(p)
        PROVE  Fresh(p)'
    BY <1>10
    DEF RunDetachedFails, PodmanCreates, NewBox, KindOf, Runtime, WithVolume,
        Abort, Personal, Fresh, BeforeLaunch, OnPath
  <1>11. ASSUME OrphanLaunch(p)
        PROVE  Fresh(p)'
    BY <1>11
    DEF OrphanLaunch, PodmanCreates, NewBox, KindOf, Runtime, WithVolume,
        Personal, Fresh, BeforeLaunch, OnPath
  <1>12. ASSUME AbortInterrupted(p) \/ WaitForServer(p) \/ ServerReady(p)
        PROVE  Fresh(p)'
    BY <1>12
    DEF AbortInterrupted, Abort, WaitForServer, ServerReady, Running,
        Personal, Fresh, BeforeLaunch, OnPath
  <1>13. ASSUME ReadinessFails(p) \/ ReportReady(p)
        PROVE  Fresh(p)'
    BY <1>13
    DEF ReadinessFails, ReportReady, Personal, Fresh, BeforeLaunch, OnPath
  <1>14. ASSUME ClientExits(p) \/ ForegroundExits(p)
        PROVE  Fresh(p)'
    BY <1>14
    DEF ClientExits, ForegroundExits, Personal, Fresh, BeforeLaunch, OnPath
  <1>15. ASSUME StopIgnore(p)
        PROVE  Fresh(p)'
    <2>1. \A r : MadeBy(box', r) => MadeBy(box, r)
      BY <1>15 DEF StopIgnore, Stops, Exited, Box
    <2>2. BeforeLaunch(p)' => BeforeLaunch(p)
      BY <1>15 DEF StopIgnore, BeforeLaunch
    <2>3. seen' = seen /\ volume' = volume
      BY <1>15 DEF StopIgnore
    <2>4. QED
      BY <2>1, <2>2, <2>3 DEF Personal, Fresh
  <1>16. ASSUME ContainerRemoved(p)
        PROVE  Fresh(p)'
    BY <1>16, RemovedCases
    DEF Personal, Fresh, BeforeLaunch, OnPath
  <1>17. ASSUME ContainerRemains(p)
        PROVE  Fresh(p)'
    BY <1>17
    DEF ContainerRemains, Personal, Fresh, BeforeLaunch, OnPath
  <1>18. ASSUME RemoveToken(p) \/ RemoveVolume(p)
        PROVE  Fresh(p)'
    BY <1>18
    DEF RemoveToken, RemoveVolume, Personal, Fresh, BeforeLaunch, OnPath
  <1>19. ASSUME Interrupt(p)
        PROVE  Fresh(p)'
    BY <1>19
    DEF Interrupt, Personal, Fresh, BeforeLaunch, OnPath
  <1>20. ASSUME Kill(p)
        PROVE  Fresh(p)'
    BY <1>20
    DEF Kill, Personal, Fresh, BeforeLaunch, OnPath
  <1>21. QED
    BY <1>1, <1>2, <1>3, <1>4, <1>5, <1>6, <1>7, <1>8, <1>9, <1>10, <1>11,
       <1>12, <1>13, <1>14, <1>15, <1>16, <1>17, <1>18, <1>19, <1>20
    DEF StepOf, Command, Work, ClientEnds

\* A command that treats its container as gone has verified so.
LEMMA StepOwnGone ==
    ASSUME LifeInv, NEW p \in Procs, StepOf(p)
    PROVE  StaysGone(p)'
  <1> USE LifecycleAssumption
  <1> USE DEF LifeInv, TypeOK, Goto, Finish, Step, Mutex!Release, shared,
              locals, Is, Op, Servers, MadeBy
  <1>1. ASSUME NEW j \in Jobs, Invoke(p, j)
        PROVE  StaysGone(p)'
    BY <1>1
    DEF Invoke, Personal, Fresh, BeforeLaunch, StaysGone, TreatedAsGone,
        OnPath, Selection
  <1>2. ASSUME ResolveStableId(p) \/ ResolveAll(p) \/ AcquireLock(p)
        PROVE  StaysGone(p)'
    BY <1>2
    DEF ResolveStableId, Labelled, ResolveAll, Running, AcquireLock,
        SelectedBeforeLock, Mutex!Acquire, Personal, Fresh, BeforeLaunch,
        StaysGone, TreatedAsGone, OnPath, Selection
  <1>3. ASSUME DiscoverForLaunch(p)
        PROVE  StaysGone(p)'
    BY <1>3
    DEF DiscoverForLaunch, Claimed, Labelled, Managed, Runtime, Personal,
        Fresh, BeforeLaunch, StaysGone, TreatedAsGone, OnPath, Selection
  <1>4. ASSUME DiscoverForRestart(p) \/ DiscoverForStop(p)
        PROVE  StaysGone(p)'
    BY <1>4
    DEF DiscoverForRestart, Managed, Running, DiscoverForStop, Labelled,
        Personal, Fresh, BeforeLaunch, StaysGone, TreatedAsGone, OnPath,
        Selection
  <1>5. ASSUME DiscoverForConnect(p)
        PROVE  StaysGone(p)'
    BY <1>5
    DEF DiscoverForConnect, Managed, Running, Personal, Fresh, BeforeLaunch,
        StaysGone, TreatedAsGone, OnPath, Selection
  <1>6. ASSUME TruncateToken(p) \/ WriteToken(p)
        PROVE  StaysGone(p)'
    BY <1>6
    DEF TruncateToken, WriteToken, Personal, Fresh, BeforeLaunch, StaysGone,
        TreatedAsGone, OnPath, Selection
  <1>7. ASSUME RecordVolume(p)
        PROVE  StaysGone(p)'
    BY <1>7
    DEF RecordVolume, Personal, Fresh, BeforeLaunch, StaysGone, TreatedAsGone,
        OnPath, Selection
  <1>8. ASSUME PreparationFails(p)
        PROVE  StaysGone(p)'
    BY <1>8
    DEF PreparationFails, Personal, Fresh, BeforeLaunch, StaysGone,
        TreatedAsGone, OnPath, Selection
  <1>9. ASSUME RunDetached(p) \/ RunForeground(p)
        PROVE  StaysGone(p)'
    BY <1>9
    DEF RunDetached, PodmanCreates, NewBox, KindOf, Runtime, WithVolume,
        RunForeground, Personal, Fresh, BeforeLaunch, StaysGone,
        TreatedAsGone, OnPath, Selection
  <1>10. ASSUME RunDetachedFails(p)
        PROVE  StaysGone(p)'
    BY <1>10
    DEF RunDetachedFails, PodmanCreates, NewBox, KindOf, Runtime, WithVolume,
        Abort, Personal, Fresh, BeforeLaunch, StaysGone, TreatedAsGone,
        OnPath, Selection
  <1>11. ASSUME OrphanLaunch(p)
        PROVE  StaysGone(p)'
    BY <1>11
    DEF OrphanLaunch, PodmanCreates, NewBox, KindOf, Runtime, WithVolume,
        Personal, Fresh, BeforeLaunch, StaysGone, TreatedAsGone, OnPath,
        Selection
  <1>12. ASSUME AbortInterrupted(p) \/ WaitForServer(p) \/ ServerReady(p)
        PROVE  StaysGone(p)'
    BY <1>12
    DEF AbortInterrupted, Abort, WaitForServer, ServerReady, Running,
        Personal, Fresh, BeforeLaunch, StaysGone, TreatedAsGone, OnPath,
        Selection
  <1>13. ASSUME ReadinessFails(p) \/ ReportReady(p)
        PROVE  StaysGone(p)'
    BY <1>13
    DEF ReadinessFails, ReportReady, Personal, Fresh, BeforeLaunch, StaysGone,
        TreatedAsGone, OnPath, Selection
  <1>14. ASSUME ClientExits(p) \/ ForegroundExits(p)
        PROVE  StaysGone(p)'
    BY <1>14
    DEF ClientExits, ForegroundExits, Personal, Fresh, BeforeLaunch,
        StaysGone, TreatedAsGone, OnPath, Selection
  <1>15. ASSUME StopIgnore(p)
        PROVE  StaysGone(p)'
    BY <1>15
    DEF StopIgnore, Stops, Exited, Personal, Fresh, BeforeLaunch, StaysGone,
        TreatedAsGone, OnPath, Selection
  <1>16. ASSUME ContainerRemoved(p)
        PROVE  StaysGone(p)'
    BY <1>16, RemovedCases
    DEF Personal, Fresh, BeforeLaunch, StaysGone, TreatedAsGone, OnPath,
        Selection
  <1>17. ASSUME ContainerRemains(p)
        PROVE  StaysGone(p)'
    BY <1>17
    DEF ContainerRemains, Personal, Fresh, BeforeLaunch, StaysGone,
        TreatedAsGone, OnPath, Selection
  <1>18. ASSUME RemoveToken(p) \/ RemoveVolume(p)
        PROVE  StaysGone(p)'
    BY <1>18
    DEF RemoveToken, RemoveVolume, Personal, Fresh, BeforeLaunch, StaysGone,
        TreatedAsGone, OnPath, Selection
  <1>19. ASSUME Interrupt(p)
        PROVE  StaysGone(p)'
    BY <1>19
    DEF Interrupt, Personal, Fresh, BeforeLaunch, StaysGone, TreatedAsGone,
        OnPath, Selection
  <1>20. ASSUME Kill(p)
        PROVE  StaysGone(p)'
    BY <1>20
    DEF Kill, Personal, Fresh, BeforeLaunch, StaysGone, TreatedAsGone, OnPath,
        Selection
  <1>21. QED
    BY <1>1, <1>2, <1>3, <1>4, <1>5, <1>6, <1>7, <1>8, <1>9, <1>10, <1>11,
       <1>12, <1>13, <1>14, <1>15, <1>16, <1>17, <1>18, <1>19, <1>20
    DEF StepOf, Command, Work, ClientEnds

\* A command that ends reports what it left behind.
LEMMA StepOwnOutcome ==
    ASSUME LifeInv, NEW p \in Procs, StepOf(p)
    PROVE  Outcome(p)' /\ VolumeKept(p)'
           /\ CleanedUp(p)' /\ NothingLeft(p)'
  <1> USE LifecycleAssumption
  <1> USE DEF LifeInv, TypeOK, Goto, Finish, Step, Mutex!Release, shared,
              locals, Is, Op, Servers, MadeBy
  <1>1. ASSUME NEW j \in Jobs, Invoke(p, j)
        PROVE  Outcome(p)' /\ VolumeKept(p)'
           /\ CleanedUp(p)' /\ NothingLeft(p)'
    BY <1>1
    DEF Invoke, Personal, Fresh, BeforeLaunch, Outcome, VolumeKept, OnPath,
        PCs, LockedPCs, CleanedUp, NothingLeft
  <1>2. ASSUME ResolveStableId(p) \/ ResolveAll(p) \/ AcquireLock(p)
        PROVE  Outcome(p)' /\ VolumeKept(p)'
           /\ CleanedUp(p)' /\ NothingLeft(p)'
    BY <1>2
    DEF ResolveStableId, Labelled, ResolveAll, Running, AcquireLock,
        SelectedBeforeLock, Mutex!Acquire, Personal, Fresh, BeforeLaunch,
        Outcome, VolumeKept, OnPath, PCs, LockedPCs, CleanedUp, NothingLeft
  <1>3. ASSUME DiscoverForLaunch(p)
        PROVE  Outcome(p)' /\ VolumeKept(p)'
           /\ CleanedUp(p)' /\ NothingLeft(p)'
    BY <1>3
    DEF DiscoverForLaunch, Claimed, Labelled, Managed, Runtime, Personal,
        Fresh, BeforeLaunch, Outcome, VolumeKept, OnPath, PCs, LockedPCs,
        CleanedUp, NothingLeft
  <1>4. ASSUME DiscoverForRestart(p) \/ DiscoverForStop(p)
        PROVE  Outcome(p)' /\ VolumeKept(p)'
           /\ CleanedUp(p)' /\ NothingLeft(p)'
    BY <1>4
    DEF DiscoverForRestart, Managed, Running, DiscoverForStop, Labelled,
        Personal, Fresh, BeforeLaunch, Outcome, VolumeKept, OnPath, PCs,
        LockedPCs, CleanedUp, NothingLeft
  <1>5. ASSUME DiscoverForConnect(p)
        PROVE  Outcome(p)' /\ VolumeKept(p)'
           /\ CleanedUp(p)' /\ NothingLeft(p)'
    BY <1>5
    DEF DiscoverForConnect, Managed, Running, Personal, Fresh, BeforeLaunch,
        Outcome, VolumeKept, OnPath, PCs, LockedPCs, CleanedUp, NothingLeft
  <1>6. ASSUME TruncateToken(p) \/ WriteToken(p)
        PROVE  Outcome(p)' /\ VolumeKept(p)'
           /\ CleanedUp(p)' /\ NothingLeft(p)'
    BY <1>6
    DEF TruncateToken, WriteToken, Personal, Fresh, BeforeLaunch, Outcome,
        VolumeKept, OnPath, PCs, LockedPCs, CleanedUp, NothingLeft
  <1>7. ASSUME RecordVolume(p)
        PROVE  Outcome(p)' /\ VolumeKept(p)'
           /\ CleanedUp(p)' /\ NothingLeft(p)'
    BY <1>7
    DEF RecordVolume, Personal, Fresh, BeforeLaunch, Outcome, VolumeKept,
        OnPath, PCs, LockedPCs, CleanedUp, NothingLeft
  <1>8. ASSUME PreparationFails(p)
        PROVE  Outcome(p)' /\ VolumeKept(p)'
           /\ CleanedUp(p)' /\ NothingLeft(p)'
    BY <1>8
    DEF PreparationFails, Personal, Fresh, BeforeLaunch, Outcome, VolumeKept,
        OnPath, PCs, LockedPCs, CleanedUp, NothingLeft
  <1>9. ASSUME RunDetached(p) \/ RunForeground(p)
        PROVE  Outcome(p)' /\ VolumeKept(p)'
           /\ CleanedUp(p)' /\ NothingLeft(p)'
    BY <1>9
    DEF RunDetached, PodmanCreates, NewBox, KindOf, Runtime, WithVolume,
        RunForeground, Personal, Fresh, BeforeLaunch, Outcome, VolumeKept,
        OnPath, PCs, LockedPCs, CleanedUp, NothingLeft
  <1>10. ASSUME RunDetachedFails(p)
        PROVE  Outcome(p)' /\ VolumeKept(p)'
           /\ CleanedUp(p)' /\ NothingLeft(p)'
    BY <1>10
    DEF RunDetachedFails, PodmanCreates, NewBox, KindOf, Runtime, WithVolume,
        Abort, Personal, Fresh, BeforeLaunch, Outcome, VolumeKept, OnPath,
        PCs, LockedPCs, CleanedUp, NothingLeft
  <1>11. ASSUME OrphanLaunch(p)
        PROVE  Outcome(p)' /\ VolumeKept(p)'
           /\ CleanedUp(p)' /\ NothingLeft(p)'
    BY <1>11
    DEF OrphanLaunch, PodmanCreates, NewBox, KindOf, Runtime, WithVolume,
        Personal, Fresh, BeforeLaunch, Outcome, VolumeKept, OnPath, PCs,
        LockedPCs, CleanedUp, NothingLeft
  <1>12. ASSUME AbortInterrupted(p) \/ WaitForServer(p) \/ ServerReady(p)
        PROVE  Outcome(p)' /\ VolumeKept(p)'
           /\ CleanedUp(p)' /\ NothingLeft(p)'
    BY <1>12
    DEF AbortInterrupted, Abort, WaitForServer, ServerReady, Running,
        Personal, Fresh, BeforeLaunch, Outcome, VolumeKept, OnPath, PCs,
        LockedPCs, CleanedUp, NothingLeft
  <1>13. ASSUME ReadinessFails(p) \/ ReportReady(p)
        PROVE  Outcome(p)' /\ VolumeKept(p)'
           /\ CleanedUp(p)' /\ NothingLeft(p)'
    BY <1>13
    DEF ReadinessFails, ReportReady, Personal, Fresh, BeforeLaunch, Outcome,
        VolumeKept, OnPath, PCs, LockedPCs, CleanedUp, NothingLeft
  <1>14. ASSUME ClientExits(p) \/ ForegroundExits(p)
        PROVE  Outcome(p)' /\ VolumeKept(p)'
           /\ CleanedUp(p)' /\ NothingLeft(p)'
    BY <1>14
    DEF ClientExits, ForegroundExits, Personal, Fresh, BeforeLaunch, Outcome,
        VolumeKept, OnPath, PCs, LockedPCs, CleanedUp, NothingLeft
  <1>15. ASSUME StopIgnore(p)
        PROVE  Outcome(p)' /\ VolumeKept(p)'
           /\ CleanedUp(p)' /\ NothingLeft(p)'
    BY <1>15
    DEF StopIgnore, Stops, Exited, Personal, Fresh, BeforeLaunch, Outcome,
        VolumeKept, OnPath, PCs, LockedPCs, CleanedUp, NothingLeft
  <1>16. ASSUME ContainerRemoved(p)
        PROVE  Outcome(p)' /\ VolumeKept(p)'
           /\ CleanedUp(p)' /\ NothingLeft(p)'
    BY <1>16, RemovedCases
    DEF Personal, Fresh, BeforeLaunch, Outcome, VolumeKept, OnPath, PCs,
        LockedPCs, CleanedUp, NothingLeft
  <1>17. ASSUME ContainerRemains(p)
        PROVE  Outcome(p)' /\ VolumeKept(p)'
           /\ CleanedUp(p)' /\ NothingLeft(p)'
    BY <1>17
    DEF ContainerRemains, Personal, Fresh, BeforeLaunch, Outcome, VolumeKept,
        OnPath, PCs, LockedPCs, CleanedUp, NothingLeft
  <1>18. ASSUME RemoveToken(p) \/ RemoveVolume(p)
        PROVE  Outcome(p)' /\ VolumeKept(p)'
           /\ CleanedUp(p)' /\ NothingLeft(p)'
    BY <1>18
    DEF RemoveToken, RemoveVolume, Personal, Fresh, BeforeLaunch, Outcome,
        VolumeKept, OnPath, PCs, LockedPCs, CleanedUp, NothingLeft
  <1>19. ASSUME Interrupt(p)
        PROVE  Outcome(p)' /\ VolumeKept(p)'
           /\ CleanedUp(p)' /\ NothingLeft(p)'
    BY <1>19
    DEF Interrupt, Personal, Fresh, BeforeLaunch, Outcome, VolumeKept, OnPath,
        PCs, LockedPCs, CleanedUp, NothingLeft
  <1>20. ASSUME Kill(p)
        PROVE  Outcome(p)' /\ VolumeKept(p)'
           /\ CleanedUp(p)' /\ NothingLeft(p)'
    BY <1>20
    DEF Kill, Personal, Fresh, BeforeLaunch, Outcome, VolumeKept, OnPath, PCs,
        LockedPCs, CleanedUp, NothingLeft
  <1>21. QED
    BY <1>1, <1>2, <1>3, <1>4, <1>5, <1>6, <1>7, <1>8, <1>9, <1>10, <1>11,
       <1>12, <1>13, <1>14, <1>15, <1>16, <1>17, <1>18, <1>19, <1>20
    DEF StepOf, Command, Work, ClientEnds

-----------------------------------------------------------------------------
(* The invariant, and what the commands report. *)

\* A server that exits, or a container podman removes, was made by the same
\* command as before.
LEMMA EnvironmentKeeps ==
    ASSUME TypeOK, ServerExits \/ Reap
    PROVE  /\ UNCHANGED <<holders, volume, tokenFile, pc, locals, result>>
           /\ box' \in Box \cup {None}
           /\ \A r : MadeBy(box', r) => MadeBy(box, r)
           /\ Managed(box') => Managed(box)
           /\ box' # None => box'.by = box.by /\ box'.runtime = box.runtime
  BY DEF TypeOK, ServerExits, Reap, Running, Exited, Box, MadeBy, Managed

\* The environment's steps preserve the inductive invariant.
LEMMA EnvironmentInv ==
    ASSUME LifeInv, ServerExits \/ Reap
    PROVE  LifeInv'
  <1> TypeOK
    BY DEF LifeInv
  <1>1. TypeOK' /\ OneHolder'
    BY EnvironmentKeeps DEF LifeInv, TypeOK, OneHolder, locals
  <1>2. ASSUME NEW p \in Procs PROVE Personal(p)'
    BY EnvironmentKeeps
    DEF LifeInv, Personal, OnPath, Selection, Fresh, BeforeLaunch, StaysGone,
        TreatedAsGone, Outcome, VolumeKept, CleanedUp, NothingLeft, Op,
        locals, MadeBy
  <1>3. QED
    BY <1>1, <1>2 DEF LifeInv

\* A step of a command preserves the inductive invariant.
LEMMA CommandInv ==
    ASSUME LifeInv, NEW p \in Procs, StepOf(p)
    PROVE  LifeInv'
  <1>1. TypeOK' /\ OneHolder'
    BY StepTypes
  <1>2. Personal(p)'
    BY StepOwnPath, StepOwnFresh, StepOwnGone, StepOwnOutcome DEF Personal
  <1>3. ASSUME NEW q \in Procs, q # p PROVE Personal(q)'
    BY <1>1, <1>3, StepFootprint, OthersKeep
  <1>4. QED
    BY <1>1, <1>2, <1>3 DEF LifeInv

\* The inductive invariant holds initially: whatever earlier commands left,
\* no invocation of the model made it.
LEMMA InitLifeInv == Init => LifeInv
  <1> SUFFICES ASSUME Init PROVE LifeInv
    OBVIOUS
  <1>1. PICK l \in Leftovers :
           box = l.box /\ volume = l.volume /\ tokenFile = l.token
    BY DEF Init
  <1>2. /\ box \in Box \cup {None}
        /\ box # None => box.by \in {Earlier, Foreign}
        /\ volume \in {Earlier, None}
        /\ tokenFile \in {Earlier, Empty, None}
    BY <1>1, LifecycleAssumption
    DEF Leftovers, EarlierBox, Box, Makers, Kinds, Runtimes
  <1>3. TypeOK /\ OneHolder
    BY <1>2 DEF Init, TypeOK, OneHolder, PCs, LockedPCs, Results
  <1>4. ASSUME NEW p \in Procs PROVE Personal(p)
    BY <1>2, LifecycleAssumption
    DEF Init, Personal, OnPath, Selection, Fresh, BeforeLaunch, StaysGone,
        TreatedAsGone, Outcome, VolumeKept, CleanedUp, NothingLeft, Op, MadeBy
  <1>5. QED
    BY <1>3, <1>4 DEF LifeInv

\* Every step preserves the inductive invariant.
LEMMA StepLifeInv == LifeInv /\ [Next]_vars => LifeInv'
  <1> SUFFICES ASSUME LifeInv, [Next]_vars PROVE LifeInv'
    OBVIOUS
  <1>1. CASE Next
    <2>1. CASE \E p \in Procs : StepOf(p)
      BY <2>1, CommandInv
    <2>2. CASE ServerExits \/ Reap
      BY <2>2, EnvironmentInv
    <2>3. CASE Terminated
      BY <2>3 DEF Terminated, vars, shared, locals, LifeInv, TypeOK,
         OneHolder, Personal, OnPath, Selection, Fresh, BeforeLaunch,
         StaysGone, TreatedAsGone, Outcome, VolumeKept, CleanedUp,
         NothingLeft, Op, MadeBy
    <2>4. QED
      BY <1>1, <2>1, <2>2, <2>3 DEF Next, StepOf
  <1>2. CASE UNCHANGED vars
    BY <1>2 DEF vars, shared, locals, LifeInv, TypeOK, OneHolder, Personal,
       OnPath, Selection, Fresh, BeforeLaunch, StaysGone, TreatedAsGone,
       Outcome, VolumeKept, CleanedUp, NothingLeft, Op, MadeBy
  <1>3. QED
    BY <1>1, <1>2

\* The inductive invariant holds in every reachable state, whoever is killed
\* and wherever.
THEOREM LifeInvCorrect == Spec => []LifeInv
  BY InitLifeInv, StepLifeInv, PTL DEF Spec

\* Every reachable state is well typed, and a command is past the workspace
\* lock exactly while it holds it.
THEOREM TypeCorrect == Spec => []TypeOK
  <1>1. LifeInv => TypeOK
    BY DEF LifeInv
  <1>2. QED
    BY <1>1, LifeInvCorrect, PTL

\* A stop that reports success and a restart that launches have verified
\* that the container they selected is gone, and it does not come back.
THEOREM VerifiedGoneCorrect == Spec => []VerifiedGone
  <1>1. LifeInv => VerifiedGone
    BY DEF LifeInv, Personal, StaysGone, VerifiedGone
  <1>2. QED
    BY <1>1, LifeInvCorrect, PTL

\* An interrupted start that says it cleaned up left neither its container
\* nor a cache volume of its own.
THEOREM CleanedUpIsTrueCorrect == Spec => []CleanedUpIsTrue
  <1>1. LifeInv => CleanedUpIsTrue
    BY DEF LifeInv, Personal, CleanedUp, CleanedUpIsTrue
  <1>2. QED
    BY <1>1, LifeInvCorrect, PTL

\* A run whose launch did not fail, and that is not killed, left no container
\* unless its cleanup says so.
THEOREM RunLeavesNothingCorrect == Spec => []RunLeavesNothing
  <1>1. LifeInv => RunLeavesNothing
    BY DEF LifeInv, Personal, NothingLeft, RunLeavesNothing
  <1>2. QED
    BY <1>1, LifeInvCorrect, PTL

\* What the commands report is true whoever is killed and wherever, orphaned
\* podman runs included.
THEOREM ReportsAreTrueCorrect == Spec => []ReportsAreTrue
  BY VerifiedGoneCorrect, CleanedUpIsTrueCorrect, RunLeavesNothingCorrect, PTL
  DEF ReportsAreTrue

-----------------------------------------------------------------------------
(* Without orphans: sessions, volumes and tokens. *)

Known(p) == BoxIsKnown(p) /\ VolumeIsKnown(p) /\ TokenWritten(p)

\* Without an orphan, only the holder of the lock changes what is shared.
LEMMA OnlyHolderWrites ==
    ASSUME LifeInv, NEW p \in Procs, StepOf(p), pc[p] # "orphan", p \notin holders
    PROVE  UNCHANGED shared
  <1>1. pc[p] \notin LockedPCs
    BY DEF LifeInv, TypeOK
  <1>2. QED
    BY <1>1
    DEF StepOf, Command, Work, ClientEnds, Invoke, ResolveStableId,
        ResolveAll, AcquireLock, DiscoverForLaunch, DiscoverForRestart,
        DiscoverForStop, DiscoverForConnect, TruncateToken, WriteToken,
        RecordVolume, PreparationFails, RunDetached, RunDetachedFails,
        RunForeground, AbortInterrupted, WaitForServer, ServerReady,
        ReadinessFails, ReportReady, StopIgnore, ContainerRemoved,
        ContainerRemains, RemoveToken, RemoveVolume, ClientExits,
        ForegroundExits, Interrupt, Kill, OrphanLaunch, Is, LockedPCs, PCs,
        shared

\* Hence what another holder knows of the shared state stays true.
LEMMA OthersKnow ==
    ASSUME QuietInv, NoOrphans, NEW p \in Procs, StepOf(p),
           NEW q \in Procs, q # p
    PROVE  Known(q)'
  <1>0. LifeInv
    BY DEF QuietInv
  <1>1. /\ pc'[q] = pc[q] /\ job'[q] = job[q] /\ seen'[q] = seen[q]
        /\ volumeBefore'[q] = volumeBefore[q]
        /\ q \in holders' => q \in holders
        /\ Op(q)' = Op(q)
    BY <1>0, StepFootprint DEF Footprint, Op
  <1>2. CASE q \in holders
    <2>1. p \notin holders
      BY <1>0, <1>2 DEF LifeInv, OneHolder
    <2>2. UNCHANGED shared
      BY <1>0, <2>1, OnlyHolderWrites DEF NoOrphans
    <2>3. Known(q)
      BY DEF QuietInv, Known
    <2>4. QED
      BY <1>1, <1>2, <2>2, <2>3
      DEF Known, BoxIsKnown, VolumeIsKnown, TokenWritten, shared, MadeBy,
          Managed
  <1>3. CASE q \notin holders
    <2>1. pc[q] \notin LockedPCs
      BY <1>0, <1>3 DEF LifeInv, TypeOK
    <2>2. QED
      BY <1>1, <1>3, <2>1
      DEF Known, BoxIsKnown, VolumeIsKnown, TokenWritten, LockedPCs, PCs
  <1>4. QED
    BY <1>2, <1>3

\* What a command knows of the shared state stays true of its own steps.
LEMMA StepOwnKnown ==
    ASSUME QuietInv, NoOrphans, NEW p \in Procs, StepOf(p)
    PROVE  Known(p)'
  <1> USE LifecycleAssumption
  <1> USE DEF LifeInv, TypeOK, Goto, Finish, Step, Mutex!Release, shared,
              locals, Is, Op, Servers, MadeBy, QuietInv, NoOrphans
  <1>1. ASSUME NEW j \in Jobs, Invoke(p, j)
        PROVE  Known(p)'
    BY <1>1
    DEF Invoke, Known, BoxIsKnown, VolumeIsKnown, TokenWritten, Managed,
        Personal, OnPath, Selection, Fresh, BeforeLaunch, PCs, LockedPCs, Box,
        JobType
  <1>2. ASSUME ResolveStableId(p) \/ ResolveAll(p) \/ AcquireLock(p)
        PROVE  Known(p)'
    BY <1>2
    DEF ResolveStableId, Labelled, ResolveAll, Running, AcquireLock,
        SelectedBeforeLock, Mutex!Acquire, Known, BoxIsKnown, VolumeIsKnown,
        TokenWritten, Managed, Personal, OnPath, Selection, Fresh,
        BeforeLaunch, PCs, LockedPCs, Box, JobType
  <1>3. ASSUME DiscoverForLaunch(p)
        PROVE  Known(p)'
    BY <1>3
    DEF DiscoverForLaunch, Claimed, Labelled, Managed, Runtime, Known,
        BoxIsKnown, VolumeIsKnown, TokenWritten, Personal, OnPath, Selection,
        Fresh, BeforeLaunch, PCs, LockedPCs, Box, JobType
  <1>4. ASSUME DiscoverForRestart(p) \/ DiscoverForStop(p)
        PROVE  Known(p)'
    BY <1>4
    DEF DiscoverForRestart, Managed, Running, DiscoverForStop, Labelled,
        Known, BoxIsKnown, VolumeIsKnown, TokenWritten, Personal, OnPath,
        Selection, Fresh, BeforeLaunch, PCs, LockedPCs, Box, JobType
  <1>5. ASSUME DiscoverForConnect(p)
        PROVE  Known(p)'
    BY <1>5
    DEF DiscoverForConnect, Managed, Running, Known, BoxIsKnown,
        VolumeIsKnown, TokenWritten, Personal, OnPath, Selection, Fresh,
        BeforeLaunch, PCs, LockedPCs, Box, JobType
  <1>6. ASSUME TruncateToken(p) \/ WriteToken(p)
        PROVE  Known(p)'
    BY <1>6
    DEF TruncateToken, WriteToken, Known, BoxIsKnown, VolumeIsKnown,
        TokenWritten, Managed, Personal, OnPath, Selection, Fresh,
        BeforeLaunch, PCs, LockedPCs, Box, JobType
  <1>7. ASSUME RecordVolume(p)
        PROVE  Known(p)'
    <2>1. volumeBefore'[p] = (volume # None)
      BY <1>7 DEF RecordVolume
    <2>2. VolumeIsKnown(p)'
      BY <1>7, <2>1 DEF RecordVolume, VolumeIsKnown
    <2>3. (BoxIsKnown(p) /\ TokenWritten(p))'
      BY <1>7 DEF RecordVolume, BoxIsKnown, TokenWritten, Managed, Personal,
                  OnPath, PCs, LockedPCs
    <2>4. QED
      BY <2>2, <2>3 DEF Known
  <1>8. ASSUME PreparationFails(p)
        PROVE  Known(p)'
    BY <1>8
    DEF PreparationFails, Known, BoxIsKnown, VolumeIsKnown, TokenWritten,
        Managed, Personal, OnPath, Selection, Fresh, BeforeLaunch, PCs,
        LockedPCs, Box, JobType
  <1>9. ASSUME RunDetached(p) \/ RunForeground(p)
        PROVE  Known(p)'
    BY <1>9
    DEF RunDetached, PodmanCreates, NewBox, KindOf, Runtime, WithVolume,
        RunForeground, Known, BoxIsKnown, VolumeIsKnown, TokenWritten,
        Managed, Personal, OnPath, Selection, Fresh, BeforeLaunch, PCs,
        LockedPCs, Box, JobType
  <1>10. ASSUME RunDetachedFails(p)
        PROVE  Known(p)'
    BY <1>10
    DEF RunDetachedFails, PodmanCreates, NewBox, KindOf, Runtime, WithVolume,
        Abort, Known, BoxIsKnown, VolumeIsKnown, TokenWritten, Managed,
        Personal, OnPath, Selection, Fresh, BeforeLaunch, PCs, LockedPCs, Box,
        JobType
  <1>11. ASSUME OrphanLaunch(p)
        PROVE  Known(p)'
    BY <1>11
    DEF OrphanLaunch, PodmanCreates, NewBox, KindOf, Runtime, WithVolume,
        Known, BoxIsKnown, VolumeIsKnown, TokenWritten, Managed, Personal,
        OnPath, Selection, Fresh, BeforeLaunch, PCs, LockedPCs, Box, JobType
  <1>12. ASSUME AbortInterrupted(p) \/ WaitForServer(p) \/ ServerReady(p)
        PROVE  Known(p)'
    BY <1>12
    DEF AbortInterrupted, Abort, WaitForServer, ServerReady, Running, Known,
        BoxIsKnown, VolumeIsKnown, TokenWritten, Managed, Personal, OnPath,
        Selection, Fresh, BeforeLaunch, PCs, LockedPCs, Box, JobType
  <1>13. ASSUME ReadinessFails(p) \/ ReportReady(p)
        PROVE  Known(p)'
    BY <1>13
    DEF ReadinessFails, ReportReady, Known, BoxIsKnown, VolumeIsKnown,
        TokenWritten, Managed, Personal, OnPath, Selection, Fresh,
        BeforeLaunch, PCs, LockedPCs, Box, JobType
  <1>14. ASSUME ClientExits(p) \/ ForegroundExits(p)
        PROVE  Known(p)'
    BY <1>14
    DEF ClientExits, ForegroundExits, Known, BoxIsKnown, VolumeIsKnown,
        TokenWritten, Managed, Personal, OnPath, Selection, Fresh,
        BeforeLaunch, PCs, LockedPCs, Box, JobType
  <1>15. ASSUME StopIgnore(p)
        PROVE  Known(p)'
    BY <1>15
    DEF StopIgnore, Stops, Exited, Known, BoxIsKnown, VolumeIsKnown,
        TokenWritten, Managed, Personal, OnPath, Selection, Fresh,
        BeforeLaunch, PCs, LockedPCs, Box, JobType
  <1>16. ASSUME ContainerRemoved(p)
        PROVE  Known(p)'
    BY <1>16, RemovedCases
    DEF Known, BoxIsKnown, VolumeIsKnown, TokenWritten, Managed, Personal,
        OnPath, Selection, Fresh, BeforeLaunch, PCs, LockedPCs, Box, JobType
  <1>17. ASSUME ContainerRemains(p)
        PROVE  Known(p)'
    BY <1>17
    DEF ContainerRemains, Known, BoxIsKnown, VolumeIsKnown, TokenWritten,
        Managed, Personal, OnPath, Selection, Fresh, BeforeLaunch, PCs,
        LockedPCs, Box, JobType
  <1>18. ASSUME RemoveToken(p) \/ RemoveVolume(p)
        PROVE  Known(p)'
    BY <1>18
    DEF RemoveToken, RemoveVolume, Known, BoxIsKnown, VolumeIsKnown,
        TokenWritten, Managed, Personal, OnPath, Selection, Fresh,
        BeforeLaunch, PCs, LockedPCs, Box, JobType
  <1>19. ASSUME Interrupt(p)
        PROVE  Known(p)'
    BY <1>19
    DEF Interrupt, Known, BoxIsKnown, VolumeIsKnown, TokenWritten, Managed,
        Personal, OnPath, Selection, Fresh, BeforeLaunch, PCs, LockedPCs, Box,
        JobType
  <1>20. ASSUME Kill(p)
        PROVE  Known(p)'
    BY <1>20
    DEF Kill, Known, BoxIsKnown, VolumeIsKnown, TokenWritten, Managed,
        Personal, OnPath, Selection, Fresh, BeforeLaunch, PCs, LockedPCs, Box,
        JobType
  <1>21. QED
    BY <1>1, <1>2, <1>3, <1>4, <1>5, <1>6, <1>7, <1>8, <1>9, <1>10, <1>11,
       <1>12, <1>13, <1>14, <1>15, <1>16, <1>17, <1>18, <1>19, <1>20
    DEF StepOf, Command, Work, ClientEnds

\* A step of a command separates no managed Codex session from its token,
\* but for a restart of that session.
LEMMA StepToken ==
    ASSUME QuietInv, NoOrphans, NEW p \in Procs, StepOf(p)
    PROVE  TokenSettled'
  <1> USE LifecycleAssumption
  <1> USE DEF LifeInv, TypeOK, Goto, Finish, Step, Mutex!Release, shared,
              locals, Is, Op, Servers, MadeBy, QuietInv, NoOrphans
  <1>1. ASSUME NEW j \in Jobs, Invoke(p, j)
        PROVE  TokenSettled'
    BY <1>1
    DEF Invoke, TokenSettled, Known, BoxIsKnown, TokenWritten, Managed,
        Personal, OnPath, Selection, Fresh, BeforeLaunch, PCs, LockedPCs, Box
  <1>2. ASSUME ResolveStableId(p) \/ ResolveAll(p) \/ AcquireLock(p)
        PROVE  TokenSettled'
    BY <1>2
    DEF ResolveStableId, Labelled, ResolveAll, Running, AcquireLock,
        SelectedBeforeLock, Mutex!Acquire, TokenSettled, Known, BoxIsKnown,
        TokenWritten, Managed, Personal, OnPath, Selection, Fresh,
        BeforeLaunch, PCs, LockedPCs, Box
  <1>3. ASSUME DiscoverForLaunch(p)
        PROVE  TokenSettled'
    BY <1>3
    DEF DiscoverForLaunch, Claimed, Labelled, Managed, Runtime, TokenSettled,
        Known, BoxIsKnown, TokenWritten, Personal, OnPath, Selection, Fresh,
        BeforeLaunch, PCs, LockedPCs, Box
  <1>4. ASSUME DiscoverForRestart(p) \/ DiscoverForStop(p)
        PROVE  TokenSettled'
    BY <1>4
    DEF DiscoverForRestart, Managed, Running, DiscoverForStop, Labelled,
        TokenSettled, Known, BoxIsKnown, TokenWritten, Personal, OnPath,
        Selection, Fresh, BeforeLaunch, PCs, LockedPCs, Box
  <1>5. ASSUME DiscoverForConnect(p)
        PROVE  TokenSettled'
    BY <1>5
    DEF DiscoverForConnect, Managed, Running, TokenSettled, Known, BoxIsKnown,
        TokenWritten, Personal, OnPath, Selection, Fresh, BeforeLaunch, PCs,
        LockedPCs, Box
  <1>6. ASSUME TruncateToken(p) \/ WriteToken(p)
        PROVE  TokenSettled'
    BY <1>6
    DEF TruncateToken, WriteToken, TokenSettled, Known, BoxIsKnown,
        TokenWritten, Managed, Personal, OnPath, Selection, Fresh,
        BeforeLaunch, PCs, LockedPCs, Box
  <1>7. ASSUME RecordVolume(p)
        PROVE  TokenSettled'
    BY <1>7
    DEF RecordVolume, TokenSettled, Known, BoxIsKnown, TokenWritten, Managed,
        Personal, OnPath, Selection, Fresh, BeforeLaunch, PCs, LockedPCs, Box
  <1>8. ASSUME PreparationFails(p)
        PROVE  TokenSettled'
    BY <1>8
    DEF PreparationFails, TokenSettled, Known, BoxIsKnown, TokenWritten,
        Managed, Personal, OnPath, Selection, Fresh, BeforeLaunch, PCs,
        LockedPCs, Box
  <1>9. ASSUME RunDetached(p) \/ RunForeground(p)
        PROVE  TokenSettled'
    BY <1>9
    DEF RunDetached, PodmanCreates, NewBox, KindOf, Runtime, WithVolume,
        RunForeground, TokenSettled, Known, BoxIsKnown, TokenWritten, Managed,
        Personal, OnPath, Selection, Fresh, BeforeLaunch, PCs, LockedPCs, Box
  <1>10. ASSUME RunDetachedFails(p)
        PROVE  TokenSettled'
    BY <1>10
    DEF RunDetachedFails, PodmanCreates, NewBox, KindOf, Runtime, WithVolume,
        Abort, TokenSettled, Known, BoxIsKnown, TokenWritten, Managed,
        Personal, OnPath, Selection, Fresh, BeforeLaunch, PCs, LockedPCs, Box
  <1>11. ASSUME OrphanLaunch(p)
        PROVE  TokenSettled'
    BY <1>11
    DEF OrphanLaunch, PodmanCreates, NewBox, KindOf, Runtime, WithVolume,
        TokenSettled, Known, BoxIsKnown, TokenWritten, Managed, Personal,
        OnPath, Selection, Fresh, BeforeLaunch, PCs, LockedPCs, Box
  <1>12. ASSUME AbortInterrupted(p) \/ WaitForServer(p) \/ ServerReady(p)
        PROVE  TokenSettled'
    BY <1>12
    DEF AbortInterrupted, Abort, WaitForServer, ServerReady, Running,
        TokenSettled, Known, BoxIsKnown, TokenWritten, Managed, Personal,
        OnPath, Selection, Fresh, BeforeLaunch, PCs, LockedPCs, Box
  <1>13. ASSUME ReadinessFails(p) \/ ReportReady(p)
        PROVE  TokenSettled'
    BY <1>13
    DEF ReadinessFails, ReportReady, TokenSettled, Known, BoxIsKnown,
        TokenWritten, Managed, Personal, OnPath, Selection, Fresh,
        BeforeLaunch, PCs, LockedPCs, Box
  <1>14. ASSUME ClientExits(p) \/ ForegroundExits(p)
        PROVE  TokenSettled'
    BY <1>14
    DEF ClientExits, ForegroundExits, TokenSettled, Known, BoxIsKnown,
        TokenWritten, Managed, Personal, OnPath, Selection, Fresh,
        BeforeLaunch, PCs, LockedPCs, Box
  <1>15. ASSUME StopIgnore(p)
        PROVE  TokenSettled'
    BY <1>15
    DEF StopIgnore, Stops, Exited, TokenSettled, Known, BoxIsKnown,
        TokenWritten, Managed, Personal, OnPath, Selection, Fresh,
        BeforeLaunch, PCs, LockedPCs, Box
  <1>16. ASSUME ContainerRemoved(p)
        PROVE  TokenSettled'
    BY <1>16, RemovedCases
    DEF TokenSettled, Known, BoxIsKnown, TokenWritten, Managed, Personal,
        OnPath, Selection, Fresh, BeforeLaunch, PCs, LockedPCs, Box
  <1>17. ASSUME ContainerRemains(p)
        PROVE  TokenSettled'
    BY <1>17
    DEF ContainerRemains, TokenSettled, Known, BoxIsKnown, TokenWritten,
        Managed, Personal, OnPath, Selection, Fresh, BeforeLaunch, PCs,
        LockedPCs, Box
  <1>18. ASSUME RemoveToken(p) \/ RemoveVolume(p)
        PROVE  TokenSettled'
    BY <1>18
    DEF RemoveToken, RemoveVolume, TokenSettled, Known, BoxIsKnown,
        TokenWritten, Managed, Personal, OnPath, Selection, Fresh,
        BeforeLaunch, PCs, LockedPCs, Box
  <1>19. ASSUME Interrupt(p)
        PROVE  TokenSettled'
    BY <1>19
    DEF Interrupt, TokenSettled, Known, BoxIsKnown, TokenWritten, Managed,
        Personal, OnPath, Selection, Fresh, BeforeLaunch, PCs, LockedPCs, Box
  <1>20. ASSUME Kill(p)
        PROVE  TokenSettled'
    BY <1>20
    DEF Kill, TokenSettled, Known, BoxIsKnown, TokenWritten, Managed,
        Personal, OnPath, Selection, Fresh, BeforeLaunch, PCs, LockedPCs, Box
  <1>21. QED
    BY <1>1, <1>2, <1>3, <1>4, <1>5, <1>6, <1>7, <1>8, <1>9, <1>10, <1>11,
       <1>12, <1>13, <1>14, <1>15, <1>16, <1>17, <1>18, <1>19, <1>20
    DEF StepOf, Command, Work, ClientEnds

\* The environment's steps keep what the commands know, and the tokens.
LEMMA EnvironmentQuiet ==
    ASSUME QuietInv, ServerExits \/ Reap
    PROVE  QuietInv'
  <1>1. TypeOK /\ LifeInv'
    BY EnvironmentInv DEF QuietInv, LifeInv
  <1>2. ASSUME NEW p \in Procs PROVE Known(p)'
    <2>1. /\ UNCHANGED <<holders, volume, tokenFile, pc, locals>>
          /\ Op(p)' = Op(p)
      BY <1>1, EnvironmentKeeps DEF Op, locals
    <2>2. BoxIsKnown(p)'
      BY <1>1, <2>1, EnvironmentKeeps
      DEF QuietInv, BoxIsKnown, Managed, MadeBy, locals
    <2>3. (VolumeIsKnown(p) /\ TokenWritten(p))'
      BY <2>1 DEF QuietInv, VolumeIsKnown, TokenWritten, locals
    <2>4. QED
      BY <2>2, <2>3 DEF Known
  <1>3. TokenSettled'
    <2> SUFFICES ASSUME Managed(box'), box'.runtime = "codex"
                 PROVE  \/ tokenFile' = box'.by
                        \/ \E q \in Procs :
                              /\ Op(q)' = "restart" /\ MadeBy(seen'[q], box'.by)
                              /\ tokenFile' \in {Empty, q}
      BY DEF TokenSettled, Managed, MadeBy
    <2>1. /\ Managed(box) /\ box.runtime = "codex" /\ box'.by = box.by
          /\ tokenFile' = tokenFile /\ seen' = seen /\ job' = job
      BY <1>1, EnvironmentKeeps DEF Managed, locals
    <2>2. \A q \in Procs : Op(q)' = Op(q)
      BY <2>1 DEF Op
    <2>3. QED
      BY <2>1, <2>2 DEF QuietInv, TokenSettled
  <1>4. QED
    BY <1>1, <1>2, <1>3 DEF QuietInv, Known

\* It holds initially.
LEMMA InitQuietInv == Init => QuietInv
  <1> SUFFICES ASSUME Init PROVE QuietInv
    OBVIOUS
  <1>1. LifeInv
    BY InitLifeInv
  <1>2. PICK l \in Leftovers :
           box = l.box /\ volume = l.volume /\ tokenFile = l.token
    BY DEF Init
  <1>3. Managed(box) /\ box.runtime = "codex" => tokenFile = box.by
    BY <1>2 DEF Leftovers, EarlierBox, Managed, Runtimes
  <1>4. ASSUME NEW p \in Procs PROVE Known(p)
    BY DEF Init, Known, BoxIsKnown, VolumeIsKnown, TokenWritten, Op
  <1>5. QED
    BY <1>1, <1>3, <1>4 DEF QuietInv, Known, TokenSettled

\* Every step preserves it from a state without orphans.
LEMMA StepQuietInv == QuietInv /\ NoOrphans /\ [Next]_vars => QuietInv'
  <1> SUFFICES ASSUME QuietInv, NoOrphans, [Next]_vars PROVE QuietInv'
    OBVIOUS
  <1>1. ASSUME NEW p \in Procs, StepOf(p) PROVE QuietInv'
    <2>1. LifeInv'
      BY <1>1, CommandInv DEF QuietInv
    <2>2. ASSUME NEW q \in Procs PROVE Known(q)'
      BY <1>1, OthersKnow, StepOwnKnown
    <2>3. QED
      BY <1>1, <2>1, <2>2, StepToken DEF QuietInv, Known
  <1>2. CASE ServerExits \/ Reap
    BY <1>2, EnvironmentQuiet
  <1>3. CASE UNCHANGED vars
    <2>1. LifeInv'
      BY StepLifeInv DEF QuietInv
    <2>2. TokenSettled'
      BY <1>3 DEF vars, shared, locals, QuietInv, TokenSettled, Managed,
         MadeBy, Op
    <2>3. ASSUME NEW p \in Procs PROVE Known(p)'
      BY <1>3 DEF vars, shared, locals, QuietInv, Known, BoxIsKnown,
         VolumeIsKnown, TokenWritten, Managed, MadeBy, Op
    <2>4. QED
      BY <2>1, <2>2, <2>3 DEF QuietInv, Known
  <1>4. QED
    BY <1>1, <1>2, <1>3 DEF Next, StepOf, Terminated

\* While no podman run outlives its command, every command knows the
\* container, the volume and the token it works on.
THEOREM QuietInvCorrect == Spec /\ []NoOrphans => []QuietInv
  BY InitQuietInv, StepQuietInv, PTL DEF Spec

\* While no podman run outlives its command, only a restart of that very
\* session separates a managed Codex session from its token.
THEOREM TokenSettledCorrect == Spec /\ []NoOrphans => []TokenSettled
  <1>1. QuietInv => TokenSettled
    BY DEF QuietInv
  <1>2. QED
    BY <1>1, QuietInvCorrect, PTL

\* No podman run outlives its command if no command is killed.
THEOREM NoOrphansWithoutKills ==
    ASSUME Killable = {}
    PROVE  Spec => []NoOrphans
  <1>1. Init => NoOrphans
    BY DEF Init, NoOrphans
  <1>2. LifeInv /\ NoOrphans /\ [Next]_vars => NoOrphans'
    <2> SUFFICES ASSUME LifeInv, NoOrphans, [Next]_vars PROVE NoOrphans'
      OBVIOUS
    <2>1. ASSUME NEW p \in Procs, StepOf(p) PROVE pc'[p] # "orphan"
      BY <2>1, RemovedCases
      DEF StepOf, Command, Work, ClientEnds, Invoke, ResolveStableId,
          ResolveAll, AcquireLock, DiscoverForLaunch, DiscoverForRestart,
          DiscoverForStop, DiscoverForConnect, TruncateToken, WriteToken,
          RecordVolume, PreparationFails, RunDetached, RunDetachedFails,
          RunForeground, AbortInterrupted, Abort, WaitForServer, ServerReady,
          ReadinessFails, ReportReady, StopIgnore, ContainerRemains,
          RemoveToken, RemoveVolume, ClientExits, ForegroundExits, Interrupt,
          Kill, OrphanLaunch, Finish, Step, Goto, LifeInv, TypeOK, NoOrphans
    <2>2. ASSUME NEW p \in Procs, StepOf(p) PROVE NoOrphans'
      BY <2>1, <2>2, StepFootprint DEF Footprint, NoOrphans
    <2>3. CASE ServerExits \/ Reap \/ UNCHANGED vars
      BY <2>3, EnvironmentKeeps DEF NoOrphans, LifeInv, vars
    <2>4. QED
      BY <2>2, <2>3 DEF Next, StepOf, Terminated
  <1>3. QED
    BY <1>1, <1>2, LifeInvCorrect, PTL DEF Spec

-----------------------------------------------------------------------------
(* Action properties. *)

\* While no podman run outlives its command, only stop and restart end a
\* managed session that another command started: the interrupted start or
\* the failed run that stops a container by its name never hits one.
THEOREM SessionsAreSafeCorrect == Spec /\ []NoOrphans => SessionsAreSafe
  <1>1. ASSUME QuietInv, NEW p \in Procs, Ends(p), Managed(box)
        PROVE  MadeBy(box, p) \/ Op(p) \in {"stop", "restart"}
    BY <1>1 DEF QuietInv, LifeInv, TypeOK, Personal, OnPath, BoxIsKnown, Ends,
       Servers, LockedPCs, PCs
  <1>2. QuietInv =>
          \A p \in Procs : Ends(p) /\ Managed(box) =>
              MadeBy(box, p) \/ Op(p) \in {"stop", "restart"}
    BY <1>1
  <1>3. QED
    BY <1>2, QuietInvCorrect, PTL DEF SessionsAreSafe

\* The step that leaves "stop" for "verify" is the command's stop_ignore.
LEMMA EndsByStop ==
    ASSUME LifeInv, NEW p \in Procs, Ends(p), [Next]_vars
    PROVE  Stops /\ box # None
  <1>1. pc'[p] # pc[p]
    BY DEF Ends
  <1>2. PICK q \in Procs : StepOf(q)
    BY <1>1, EnvironmentKeeps DEF Next, StepOf, Terminated, vars, LifeInv
  <1>3. q = p
    BY <1>1, <1>2, StepFootprint DEF Footprint
  <1>4. StopIgnore(p)
    BY <1>2, <1>3, RemovedCases
    DEF Ends, StepOf, Command, Work, ClientEnds, Invoke, ResolveStableId,
        ResolveAll, AcquireLock, DiscoverForLaunch, DiscoverForRestart,
        DiscoverForStop, DiscoverForConnect, TruncateToken, WriteToken,
        RecordVolume, PreparationFails, RunDetached, RunDetachedFails,
        RunForeground, AbortInterrupted, WaitForServer, ServerReady,
        ReadinessFails, ReportReady, ContainerRemains, RemoveToken,
        RemoveVolume, ClientExits, ForegroundExits, Interrupt, Kill,
        OrphanLaunch, Is, Finish, Goto, LifeInv, TypeOK
  <1>5. QED
    BY <1>4 DEF StopIgnore, Stops, Ends

\* While no podman run outlives its command, a restart, a stop of a
\* directory and a stop --all end the container they discovered under the
\* lock.
THEOREM EndsWhatItFoundCorrect == Spec /\ []NoOrphans => EndsWhatItFound
  <1>1. ASSUME QuietInv, [Next]_vars, NEW p \in Procs, Ends(p),
               Op(p) = "restart" \/ (Op(p) = "stop" /\ job[p].sel # "id")
        PROVE  MadeBy(seen[p], box.by)
    <2>1. box # None
      BY <1>1, EndsByStop DEF QuietInv
    <2>2. QED
      BY <1>1, <2>1 DEF QuietInv, BoxIsKnown, Ends
  <1>2. QuietInv /\ [Next]_vars =>
          \A p \in Procs :
              Ends(p) /\ (Op(p) = "restart" \/ (Op(p) = "stop" /\ job[p].sel # "id"))
              => MadeBy(seen[p], box.by)
    BY <1>1
  <1>3. QED
    BY <1>2, QuietInvCorrect, PTL DEF Spec, EndsWhatItFound

\* While no podman run outlives its command, a cache volume is removed only
\* by the start that created it, in its clean-up.
THEOREM VolumeIsPreservedCorrect == Spec /\ []NoOrphans => VolumeIsPreserved
  <1>1. ASSUME QuietInv, [Next]_vars, volume' # volume, volume # None
        PROVE  /\ volume' = None
               /\ volume \in Procs /\ pc[volume] = "volume_rm"
    <2>1. PICK p \in Procs : StepOf(p)
      BY <1>1, EnvironmentKeeps
      DEF Next, StepOf, Terminated, vars, shared, QuietInv, LifeInv
    <2>2. volume' = None /\ pc[p] = "volume_rm"
      BY <1>1, <2>1, StepFootprint DEF Footprint, QuietInv
    <2>3. Personal(p) /\ VolumeIsKnown(p)
      BY <1>1 DEF QuietInv, LifeInv
    <2>4. Op(p) = "start" /\ ~volumeBefore[p]
      BY <2>2, <2>3 DEF Personal, OnPath, VolumeKept
    <2>5. volume = p
      BY <1>1, <2>2, <2>3, <2>4 DEF VolumeIsKnown
    <2>6. QED
      BY <2>2, <2>5
  <1>2. QED
    BY <1>1, QuietInvCorrect, PTL DEF Spec, VolumeIsPreserved
=============================================================================
