---------------------------- MODULE WorkspaceLock ----------------------------
(***************************************************************************)
(* src/lock.rs: the advisory lock of one workspace.                        *)
(*                                                                         *)
(* A lifecycle command opens $STATE/locks/<digest>.lock (creating it),     *)
(* takes an exclusive flock(2) on the open file, and then checks that the  *)
(* file it locked is still the one at the path.  `agentbox clean` lists    *)
(* the lock files, probes each with a non-blocking lock, asks the user,    *)
(* and then opens, try-locks and unlinks the ones it planned to remove.    *)
(* Every command is a process of its own; nothing else coordinates them.   *)
(*                                                                         *)
(* Files are inodes.  An inode that is neither linked nor open may be      *)
(* reused by the file system for a new file, as ext4 and tmpfs do.         *)
(***************************************************************************)

CONSTANTS
    Lockers,    \* invocations of lifecycle commands on this workspace
    Cleaners,   \* concurrent invocations of `agentbox clean`
    Inodes,     \* what (dev, ino) can identify
    None        \* no file, no owner

Procs == Lockers \cup Cleaners

ASSUME ProcsAssumption ==
    /\ Lockers \cap Cleaners = {}
    /\ None \notin Procs
    /\ None \notin Inodes

VARIABLES
    path,       \* the inode linked at <digest>.lock, or None
    fd,         \* the inode each process has open, or None
    owner,      \* the process that holds the exclusive flock on each inode
    pc          \* where each process is

vars == <<path, fd, owner, pc>>

LockerPC == {"idle", "opened", "locked", "holding"}
CleanerPC == {"idle", "scan_opened", "scan_locked", "planned",
              "rm_opened", "rm_locked", "rm_done"}

\* Where a process has the lock file open, and where it holds its flock.
OpenPC == {"opened", "locked", "holding", "scan_opened", "scan_locked",
           "rm_opened", "rm_locked", "rm_done"}
LockedPC == {"locked", "holding", "scan_locked", "rm_locked", "rm_done"}

Init ==
    /\ path \in {None} \cup Inodes      \* an earlier command may have left it
    /\ fd = [p \in Procs |-> None]
    /\ owner = [i \in Inodes |-> None]
    /\ pc = [p \in Procs |-> "idle"]

(***************************************************************************)
(* The file system, as lock.rs uses it.                                    *)
(***************************************************************************)

\* An inode number the file system may hand out: not linked and not open.
Fresh(i) ==
    /\ i # path
    /\ \A p \in Procs : fd[p] # i

\* Dropping the File closes the only descriptor of its open file
\* description, which releases the flock it carries.
Close(p) ==
    /\ fd' = [fd EXCEPT ![p] = None]
    /\ owner' = [i \in Inodes |-> IF owner[i] = p THEN None ELSE owner[i]]

\* flock(LOCK_EX) granted to p on its open file.
Grant(p) ==
    /\ owner[fd[p]] = None
    /\ owner' = [owner EXCEPT ![fd[p]] = p]

Goto(p, from, to) ==
    /\ pc[p] = from
    /\ pc' = [pc EXCEPT ![p] = to]

(***************************************************************************)
(* A lifecycle command: lock_digest, then guard.                           *)
(***************************************************************************)

\* Mutant: every acquisition links a lock file of its own.
OpenLockFileReplaces(p) ==
    /\ Goto(p, "idle", "opened")
    /\ \E i \in Inodes :
          /\ Fresh(i)
          /\ fd' = [fd EXCEPT ![p] = i]
          /\ path' = i
    /\ UNCHANGED owner

\* open(O_CREAT) opens the file at the path or links a new one there.
OpenLockFile(p) ==
    /\ Goto(p, "idle", "opened")
    /\ \/ /\ path # None
          /\ fd' = [fd EXCEPT ![p] = path]
          /\ path' = path
       \/ /\ path = None
          /\ \E i \in Inodes :
                /\ Fresh(i)
                /\ fd' = [fd EXCEPT ![p] = i]
                /\ path' = i
    /\ UNCHANGED owner

\* The blocking self.lock.write().
Write(p) ==
    /\ Goto(p, "opened", "locked")
    /\ Grant(p)
    /\ UNCHANGED <<path, fd>>

\* Mutant: no check that the locked file is still at the path.
LockFileStillAtPathSkipped(p) == TRUE

LockFileStillAtPath(p) == path # None /\ path = fd[p]

GuardReady(p) ==
    /\ LockFileStillAtPath(p)
    /\ Goto(p, "locked", "holding")
    /\ UNCHANGED <<path, fd, owner>>

\* Mutant: the error returns with the file still locked.
GuardChangedLeaked(p) ==
    /\ ~LockFileStillAtPath(p)
    /\ Goto(p, "locked", "idle")
    /\ fd' = [fd EXCEPT ![p] = None]
    /\ UNCHANGED <<path, owner>>

\* "workspace lock file changed while acquiring it; retry the command"
GuardChanged(p) ==
    /\ ~LockFileStillAtPath(p)
    /\ Goto(p, "locked", "idle")
    /\ Close(p)
    /\ UNCHANGED path

DropGuard(p) ==
    /\ Goto(p, "holding", "idle")
    /\ Close(p)
    /\ UNCHANGED path

\* The process is killed, or flock fails, at any point: the kernel closes
\* its files.
Die(p) ==
    /\ pc[p] # "idle"
    /\ pc' = [pc EXCEPT ![p] = "idle"]
    /\ Close(p)
    /\ UNCHANGED path

LockerNext(p) ==
    \/ OpenLockFile(p)
    \/ Write(p)
    \/ GuardReady(p)
    \/ GuardChanged(p)
    \/ DropGuard(p)

(***************************************************************************)
(* `agentbox clean`: the inventory's probe, then the removal.              *)
(***************************************************************************)

\* cleanup_lock_files: a missing file is not listed.
ScanOpen(c) ==
    /\ path # None
    /\ Goto(c, "idle", "scan_opened")
    /\ fd' = [fd EXCEPT ![c] = path]
    /\ UNCHANGED <<path, owner>>

\* Available: the file becomes a candidate of the plan.
ScanAvailable(c) ==
    /\ Goto(c, "scan_opened", "scan_locked")
    /\ Grant(c)
    /\ UNCHANGED <<path, fd>>

\* Locked: reported as skipped.
ScanLocked(c) ==
    /\ Goto(c, "scan_opened", "idle")
    /\ owner[fd[c]] # None
    /\ Close(c)
    /\ UNCHANGED path

\* Mutant: the guard goes, the file stays open.
ScanDropLeaked(c) ==
    /\ Goto(c, "scan_locked", "planned")
    /\ owner' = [i \in Inodes |-> IF owner[i] = c THEN None ELSE owner[i]]
    /\ UNCHANGED <<path, fd>>

\* The probe's guard and file are dropped as the status is returned; the
\* plan is shown and the user may take any time to confirm it.
ScanDrop(c) ==
    /\ Goto(c, "scan_locked", "planned")
    /\ Close(c)
    /\ UNCHANGED path

\* open_existing_workspace_lock_file in remove_cleanup_lock_file.
RemoveOpen(c) ==
    /\ path # None
    /\ Goto(c, "planned", "rm_opened")
    /\ fd' = [fd EXCEPT ![c] = path]
    /\ UNCHANGED <<path, owner>>

\* The file is Missing, or the user declines.
RemoveNothing(c) ==
    /\ Goto(c, "planned", "idle")
    /\ UNCHANGED <<path, fd, owner>>

\* Mutant: unlinks without asking whether anyone holds the file.
RemoveTryWriteUnchecked(c) ==
    /\ Goto(c, "rm_opened", "rm_locked")
    /\ UNCHANGED <<path, fd, owner>>

RemoveTryWrite(c) ==
    /\ Goto(c, "rm_opened", "rm_locked")
    /\ Grant(c)
    /\ UNCHANGED <<path, fd>>

RemoveLocked(c) ==
    /\ Goto(c, "rm_opened", "idle")
    /\ owner[fd[c]] # None
    /\ Close(c)
    /\ UNCHANGED path

\* remove_file names the path, not the open file: whatever is linked there
\* now is unlinked.  NotFound is Missing, and leaves the path as it is.
Unlink(c) ==
    /\ Goto(c, "rm_locked", "rm_done")
    /\ path' = None
    /\ UNCHANGED <<fd, owner>>

RemoveDrop(c) ==
    /\ Goto(c, "rm_done", "idle")
    /\ Close(c)
    /\ UNCHANGED path

CleanerNext(c) ==
    \/ ScanOpen(c)
    \/ ScanAvailable(c)
    \/ ScanLocked(c)
    \/ ScanDrop(c)
    \/ RemoveOpen(c)
    \/ RemoveNothing(c)
    \/ RemoveTryWrite(c)
    \/ RemoveLocked(c)
    \/ Unlink(c)
    \/ RemoveDrop(c)

Next ==
    \/ \E p \in Lockers : LockerNext(p)
    \/ \E c \in Cleaners : CleanerNext(c)
    \/ \E p \in Procs : Die(p)

Spec == Init /\ [][Next]_vars

(***************************************************************************)
(* Fairness: a process that is not waiting for its user takes its next     *)
(* step; a command that holds the lock ends; and flock(2), which queues    *)
(* its waiters in order, does not pass over a waiter for ever.  Starting a *)
(* command, opening a planned removal (the user's confirmation) and dying  *)
(* are not fair.                                                           *)
(***************************************************************************)
LockerFairness(p) ==
    /\ SF_vars(Write(p))
    /\ WF_vars(GuardReady(p))
    /\ WF_vars(GuardChanged(p))
    /\ WF_vars(DropGuard(p))

CleanerFairness(c) ==
    /\ WF_vars(ScanAvailable(c) \/ ScanLocked(c))
    /\ WF_vars(ScanDrop(c))
    /\ WF_vars(RemoveTryWrite(c) \/ RemoveLocked(c))
    /\ WF_vars(Unlink(c))
    /\ WF_vars(RemoveDrop(c))

FairSpec ==
    /\ Spec
    /\ \A p \in Lockers : LockerFairness(p)
    /\ \A c \in Cleaners : CleanerFairness(c)

-----------------------------------------------------------------------------
(***************************************************************************)
(* Properties                                                              *)
(***************************************************************************)

\* The state is well typed, and a process has a file open exactly between
\* its open and the drop of the File: no path through guard, the probe or
\* the removal leaks a descriptor (and, with it, a lock).
TypeOK ==
    /\ path \in Inodes \cup {None}
    /\ fd \in [Procs -> Inodes \cup {None}]
    /\ owner \in [Inodes -> Procs \cup {None}]
    /\ pc \in [Procs -> LockerPC \cup CleanerPC]
    /\ \A p \in Lockers : pc[p] \in LockerPC
    /\ \A c \in Cleaners : pc[c] \in CleanerPC
    /\ \A p \in Procs : fd[p] # None <=> pc[p] \in OpenPC

\* A flock belongs to the process that locked the file it has open.
FlockOwnership ==
    /\ \A i \in Inodes : owner[i] # None =>
          fd[owner[i]] = i /\ pc[owner[i]] \in LockedPC
    /\ \A p \in Procs : pc[p] \in LockedPC => owner[fd[p]] = p

Holding == {p \in Lockers : pc[p] = "holding"}

\* lock.rs's purpose: two lifecycle commands of one workspace never both
\* hold a guard, whatever `clean` does to the lock file meanwhile.
MutualExclusion == \A p, q \in Holding : p = q

\* A command never goes on holding a lock file that is no longer at the
\* path (the next command would create and lock another one).
HolderIsLinked == \A p \in Holding : path = fd[p]

\* A removal in progress still names the file it opened.
RemovalIsCurrent ==
    \A c \in Cleaners : pc[c] \in {"rm_opened", "rm_locked"} => path = fd[c]

\* The inductive invariant of WorkspaceLock_proofs.
LockInv == TypeOK /\ FlockOwnership /\ HolderIsLinked /\ RemovalIsCurrent

\* The lock file protocol implements the abstract lock.
Mutex == INSTANCE WorkspaceMutex WITH holders <- Holding

ImplementsMutex == Mutex!Spec

\* A command that opened the lock file gets the guard or an error: it does
\* not wait for ever behind other commands or behind `clean`.
AcquireReturns ==
    \A p \in Lockers : pc[p] = "opened" ~> pc[p] \in {"holding", "idle"}
=============================================================================
