------------------------ MODULE WorkspaceLock_proofs ------------------------
(***************************************************************************)
(* Proofs about WorkspaceLock, for any set of commands and any number of   *)
(* inodes.  What a lock's owner is holds with any number of cleaners;      *)
(* mutual exclusion is proved for at most one concurrent `clean` (with two *)
(* it is false, see the run lock_two_cleaners).                            *)
(***************************************************************************)
EXTENDS WorkspaceLock, TLAPS

\* No two `clean` invocations overlap on this lock directory.
AtMostOneCleaner == \A c, d \in Cleaners : c = d

-----------------------------------------------------------------------------
(* Types and descriptors. *)

\* The initial states are well typed.
LEMMA InitTypeOK == Init => TypeOK
  BY ProcsAssumption DEF Init, TypeOK, Procs, LockerPC, CleanerPC, OpenPC

\* Closing p's file keeps the types and leaves p with no file open.
LEMMA CloseType ==
    ASSUME TypeOK, NEW p \in Procs, Close(p)
    PROVE  /\ fd' \in [Procs -> Inodes \cup {None}]
           /\ owner' \in [Inodes -> Procs \cup {None}]
           /\ fd'[p] = None
           /\ \A q \in Procs : q # p => fd'[q] = fd[q]
  BY DEF TypeOK, Close

\* The steps of a lifecycle command preserve the type invariant.
LEMMA LockerStepType ==
    ASSUME TypeOK, NEW p \in Lockers, LockerNext(p)
    PROVE  TypeOK'
  <1> p \in Procs /\ p \notin Cleaners
    BY ProcsAssumption DEF Procs
  <1> USE ProcsAssumption DEF TypeOK, LockerPC, CleanerPC, OpenPC, Goto
  <1>1. CASE OpenLockFile(p)
    BY <1>1 DEF OpenLockFile, Procs
  <1>2. CASE Write(p)
    BY <1>2 DEF Write, Grant, Procs
  <1>3. CASE GuardReady(p)
    BY <1>3 DEF GuardReady, Procs
  <1>4. CASE GuardChanged(p)
    BY <1>4, CloseType DEF GuardChanged, Procs
  <1>5. CASE DropGuard(p)
    BY <1>5, CloseType DEF DropGuard, Procs
  <1>6. QED
    BY <1>1, <1>2, <1>3, <1>4, <1>5 DEF LockerNext

\* The steps of `clean` preserve the type invariant.
LEMMA CleanerStepType ==
    ASSUME TypeOK, NEW c \in Cleaners, CleanerNext(c)
    PROVE  TypeOK'
  <1> c \in Procs /\ c \notin Lockers
    BY ProcsAssumption DEF Procs
  <1> USE ProcsAssumption DEF TypeOK, LockerPC, CleanerPC, OpenPC, Goto
  <1>1. CASE ScanOpen(c)
    BY <1>1 DEF ScanOpen, Procs
  <1>2. CASE ScanAvailable(c)
    BY <1>2 DEF ScanAvailable, Grant, Procs
  <1>3. CASE ScanLocked(c)
    BY <1>3, CloseType DEF ScanLocked, Procs
  <1>4. CASE ScanDrop(c)
    BY <1>4, CloseType DEF ScanDrop, Procs
  <1>5. CASE RemoveOpen(c)
    BY <1>5 DEF RemoveOpen, Procs
  <1>6. CASE RemoveNothing(c)
    BY <1>6 DEF RemoveNothing, Procs
  <1>7. CASE RemoveTryWrite(c)
    BY <1>7 DEF RemoveTryWrite, Grant, Procs
  <1>8. CASE RemoveLocked(c)
    BY <1>8, CloseType DEF RemoveLocked, Procs
  <1>9. CASE Unlink(c)
    BY <1>9 DEF Unlink, Procs
  <1>10. CASE RemoveDrop(c)
    BY <1>10, CloseType DEF RemoveDrop, Procs
  <1>11. QED
    BY <1>1, <1>2, <1>3, <1>4, <1>5, <1>6, <1>7, <1>8, <1>9, <1>10
    DEF CleanerNext

\* A process that dies leaves a well-typed state.
LEMMA DieType ==
    ASSUME TypeOK, NEW p \in Procs, Die(p)
    PROVE  TypeOK'
  BY CloseType, ProcsAssumption
  DEF Die, TypeOK, LockerPC, CleanerPC, OpenPC, Procs

\* Every step preserves the type invariant.
LEMMA StepTypeOK == TypeOK /\ [Next]_vars => TypeOK'
  <1> SUFFICES ASSUME TypeOK, [Next]_vars PROVE TypeOK'
    OBVIOUS
  <1>1. CASE Next
    BY <1>1, LockerStepType, CleanerStepType, DieType DEF Next
  <1>2. CASE UNCHANGED vars
    BY <1>2 DEF vars, TypeOK
  <1>3. QED
    BY <1>1, <1>2

\* Every reachable state is well typed and no step leaks a descriptor, with
\* any number of commands and cleaners.
THEOREM TypeCorrect == Spec => []TypeOK
  BY InitTypeOK, StepTypeOK, PTL DEF Spec

-----------------------------------------------------------------------------
(* Who owns a flock. *)

\* A process that closes its file and goes where no lock is held leaves
\* every other flock with its owner.
LEMMA CloseOwnership ==
    ASSUME TypeOK, FlockOwnership, NEW p \in Procs, Close(p),
           pc'[p] \notin LockedPC,
           \A q \in Procs : q # p => pc'[q] = pc[q]
    PROVE  FlockOwnership'
  <1>1. ASSUME NEW i \in Inodes, owner'[i] # None
        PROVE  fd'[owner'[i]] = i /\ pc'[owner'[i]] \in LockedPC
    <2>1. owner'[i] = owner[i] /\ owner[i] # p /\ owner[i] \in Procs
      BY <1>1 DEF Close, TypeOK
    <2>2. QED
      BY <2>1, <1>1, CloseType DEF FlockOwnership
  <1>2. ASSUME NEW q \in Procs, pc'[q] \in LockedPC
        PROVE  owner'[fd'[q]] = q
    <2>1. q # p /\ pc[q] \in LockedPC /\ fd'[q] = fd[q]
      BY <1>2, CloseType
    <2>2. owner[fd[q]] = q /\ fd[q] \in Inodes
      BY <2>1 DEF FlockOwnership, TypeOK, LockedPC, OpenPC
    <2>3. QED
      BY <2>1, <2>2 DEF Close
  <1>3. QED
    BY <1>1, <1>2 DEF FlockOwnership

\* A granted flock belongs to the process that has the file open.
LEMMA GrantOwnership ==
    ASSUME TypeOK, FlockOwnership, NEW p \in Procs, Grant(p), fd' = fd,
           pc[p] \in OpenPC \ LockedPC,
           pc'[p] \in LockedPC,
           \A q \in Procs : q # p => pc'[q] = pc[q]
    PROVE  FlockOwnership'
  <1> fd[p] \in Inodes
    BY DEF TypeOK
  <1>1. ASSUME NEW i \in Inodes, owner'[i] # None
        PROVE  fd'[owner'[i]] = i /\ pc'[owner'[i]] \in LockedPC
    <2>1. CASE i = fd[p]
      BY <2>1 DEF Grant, TypeOK
    <2>2. CASE i # fd[p]
      <3>1. owner'[i] = owner[i] /\ owner[i] \in Procs
        BY <1>1, <2>2 DEF Grant, TypeOK
      <3>2. fd[owner[i]] = i /\ pc[owner[i]] \in LockedPC
        BY <1>1, <3>1 DEF FlockOwnership
      <3>3. owner[i] # p
        BY <3>2
      <3>4. QED
        BY <3>1, <3>2, <3>3
    <2>3. QED
      BY <2>1, <2>2
  <1>2. ASSUME NEW q \in Procs, pc'[q] \in LockedPC
        PROVE  owner'[fd'[q]] = q
    <2>1. CASE q = p
      BY <2>1 DEF Grant, TypeOK
    <2>2. CASE q # p
      <3>1. owner[fd[q]] = q /\ fd[q] \in Inodes
        BY <1>2, <2>2 DEF FlockOwnership, TypeOK, LockedPC, OpenPC
      <3>2. fd[q] # fd[p]
        BY <3>1, ProcsAssumption DEF Grant
      <3>3. QED
        BY <3>1, <3>2 DEF Grant, TypeOK
    <2>3. QED
      BY <2>1, <2>2
  <1>3. QED
    BY <1>1, <1>2 DEF FlockOwnership

\* A step of one process that neither takes nor drops a flock.
LEMMA KeepOwnership ==
    ASSUME TypeOK, FlockOwnership, NEW p \in Procs, owner' = owner,
           pc[p] \in LockedPC <=> pc'[p] \in LockedPC,
           pc[p] \in LockedPC => fd'[p] = fd[p],
           \A q \in Procs : q # p => pc'[q] = pc[q] /\ fd'[q] = fd[q]
    PROVE  FlockOwnership'
  BY DEF FlockOwnership, TypeOK

\* Every step keeps each flock with the process that took it.
LEMMA StepOwnership == TypeOK /\ FlockOwnership /\ [Next]_vars => FlockOwnership'
  <1> SUFFICES ASSUME TypeOK, FlockOwnership, [Next]_vars PROVE FlockOwnership'
    OBVIOUS
  <1>1. ASSUME NEW p \in Procs,
               \/ GuardChanged(p) \/ DropGuard(p) \/ Die(p) \/ ScanLocked(p)
               \/ ScanDrop(p) \/ RemoveLocked(p) \/ RemoveDrop(p)
        PROVE  FlockOwnership'
    <2>1. Close(p)
      BY <1>1 DEF GuardChanged, DropGuard, Die, ScanLocked, ScanDrop,
                  RemoveLocked, RemoveDrop
    <2>2. /\ pc'[p] \notin LockedPC
          /\ \A q \in Procs : q # p => pc'[q] = pc[q]
      BY <1>1 DEF GuardChanged, DropGuard, Die, ScanLocked, ScanDrop,
                  RemoveLocked, RemoveDrop, Goto, TypeOK, LockedPC
    <2>3. QED
      BY <2>1, <2>2, CloseOwnership
  <1>2. ASSUME NEW p \in Procs,
               Write(p) \/ ScanAvailable(p) \/ RemoveTryWrite(p)
        PROVE  FlockOwnership'
    <2>1. Grant(p) /\ fd' = fd
      BY <1>2 DEF Write, ScanAvailable, RemoveTryWrite
    <2>2. /\ pc[p] \in OpenPC \ LockedPC
          /\ pc'[p] \in LockedPC
          /\ \A q \in Procs : q # p => pc'[q] = pc[q]
      BY <1>2 DEF Write, ScanAvailable, RemoveTryWrite, Goto, TypeOK,
                  OpenPC, LockedPC
    <2>3. QED
      BY <2>1, <2>2, GrantOwnership
  <1>3. ASSUME NEW p \in Procs,
               \/ OpenLockFile(p) \/ GuardReady(p) \/ ScanOpen(p)
               \/ RemoveOpen(p) \/ RemoveNothing(p) \/ Unlink(p)
        PROVE  FlockOwnership'
    <2>1. /\ owner' = owner
          /\ pc[p] \in LockedPC <=> pc'[p] \in LockedPC
          /\ pc[p] \in LockedPC => fd'[p] = fd[p]
          /\ \A q \in Procs : q # p => pc'[q] = pc[q] /\ fd'[q] = fd[q]
      BY <1>3 DEF OpenLockFile, GuardReady, ScanOpen, RemoveOpen,
                  RemoveNothing, Unlink, Goto, TypeOK, LockedPC
    <2>2. QED
      BY <2>1, KeepOwnership
  <1>4. CASE UNCHANGED vars
    BY <1>4 DEF vars, FlockOwnership
  <1>5. QED
    BY <1>1, <1>2, <1>3, <1>4 DEF Next, LockerNext, CleanerNext, Procs

\* A flock is owned by the process that has the locked file open and is past
\* its lock call, with any number of commands and cleaners.
THEOREM OwnershipCorrect == Spec => []FlockOwnership
  <1>1. Init => FlockOwnership
    BY ProcsAssumption DEF Init, FlockOwnership, LockedPC
  <1>2. QED
    BY <1>1, TypeCorrect, StepOwnership, PTL DEF Spec

-----------------------------------------------------------------------------
(* With one cleaner, the linked file is the one a holder or a removal has. *)

\* No step makes a command go on with a lock file that left the path: only
\* Unlink clears the path, and its process owns the flock of the file there.
LEMMA StepHolder ==
    ASSUME LockInv, [Next]_vars
    PROVE  HolderIsLinked'
  <1> USE DEF LockInv
  <1> SUFFICES ASSUME NEW h \in Lockers, pc'[h] = "holding"
               PROVE  path' = fd'[h]
    BY DEF HolderIsLinked, Holding
  <1>1. ASSUME NEW p \in Lockers, OpenLockFile(p)
        PROVE  path' = fd'[h]
    <2>1. h # p /\ pc[h] = "holding"
      BY <1>1 DEF OpenLockFile, Goto, TypeOK, Procs
    <2>2. path = fd[h] /\ fd[h] # None
      BY <2>1 DEF HolderIsLinked, Holding, TypeOK, OpenPC, Procs
    <2>3. QED
      BY <1>1, <2>1, <2>2 DEF OpenLockFile, TypeOK, Procs
  <1>2. ASSUME NEW p \in Lockers, GuardReady(p)
        PROVE  path' = fd'[h]
    BY <1>2 DEF GuardReady, LockFileStillAtPath, Goto, HolderIsLinked,
                Holding, TypeOK, Procs
  <1>3. ASSUME NEW p \in Lockers, Write(p)
        PROVE  path' = fd'[h]
    BY <1>3 DEF Write, Goto, HolderIsLinked, Holding, TypeOK, Procs
  <1>4. ASSUME NEW p \in Procs,
               \/ GuardChanged(p) \/ DropGuard(p) \/ Die(p) \/ ScanLocked(p)
               \/ ScanDrop(p) \/ RemoveLocked(p) \/ RemoveDrop(p)
        PROVE  path' = fd'[h]
    <2>1. Close(p) /\ path' = path /\ pc'[p] # "holding"
          /\ \A q \in Procs : q # p => pc'[q] = pc[q]
      BY <1>4 DEF GuardChanged, DropGuard, Die, ScanLocked, ScanDrop,
                  RemoveLocked, RemoveDrop, Goto, TypeOK
    <2>2. h \in Procs /\ h # p /\ pc[h] = "holding"
      BY <2>1 DEF Procs
    <2>3. QED
      BY <2>1, <2>2, CloseType DEF HolderIsLinked, Holding
  <1>5. ASSUME NEW c \in Cleaners,
               \/ ScanOpen(c) \/ ScanAvailable(c) \/ RemoveOpen(c)
               \/ RemoveNothing(c) \/ RemoveTryWrite(c)
        PROVE  path' = fd'[h]
    <2>1. h # c /\ h \in Procs /\ c \in Procs
      BY ProcsAssumption DEF Procs
    <2>2. pc'[h] = pc[h] /\ fd'[h] = fd[h] /\ path' = path
      BY <1>5, <2>1 DEF ScanOpen, ScanAvailable, RemoveOpen, RemoveNothing,
                        RemoveTryWrite, Goto, TypeOK
    <2>3. QED
      BY <2>2 DEF HolderIsLinked, Holding
  <1>6. ASSUME NEW c \in Cleaners, Unlink(c)
        PROVE  path' = fd'[h]
    <2>1. h # c /\ h \in Procs /\ c \in Procs
      BY ProcsAssumption DEF Procs
    <2>2. pc[c] = "rm_locked" /\ pc[h] = "holding"
      BY <1>6, <2>1 DEF Unlink, Goto, TypeOK
    <2>3. path = fd[c] /\ path = fd[h]
      BY <2>2 DEF RemovalIsCurrent, HolderIsLinked, Holding
    <2>4. owner[fd[c]] = c /\ owner[fd[h]] = h
      BY <2>1, <2>2 DEF FlockOwnership, LockedPC
    <2>5. QED
      BY <2>1, <2>3, <2>4
  <1>7. CASE UNCHANGED vars
    BY <1>7 DEF vars, HolderIsLinked, Holding
  <1>8. QED
    BY <1>1, <1>2, <1>3, <1>4, <1>5, <1>6, <1>7
    DEF Next, LockerNext, CleanerNext, Procs

\* With a single cleaner the path of a file it has open for removal does
\* not change: a linked file is never replaced, only another cleaner unlinks.
LEMMA StepRemoval ==
    ASSUME AtMostOneCleaner, LockInv, [Next]_vars
    PROVE  RemovalIsCurrent'
  <1> USE DEF LockInv
  <1> SUFFICES ASSUME NEW d \in Cleaners,
                      pc'[d] \in {"rm_opened", "rm_locked"}
               PROVE  path' = fd'[d]
    BY DEF RemovalIsCurrent
  <1>0. d \in Procs /\ d \notin Lockers
    BY ProcsAssumption DEF Procs
  <1>1. ASSUME NEW p \in Lockers, LockerNext(p)
        PROVE  path' = fd'[d]
    <2>1. p \in Procs /\ p # d
      BY <1>0 DEF Procs
    <2>2. pc'[d] = pc[d] /\ fd'[d] = fd[d]
      BY <1>0, <1>1, <2>1, CloseType
      DEF LockerNext, OpenLockFile, Write, GuardReady, GuardChanged,
          DropGuard, Goto, TypeOK
    <2>3. path = fd[d] /\ fd[d] # None
      BY <1>0, <2>2 DEF RemovalIsCurrent, TypeOK, OpenPC
    <2>4. path' = path
      BY <1>1, <2>3 DEF LockerNext, OpenLockFile, Write, GuardReady,
                        GuardChanged, DropGuard
    <2>5. QED
      BY <2>2, <2>3, <2>4
  <1>2. ASSUME NEW c \in Cleaners, CleanerNext(c)
        PROVE  path' = fd'[d]
    <2>1. c = d
      BY DEF AtMostOneCleaner
    <2>2. \/ RemoveOpen(d)
          \/ RemoveTryWrite(d)
      BY <1>0, <1>2, <2>1 DEF CleanerNext, ScanOpen, ScanAvailable,
         ScanLocked, ScanDrop, RemoveNothing, RemoveLocked, Unlink,
         RemoveDrop, Goto, TypeOK
    <2>3. QED
      BY <1>0, <2>2 DEF RemoveOpen, RemoveTryWrite, Goto, RemovalIsCurrent,
                        TypeOK
  <1>3. ASSUME NEW p \in Procs, Die(p)
        PROVE  path' = fd'[d]
    <2>1. p # d
      BY <1>0, <1>3 DEF Die, TypeOK
    <2>2. pc'[d] = pc[d] /\ fd'[d] = fd[d] /\ path' = path
      BY <1>0, <1>3, <2>1, CloseType DEF Die, TypeOK
    <2>3. QED
      BY <2>2 DEF RemovalIsCurrent
  <1>4. CASE UNCHANGED vars
    BY <1>4 DEF vars, RemovalIsCurrent
  <1>5. QED
    BY <1>1, <1>2, <1>3, <1>4 DEF Next

\* The inductive invariant holds initially.
LEMMA InitLockInv == Init => LockInv
  <1> SUFFICES ASSUME Init PROVE LockInv
    OBVIOUS
  <1>1. FlockOwnership /\ HolderIsLinked /\ RemovalIsCurrent
    BY ProcsAssumption DEF Init, FlockOwnership, HolderIsLinked, Holding,
       RemovalIsCurrent, LockedPC, Procs
  <1>2. QED
    BY <1>1, InitTypeOK DEF LockInv

\* The inductive invariant is preserved by every step.
LEMMA StepLockInv ==
    ASSUME AtMostOneCleaner
    PROVE  LockInv /\ [Next]_vars => LockInv'
  BY StepTypeOK, StepOwnership, StepHolder, StepRemoval DEF LockInv

\* The inductive invariant holds in every reachable state, with at most one
\* `clean` at a time.
THEOREM LockInvCorrect ==
    ASSUME AtMostOneCleaner
    PROVE  Spec => []LockInv
  BY InitLockInv, StepLockInv, PTL DEF Spec

\* Two holders would own the flock of the one file at the path.
LEMMA LockInvExcludes == LockInv => MutualExclusion
  <1> SUFFICES ASSUME LockInv, NEW p \in Holding, NEW q \in Holding
               PROVE  p = q
    BY DEF MutualExclusion
  <1>1. fd[p] = fd[q]
    BY DEF LockInv, HolderIsLinked
  <1>2. owner[fd[p]] = p /\ owner[fd[q]] = q
    BY DEF LockInv, FlockOwnership, Holding, LockedPC, Procs
  <1>3. QED
    BY <1>1, <1>2

\* With at most one `clean` at a time, two commands never both hold the
\* workspace lock, for any number of commands.
THEOREM MutualExclusionCorrect ==
    ASSUME AtMostOneCleaner
    PROVE  Spec => []MutualExclusion
  BY LockInvCorrect, LockInvExcludes, PTL

\* With at most one `clean` at a time, the file a holder has locked stays
\* linked at the lock path.
THEOREM HolderIsLinkedCorrect ==
    ASSUME AtMostOneCleaner
    PROVE  Spec => []HolderIsLinked
  <1>1. LockInv => HolderIsLinked
    BY DEF LockInv
  <1>2. QED
    BY <1>1, LockInvCorrect, PTL

\* With at most one `clean` at a time, the lock file a `clean` is about to
\* unlink is the one at the path.
THEOREM RemovalIsCurrentCorrect ==
    ASSUME AtMostOneCleaner
    PROVE  Spec => []RemovalIsCurrent
  <1>1. LockInv => RemovalIsCurrent
    BY DEF LockInv
  <1>2. QED
    BY <1>1, LockInvCorrect, PTL

-----------------------------------------------------------------------------
(* Refinement. *)

\* Every step is a step of the abstract lock, or changes no holder.
LEMMA StepMutex ==
    ASSUME LockInv, [Next]_vars
    PROVE  [Mutex!Next]_Holding
  <1>1. ASSUME NEW p \in Lockers, GuardReady(p)
        PROVE  Mutex!Acquire(p)
    <2>1. Holding' = Holding \cup {p}
      BY <1>1 DEF GuardReady, Goto, Holding, LockInv, TypeOK, Procs
    <2>2. \A q \in Holding : q = p
      <3> SUFFICES ASSUME NEW q \in Holding PROVE q = p
        OBVIOUS
      <3>1. path = fd[p] /\ path = fd[q]
        BY <1>1 DEF GuardReady, LockFileStillAtPath, LockInv, HolderIsLinked
      <3>2. owner[fd[p]] = p /\ owner[fd[q]] = q
        BY <1>1 DEF GuardReady, Goto, LockInv, FlockOwnership, Holding,
                    LockedPC, Procs
      <3>3. QED
        BY <3>1, <3>2
    <2>3. p \notin Holding
      BY <1>1 DEF GuardReady, Goto, Holding
    <2>4. QED
      BY <2>1, <2>2, <2>3 DEF Mutex!Acquire
  <1>2. ASSUME NEW p \in Procs,
               \/ DropGuard(p) \/ Die(p)
        PROVE  \/ p \in Lockers /\ Mutex!Release(p)
               \/ UNCHANGED Holding
    <2>1. Holding' = Holding \ {p}
      BY <1>2 DEF DropGuard, Die, Goto, Holding, LockInv, TypeOK, Procs
    <2>2. QED
      BY <2>1 DEF Mutex!Release, Holding
  <1>3. ASSUME NEW p \in Lockers,
               OpenLockFile(p) \/ Write(p) \/ GuardChanged(p)
        PROVE  UNCHANGED Holding
    BY <1>3 DEF OpenLockFile, Write, GuardChanged, Goto, Holding, LockInv,
                TypeOK, Procs
  <1>4. ASSUME NEW c \in Cleaners, CleanerNext(c)
        PROVE  UNCHANGED Holding
    <2>1. \A q \in Lockers : pc'[q] = pc[q]
      BY <1>4, ProcsAssumption
      DEF CleanerNext, ScanOpen, ScanAvailable, ScanLocked, ScanDrop,
          RemoveOpen, RemoveNothing, RemoveTryWrite, RemoveLocked, Unlink,
          RemoveDrop, Goto, LockInv, TypeOK, Procs
    <2>2. QED
      BY <2>1 DEF Holding
  <1>5. CASE UNCHANGED vars
    BY <1>5 DEF vars, Holding
  <1>6. QED
    BY <1>1, <1>2, <1>3, <1>4, <1>5
    DEF Next, LockerNext, Procs, Mutex!Next

\* With at most one `clean` at a time, the lock file protocol implements the
\* abstract lock: every step of it is an acquisition with no holder, a
\* release, or invisible.
THEOREM LockImplementsMutex ==
    ASSUME AtMostOneCleaner
    PROVE  Spec => ImplementsMutex
  <1>1. Init => Mutex!Init
    BY DEF Init, Mutex!Init, Holding, Procs
  <1>2. QED
    BY <1>1, LockInvCorrect, StepMutex, PTL
    DEF Spec, ImplementsMutex, Mutex!Spec
=============================================================================
