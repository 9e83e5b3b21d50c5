--------------------------- MODULE WorkspaceMutex ---------------------------
(***************************************************************************)
(* What the workspace lock promises to the lifecycle commands: for one     *)
(* workspace, at most one command is between a successful                  *)
(* WorkspaceLock::guard and the drop of its guard.  WorkspaceLock shows    *)
(* how lock.rs implements it with a lock file, and Lifecycle builds on it. *)
(***************************************************************************)

CONSTANT Lockers        \* the command processes that take the lock

VARIABLE holders        \* the commands that hold a guard

Init == holders = {}

Acquire(p) ==
    /\ holders = {}
    /\ holders' = {p}

\* The guard is dropped at the end of the command or by the kernel when the
\* process dies.
Release(p) ==
    /\ p \in holders
    /\ holders' = holders \ {p}

Next == \E p \in Lockers : Acquire(p) \/ Release(p)

Spec == Init /\ [][Next]_holders
=============================================================================
