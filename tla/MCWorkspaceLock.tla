--------------------------- MODULE MCWorkspaceLock ---------------------------
(* Instances of WorkspaceLock for TLC. *)
EXTENDS WorkspaceLock, Naturals, FiniteSets

\* One inode for every file a process can keep open, and one more.
ASSUME EnoughInodes == Cardinality(Inodes) > Cardinality(Procs)
=============================================================================
