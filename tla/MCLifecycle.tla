---------------------------- MODULE MCLifecycle ----------------------------
(***************************************************************************)
(* Command lines for the model checker.                                    *)
(***************************************************************************)
EXTENDS Lifecycle, TLC

Job(op, sel, runtime, connect) ==
    [op |-> op, sel |-> sel, runtime |-> runtime, connect |-> connect]

\* One command line per path through the code.
AllJobs ==
    {Job("start", "dir", r, FALSE) : r \in Runtimes}
    \cup {Job(op, "dir", "codex", FALSE) : op \in {"run", "exec", "connect"}}
    \cup {Job("restart", "id", "codex", TRUE), Job("restart", "dir", "codex", FALSE)}
    \cup {Job("stop", s, "codex", FALSE) : s \in {"dir", "id", "all"}}

\* Invocations are interchangeable (safety only).
ProcSymmetry == Permutations(Procs)
=============================================================================
