--------------------------- MODULE MCStopSessions ---------------------------
(***************************************************************************)
(* Two repositories, a container name for each and one more, and the       *)
(* containers that may be found there: healthy ones and one of each defect *)
(* that discovery treats in its own way.                                   *)
(***************************************************************************)
EXTENDS StopSessions

MCHashOf == [r \in {1, 2} |-> IF r = 1 THEN "h1" ELSE "h2"]
MCNameOf == [r \in {1, 2} |-> IF r = 1 THEN "n1" ELSE "n2"]

Good(n, r) == [Session(r) EXCEPT !.name = n, !.made = "earlier"]
One == Good("n1", 1)

AtOne ==
    {{}, {One},
     {[One EXCEPT !.kind = "run"]},
     {[One EXCEPT !.kind = "run", !.running = FALSE]},
     {[One EXCEPT !.hash = "h3"]},                      \* drifted
     {[One EXCEPT !.root = None]},
     {[One EXCEPT !.metadata = FALSE]},
     {[One EXCEPT !.args = FALSE]}}

AtTwo ==
    {{}, {Good("n2", 2)}, {[Good("n2", 2) EXCEPT !.hash = "h1"]}}

\* A container with a name of its own: a duplicate, one that cannot be
\* matched to a root, one without a hash, and somebody else's.
Extra ==
    {{}, {Good("x", 1)},
     {[Good("x", 1) EXCEPT !.root = None, !.hash = None]},
     {[Good("x", 1) EXCEPT !.hash = None, !.codex = FALSE]}}

\* Every pair, and every three with a healthy session in the first root.
MCLeftovers ==
    {a \cup b : a \in AtOne, b \in AtTwo \cup Extra}
    \cup {{One} \cup b \cup c : b \in AtTwo, c \in Extra}

Path(r) == [sel |-> "path", root |-> r, ids |-> {}]
Id(hs) == [sel |-> "id", root |-> None, ids |-> hs]
All == [sel |-> "all", root |-> None, ids |-> {}]
Stop(targets, force) == [targets |-> targets, force |-> force]

MCJobs ==
    {Stop(<<All>>, FALSE), Stop(<<Path(1)>>, TRUE),
     Stop(<<Path(1), Path(2)>>, FALSE), Stop(<<Id({"h1"})>>, TRUE),
     Stop(<<Id({"h1", "h3"})>>, FALSE)}

\* For two stops at a time.
FewLeftovers == {{One}}

FewJobs == {Stop(<<All>>, FALSE), Stop(<<Path(2), Path(1)>>, TRUE)}
=============================================================================
