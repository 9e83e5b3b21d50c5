------------------------------ MODULE MCClean ------------------------------
(***************************************************************************)
(* Two binaries with one image context each, two runtimes, one workspace.  *)
(***************************************************************************)
EXTENDS Clean, TLC

Image(r, c) == [runtime |-> r, context |-> c, version |-> 1, by |-> Earlier]
Launch(c) == [op |-> "launch", context |-> c, runtimes |-> <<"codex">>, workspace |-> "w"]
Update(c, rs) == [op |-> "update", context |-> c, runtimes |-> rs, workspace |-> "w"]
CleanAll(c) == [op |-> "clean", context |-> c, runtimes |-> <<>>, workspace |-> "w"]

MCJobs ==
    {Launch("old"), Launch("new"), Update("old", <<"codex">>),
     Update("new", <<"opencode", "codex">>), CleanAll("old"), CleanAll("new")}

Left(is, m, cs) ==
    [images |-> is, metadata |-> [r \in Runtimes |-> IF r = "codex" THEN m ELSE None],
     containers |-> cs, volumes |-> IF is = {} THEN {} ELSE {[workspace |-> "w", by |-> Earlier]}]

Recorded(c) == [context |-> c, version |-> 1]
Old == Image("codex", "old")
New == Image("codex", "new")

MCLeftovers ==
    {Left({}, None, {}),
     Left({Old}, Recorded("old"), {}),
     Left({Old, Image("opencode", "old")}, Recorded("new"), {}),
     Left({Old, New}, Recorded("new"), {[workspace |-> "w", image |-> Old]}),
     Left({New}, Invalid, {})}

\* Invocations are interchangeable.
ProcSymmetry == Permutations(Procs)
=============================================================================
