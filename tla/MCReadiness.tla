----------------------------- MODULE MCReadiness -----------------------------
(***************************************************************************)
(* Servers that answer well, badly, too much or without an end; a wait for *)
(* a session or a transient run, and health over one to three sessions.    *)
(***************************************************************************)
EXTENDS Readiness

Good(length) ==
    [head |-> 1, valid |-> TRUE, status |-> 200, length |-> length, body |-> 2, json |-> "healthy"]

MCResponses ==
    {Good(l) : l \in {2, 1, 3, NoLength, Huge}}
    \cup {[Good(2) EXCEPT !.valid = FALSE], [Good(2) EXCEPT !.status = 503],
          [Good(NoLength) EXCEPT !.json = "healthy_false", !.head = 2],
          [Good(NoLength) EXCEPT !.body = Endless], [Good(0) EXCEPT !.body = 0],
          [Good(4) EXCEPT !.body = 4]}

AllTargets == [kind |-> "all"]

MCJobs ==
    [context : {"managed", "transient"}, runtime : RuntimeKinds]
    \cup [context : {"health"},
          target : {AllTargets, [kind |-> "root", root |-> "r1"], [kind |-> "id", ids |-> {"i1", "i2"}],
                    [kind |-> "id", ids |-> {"i2"}]}]

Container(state, bindings, labels) == [state |-> state, bindings |-> bindings, labels |-> labels]

MCContainers ==
    {Container("running", <<>>, TRUE), Container("running", <<"port">>, FALSE),
     Container("running", <<"bad_port", "port">>, TRUE), Container("exited", <<>>, TRUE)}

Session(id, root, running, runtime, endpoint) ==
    [id |-> id, root |-> root, running |-> running, runtime |-> runtime, endpoint |-> endpoint]

MCSessionLists ==
    {<<Session("i1", "r1", TRUE, "opencode", TRUE)>>,
     <<Session("i1", "r1", TRUE, "codex", FALSE), Session("i2", "r1", FALSE, "codex", TRUE)>>,
     <<Session("i1", "r1", FALSE, "opencode", TRUE), Session("i2", "r2", TRUE, "missing", TRUE),
       Session("i3", "r3", TRUE, "opencode", TRUE)>>}

=============================================================================
