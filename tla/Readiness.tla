------------------------------ MODULE Readiness ------------------------------
(***************************************************************************)
(* Waiting for the server of a container that was just started             *)
(* (src/src/commands/server_readiness/), and the health command            *)
(* (src/src/commands/health.rs), which probes sessions once.               *)
(*                                                                         *)
(* Meanwhile the container gets its port, exits or is removed, the user    *)
(* interrupts, and time passes, in units of the poll interval.             *)
(***************************************************************************)
EXTENDS HttpProbe, FiniteSets

CONSTANTS
    Timeout,        \* SERVER_READINESS_TIMEOUT
    Jobs,           \* what is invoked: [context, runtime] or [context, target]
    Containers,     \* containers at first: [state, bindings, labels]
    SessionLists    \* what a discovery gives the health command, by identity

\* Bindings as inspect lists them: without a host port, with one, or with one
\* that does not parse.
ASSUME WaitAssumption ==
    /\ Timeout \in Nat
    /\ \A j \in Jobs : j.context # "health" => j.runtime \in RuntimeKinds
    /\ \A c \in Containers :
          c \in [state : {"running", "exited", "gone"}, labels : BOOLEAN,
                 bindings : Seq({"no_port", "port", "bad_port"})]
    /\ \A l \in SessionLists : DOMAIN l \subseteq Nat

VARIABLES
    job,            \* the invocation
    container,      \* its container
    sessions,       \* the discovered sessions
    interrupted,    \* the flag the signal handler sets
    now,            \* polls since the wait began, up to the deadline
    pc,             \* poll, deadline, inspect, probe, sleep, rows, done
    inspected,      \* what the last inspection said
    rows,           \* the health command's rows: session, verdict, exchange
    result

waitVars == <<job, container, sessions, interrupted, now, pc, inspected, rows, result>>
vars == <<waitVars, probeVars>>

----------------------------------------------------------------------------
(* The endpoint *)

\* published_host_port: the first binding with a host port, which may not
\* parse.
PublishedHostPort(bindings) ==
    LET bound == SelectSeq(bindings, LAMBDA b : b # "no_port")
    IN  IF bound = <<>> THEN "none" ELSE bound[1]

\* discover_attach_endpoint_from_inspect reads the labels of a managed
\* session; for a transient run the runtime is known.
DiscoverEndpoint(context, c) ==
    /\ context = "managed" => c.labels
    /\ PublishedHostPort(c.bindings) = "port"

----------------------------------------------------------------------------
(* The sessions health probes *)

\* HealthSessionTargetPlan::select_sessions: all that run, or the one the
\* target names, which must run.  An id stands for those with its prefix.
SelectSessions(target) ==
    LET running == {i \in DOMAIN sessions : sessions[i].running}
        named == IF target.kind = "root"
                 THEN {i \in DOMAIN sessions : sessions[i].root = target.root}
                 ELSE {i \in DOMAIN sessions : sessions[i].id \in target.ids}
    IN  CASE target.kind = "all" -> [ok |-> TRUE, selected |-> running]
          [] OTHER -> [ok |-> Cardinality(named) = 1 /\ named \subseteq running, selected |-> named]

----------------------------------------------------------------------------

Init ==
    /\ ProbeInit
    /\ job \in Jobs
    /\ container \in Containers
    /\ IF job.context = "health" THEN sessions \in SessionLists ELSE sessions = <<>>
    /\ interrupted = FALSE
    /\ now = 0
    /\ pc = IF job.context = "health" THEN "rows" ELSE "poll"
    /\ inspected = "none"
    /\ rows = <<>>
    /\ result = "none"

Finish(outcome) == pc' = "done" /\ result' = outcome

\* The head of the loop in wait_with: first the interrupt, then the deadline.
Poll ==
    /\ pc = "poll"
    /\ IF interrupted THEN Finish("interrupted") ELSE pc' = "deadline" /\ UNCHANGED result
    /\ UNCHANGED <<job, container, sessions, interrupted, now, inspected, rows, probeVars>>

CheckDeadline ==
    /\ pc = "deadline"
    /\ IF now >= Timeout THEN Finish("timeout") ELSE pc' = "inspect" /\ UNCHANGED result
    /\ UNCHANGED <<job, container, sessions, interrupted, now, inspected, rows, probeVars>>

\* Still pending: sleep and poll again.
Pending == pc' = "sleep" /\ UNCHANGED result

\* inspect_one fails: no such container, or podman does.
InspectFails ==
    /\ pc = "inspect"
    /\ Pending /\ inspected' = "error"
    /\ UNCHANGED <<job, container, sessions, interrupted, now, rows, probeVars>>

\* inspect_server_endpoint up to the probe.
Inspect ==
    /\ pc = "inspect" /\ container.state # "gone"
    /\ inspected' = container.state
    /\ IF container.state = "exited"
       THEN Finish("exited") /\ UNCHANGED <<probeVars>>
       ELSE IF ~DiscoverEndpoint(job.context, container)
       THEN Pending /\ UNCHANGED probeVars
       ELSE /\ \E n \in 0 .. MaxAddresses : StartProbe(job.runtime, n)
            /\ pc' = "probe" /\ UNCHANGED result
    /\ UNCHANGED <<job, container, sessions, interrupted, now, rows>>

Probed ==
    /\ pc = "probe" /\ job.context # "health" /\ probe.at = "done"
    /\ IF probe.health = "healthy" THEN Finish("ready")
       ELSE Pending
    /\ probe' = NoProbe /\ UNCHANGED exchange
    /\ UNCHANGED <<job, container, sessions, interrupted, now, inspected, rows>>

Sleep ==
    /\ pc = "sleep"
    /\ now' = IF now < Timeout THEN now + 1 ELSE now
    /\ pc' = "poll"
    /\ UNCHANGED <<job, container, sessions, interrupted, inspected, rows, result, probeVars>>

----------------------------------------------------------------------------
(* agentbox health *)

RowsLeft ==
    SelectSessions(job.target).selected \ {rows[i].session : i \in DOMAIN rows}

Row(session, health) ==
    rows' = Append(rows, [session |-> session, health |-> health, exchange |-> exchange])

\* health_row for the next session by identity, or the end of the rows.
HealthRow ==
    /\ pc = "rows"
    /\ IF ~SelectSessions(job.target).ok THEN Finish("error") /\ UNCHANGED <<rows, probeVars>>
       ELSE IF RowsLeft = {} THEN Finish("rows") /\ UNCHANGED <<rows, probeVars>>
       ELSE LET next == CHOOSE i \in RowsLeft : \A j \in RowsLeft : i <= j
            IN  /\ UNCHANGED result
                /\ IF sessions[next].runtime \notin RuntimeKinds
                   THEN Row(next, "missing_runtime") /\ UNCHANGED <<pc, probeVars>>
                   ELSE IF ~sessions[next].endpoint
                   THEN Row(next, "missing_endpoint") /\ UNCHANGED <<pc, probeVars>>
                   ELSE /\ \E n \in 0 .. MaxAddresses : StartProbe(sessions[next].runtime, n)
                        /\ pc' = "probe" /\ UNCHANGED rows
    /\ UNCHANGED <<job, container, sessions, interrupted, now, inspected>>

RowProbed ==
    /\ pc = "probe" /\ job.context = "health" /\ probe.at = "done"
    /\ Row(CHOOSE i \in RowsLeft : \A j \in RowsLeft : i <= j, probe.health)
    /\ probe' = NoProbe /\ exchange' = NoExchange
    /\ pc' = "rows"
    /\ UNCHANGED <<job, container, sessions, interrupted, now, inspected, result>>

----------------------------------------------------------------------------
(* The surroundings *)

Waiting == pc # "done" /\ job.context # "health"

PublishPort ==
    /\ Waiting /\ container.state = "running" /\ container.bindings = <<>>
    /\ container' = [container EXCEPT !.bindings = <<"no_port", "port">>]
    /\ UNCHANGED <<job, sessions, interrupted, now, pc, inspected, rows, result, probeVars>>

ContainerEnds ==
    /\ Waiting
    /\ \/ container.state = "running" /\ container' = [container EXCEPT !.state = "exited"]
       \/ container.state = "exited" /\ container' = [container EXCEPT !.state = "gone"]
    /\ UNCHANGED <<job, sessions, interrupted, now, pc, inspected, rows, result, probeVars>>

Interrupt ==
    /\ Waiting /\ ~interrupted
    /\ interrupted' = TRUE
    /\ UNCHANGED <<job, container, sessions, now, pc, inspected, rows, result, probeVars>>

\* Every step takes its time.
TimePasses ==
    /\ Waiting /\ now < Timeout
    /\ now' = now + 1
    /\ UNCHANGED <<job, container, sessions, interrupted, pc, inspected, rows, result, probeVars>>

ClientStep ==
    \/ Poll \/ CheckDeadline \/ InspectFails \/ Inspect \/ Probed \/ Sleep \/ HealthRow \/ RowProbed
    \/ ProbeStep /\ UNCHANGED waitVars

Surroundings ==
    \/ PublishPort \/ ContainerEnds \/ Interrupt \/ TimePasses
    \/ (Send \/ Hangup) /\ UNCHANGED waitVars

Finished == pc = "done" /\ UNCHANGED vars

Next == ClientStep \/ Surroundings \/ Finished

\* The process itself is never held up for good: every call it makes has a
\* timeout of its own, and podman answers.  Nothing is assumed of the server.
Spec == Init /\ [][Next]_vars /\ WF_vars(ClientStep)

----------------------------------------------------------------------------
(* Properties *)

\* A verdict is what the server answered.
VerdictIsTrue(health, e, runtime) ==
    /\ health = "healthy" =>
          /\ e.link # "none" /\ e.response.valid /\ e.response.status = 200
          /\ e.read >= e.response.head /\ e.read <= MaxResponse
          /\ DeclaredArrived(e)
          /\ HealthPolicy(runtime) = "JsonHealthyFlag" =>
                e.response.json = "healthy" /\ AnsweredWhole(e)
    /\ health = "healthy_false" =>
          e.link # "none" /\ e.response.status = 200 /\ e.response.json = health /\ AnsweredWhole(e)

(* What a command says about a server is true, however its answer was cut, *)
(* delayed or padded and whatever happened to the container meanwhile:     *)
(* ready only after an inspection that saw the container run and an answer *)
(* that is complete and says so, a failure only for a container that ended *)
(* or a deadline that passed; and health has one true row per selected     *)
(* session, in order.                                                      *)
ReadyIsJustified ==
    /\ result = "ready" =>
          inspected = "running" /\ VerdictIsTrue("healthy", exchange, job.runtime)
    /\ result = "exited" => container.state # "running"
    /\ result = "timeout" => now = Timeout
    /\ \A i \in DOMAIN rows :
          LET s == sessions[rows[i].session]
          IN  /\ s.running
              /\ s.runtime \in RuntimeKinds => VerdictIsTrue(rows[i].health, rows[i].exchange, s.runtime)
              /\ \A j \in 1 .. i - 1 : rows[j].session < rows[i].session
    /\ result = "rows" => \A i \in SelectSessions(job.target).selected :
                             \E k \in DOMAIN rows : rows[k].session = i

(* A wait, and a health command, always ends, although the deadline is     *)
(* looked at only between two polls: the bound on an answer ends a probe   *)
(* of a server that never stops sending.                                   *)
WaitReturns == <>(pc = "done")

=============================================================================
