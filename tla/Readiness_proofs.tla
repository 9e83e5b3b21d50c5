--------------------------- MODULE Readiness_proofs ---------------------------
(***************************************************************************)
(* Proofs about Readiness and HttpProbe: answers of any size, cut up in    *)
(* any way, any bounds, any number of sessions.                            *)
(***************************************************************************)
EXTENDS Readiness, TLAPS, WellFoundedInduction

-----------------------------------------------------------------------------
(* The inductive invariant. *)

Verdicts ==
    {"none", "unreachable", "http_status", "healthy", "healthy_false", "malformed_json"}

Exchange ==
    [link : {"open", "closed", "reset"}, response : Response, unread : Nat, read : Nat]

Probe ==
    [at : {"idle", "address", "reading", "done"}, runtime : RuntimeKinds,
     addresses : Nat, health : Verdicts]

\* The reader has not gone past the bound, nor past what the answer is.
Reading(e) ==
    /\ e \in Exchange /\ e.read <= MaxResponse
    /\ ReadPhase(e) \in {"headers", "undeclared", "declared"}
    /\ e.response.body # Endless => e.read + e.unread <= e.response.head + e.response.body

\* The verdict of a probe is the one its last exchange justifies.
ProbeInv ==
    /\ probe \in Probe
    /\ exchange = NoExchange \/ exchange \in Exchange
    /\ probe.at = "reading" => probe.addresses > 0 /\ Reading(exchange)
    /\ probe.at \in {"address", "done"} =>
          VerdictIsTrue(probe.health, exchange, probe.runtime)

\* Where the wait is.
WaitInv ==
    /\ container.state \in {"running", "exited", "gone"}
    /\ container \in [state : {"running", "exited", "gone"}, labels : BOOLEAN,
                      bindings : Seq({"no_port", "port", "bad_port"})]
    /\ DOMAIN sessions \subseteq Nat
    /\ now \in 0 .. Timeout
    /\ pc \in {"poll", "deadline", "inspect", "probe", "sleep", "rows", "done"}
    /\ pc \in {"poll", "deadline", "inspect", "sleep"} => job.context # "health"
    /\ pc = "rows" => job.context = "health"
    /\ job.context # "health" => job.runtime \in RuntimeKinds
    /\ pc = "done" <=> result # "none"
    /\ pc = "probe" <=> probe.at # "idle"
    /\ pc = "probe" /\ job.context # "health" =>
          inspected = "running" /\ probe.runtime = job.runtime
    /\ result = "ready" =>
          inspected = "running" /\ VerdictIsTrue("healthy", exchange, job.runtime)
    /\ result = "exited" => container.state # "running"
    /\ result = "timeout" => now = Timeout

Least(S) == {i \in S : \A j \in S : i <= j}

\* One row: its session runs, what it says is true, and it comes before those
\* that follow.
RowInv(i) ==
    LET s == rows[i].session
    IN  /\ s \in DOMAIN sessions /\ sessions[s].running
        /\ sessions[s].runtime \in RuntimeKinds =>
              VerdictIsTrue(rows[i].health, rows[i].exchange, sessions[s].runtime)
        /\ \A j \in 1 .. i - 1 : rows[j].session < s
        /\ \A x \in RowsLeft : s < x

RowsInv ==
    /\ rows \in Seq([session : Nat, exchange : Exchange \cup {NoExchange},
                     health : Verdicts \cup {"missing_runtime", "missing_endpoint"}])
    /\ \A i \in DOMAIN rows : RowInv(i)
    /\ pc = "probe" /\ job.context = "health" =>
          /\ SelectSessions(job.target).ok /\ RowsLeft # {}
          /\ \A i \in Least(RowsLeft) : sessions[i].runtime = probe.runtime
    /\ result = "rows" => RowsLeft = {}

ReadInv == ProbeInv /\ WaitInv /\ RowsInv

-----------------------------------------------------------------------------
(* Reading. *)

\* The naturals are well-founded.
LEMMA NaturalOrder ==
    \E L : IsWellFoundedOn(L, Nat) /\ \A x, y \in Nat : <<x, y>> \in L <=> x < y
  <1>1. ASSUME NEW x \in Nat, NEW y \in Nat
        PROVE  <<x, y>> \in OpToRel(<, Nat) <=> x < y
    BY Zenon DEF OpToRel
  <1>2. QED
    BY <1>1, NatLessThanWellFounded, Zenon

\* A set of naturals that is not empty has a least element, and no other.
LEMMA LeastIsOne ==
    ASSUME NEW S, S \subseteq Nat, S # {}
    PROVE  /\ (CHOOSE i \in S : \A j \in S : i <= j) \in Least(S)
           /\ Least(S) = {CHOOSE i \in S : \A j \in S : i <= j}
  <1>1. PICK Less : /\ IsWellFoundedOn(Less, Nat)
                    /\ \A x, y \in Nat : <<x, y>> \in Less <=> x < y
    BY NaturalOrder
  <1>2. PICK x \in S : \A y \in S : ~(<<y, x>> \in Less)
    <2>1. IsWellFoundedOn(Less, Nat)
      BY <1>1
    <2>2. QED
      BY <2>1, WFMin, Zenon
  <1>3. ASSUME NEW y \in S PROVE x <= y
    <2>1. ~(y < x)
      BY <1>1, <1>2, Zenon
    <2>2. QED
      BY <2>1
  <1> DEFINE c == CHOOSE i \in S : \A j \in S : i <= j
  <1>4. c \in S /\ \A y \in S : c <= y
    BY <1>3
  <1> HIDE DEF c
  <1>5. c \in Least(S) /\ \A y \in Least(S) : y = c
    BY <1>4 DEF Least
  <1>6. c \in Least(S) /\ Least(S) = {c}
    BY <1>5
  <1>7. QED
    BY <1>6 DEF c

\* The lengths of an answer.
LEMMA LengthsAre ==
    ASSUME NEW r \in Response
    PROVE  /\ r.head \in 1 .. MaxResponse /\ r.head \in Nat
           /\ r.length \in Nat \cup {NoLength, Huge}
           /\ r.body \in Nat \cup {Endless}
           /\ r.json \in {"healthy", "healthy_false", "malformed_json"}
  <1>1. /\ r.head \in 1 .. MaxResponse
        /\ r.length \in (0 .. MaxResponse) \cup {NoLength, Huge}
        /\ r.body \in (0 .. MaxResponse) \cup {Endless}
        /\ r.json \in {"healthy", "healthy_false", "malformed_json"}
    BY Zenon DEF Response
  <1>2. MaxResponse \in Nat
    BY ProbeAssumption
  <1>3. r.head \in Nat
    BY <1>1, <1>2
  <1>4. r.length \in Nat \cup {NoLength, Huge}
    BY <1>1, <1>2
  <1>5. r.body \in Nat \cup {Endless}
    BY <1>1, <1>2
  <1>6. QED
    BY <1>1, <1>3, <1>4, <1>5, Zenon

\* The verdict on a complete answer.
LEMMA CompleteVerdict ==
    ASSUME NEW e \in Exchange, NEW runtime, e.read <= MaxResponse,
           ReadPhase(e) = "complete",
           e.response.body # Endless =>
              e.read + e.unread <= e.response.head + e.response.body
    PROVE  /\ VerdictIsTrue(HealthResponse(e, runtime), e, runtime)
           /\ HealthResponse(e, runtime) \in Verdicts
  <1>1. /\ e.read \in Nat /\ e.unread \in Nat /\ e.response \in Response
        /\ e.link # "none"
    BY DEF Exchange
  <1>2. /\ e.response.head \in Nat
        /\ e.response.length \in Nat \cup {NoLength, Huge}
        /\ e.response.body \in Nat \cup {Endless}
        /\ e.response.json \in {"healthy", "healthy_false", "malformed_json"}
    BY <1>1, LengthsAre
  <1>3. /\ e.response.valid /\ e.response.length # NoLength /\ e.response.length # Huge
        /\ e.response.head <= e.read
        /\ e.response.head + e.response.length <= e.read
    <2>1. ~(e.read < e.response.head) /\ e.response.valid
      BY <1>1, <1>2 DEF ReadPhase
    <2>2. e.response.length # NoLength /\ e.response.length # Huge
      BY <2>1 DEF ReadPhase
    <2>3. ~(e.read < e.response.head + e.response.length)
      BY <2>1, <2>2 DEF ReadPhase
    <2>4. e.response.head <= e.read
      BY <1>1, <1>2, <2>1
    <2>5. e.response.length \in Nat
      BY <1>2, <2>2
    <2>6. e.response.head + e.response.length <= e.read
      BY <1>1, <1>2, <2>3, <2>5
    <2>7. QED
      BY <2>1, <2>2, <2>4, <2>6, Zenon
  <1>4. ASSUME e.response.body # Endless, BodyRead(e) = e.response.body
        PROVE  AnsweredWhole(e)
    BY <1>1, <1>2, <1>3, <1>4 DEF AnsweredWhole, BodyRead
  <1>5. QED
    BY <1>1, <1>2, <1>3, <1>4
    DEF VerdictIsTrue, HealthResponse, HealthPolicy, DeclaredArrived, Verdicts

\* The verdict on an answer without a length that is over.
LEMMA UndeclaredVerdict ==
    ASSUME NEW e \in Exchange, NEW runtime, e.read <= MaxResponse,
           ReadPhase(e) = "undeclared"
    PROVE  /\ VerdictIsTrue(HealthResponse(e, runtime), e, runtime)
           /\ HealthResponse(e, runtime) \in Verdicts
  <1>1. e.read \in Nat /\ e.response \in Response /\ e.link # "none"
    BY DEF Exchange
  <1>2. /\ e.response.head \in Nat
        /\ e.response.body \in Nat \cup {Endless}
        /\ e.response.json \in {"healthy", "healthy_false", "malformed_json"}
    BY <1>1, LengthsAre
  <1>3. /\ e.response.valid /\ e.response.length = NoLength /\ e.response.head <= e.read
    <2>1. ~(e.read < e.response.head) /\ e.response.valid
      BY <1>1, <1>2 DEF ReadPhase
    <2>2. e.response.length = NoLength
      BY <2>1 DEF ReadPhase
    <2>3. e.response.head <= e.read
      BY <1>1, <1>2, <2>1
    <2>4. QED
      BY <2>1, <2>2, <2>3, Zenon
  <1>4. ASSUME e.response.body # Endless, BodyRead(e) = e.response.body
        PROVE  AnsweredWhole(e)
    BY <1>1, <1>2, <1>3, <1>4 DEF AnsweredWhole, BodyRead
  <1>5. QED
    BY <1>1, <1>2, <1>3, <1>4
    DEF VerdictIsTrue, HealthResponse, HealthPolicy, DeclaredArrived, Verdicts

\* No answer is no verdict.
LEMMA NoVerdict ==
    ASSUME NEW h, h \notin {"healthy", "healthy_false"}, NEW e, NEW runtime
    PROVE  VerdictIsTrue(h, e, runtime)
  BY DEF VerdictIsTrue

\* An exchange that is not read to an end is in one of these phases.
LEMMA PhasesAre ==
    ASSUME NEW e
    PROVE  ReadPhase(e) \in {"headers", "failed", "undeclared", "declared", "complete"}
  BY DEF ReadPhase

\* What a step of the probe, or of its server, keeps.
Probing ==
    /\ ProbeInv' /\ probe'.runtime = probe.runtime
    /\ probe.at # "idle" /\ probe'.at # "idle"

\* A connection that is over.
LEMMA ConnectionHealthEffect ==
    ASSUME ProbeInv, probe.addresses > 0, probe.at # "idle", NEW h \in Verdicts,
           exchange' = NoExchange \/ exchange' \in Exchange,
           VerdictIsTrue(h, exchange', probe.runtime), ConnectionHealth(h)
    PROVE  Probing
  <1>1. probe \in Probe /\ probe.addresses - 1 \in Nat
    BY DEF ProbeInv, Probe
  <1>2. PICK a \in {"done", "address"}, n \in Nat :
          probe' = [probe EXCEPT !.at = a, !.addresses = n, !.health = h]
    BY <1>1 DEF ConnectionHealth
  <1>3. /\ probe' \in Probe /\ probe'.at = a /\ probe'.runtime = probe.runtime
        /\ probe'.health = h
    BY <1>1, <1>2 DEF Probe
  <1>4. QED
    BY <1>2, <1>3 DEF Probing, ProbeInv

\* The reader takes a chunk.
LEMMA ReadDataEffect ==
    ASSUME ProbeInv, NEW n \in 1 .. Chunk, ReadData(n)
    PROVE  Probing
  <1> DEFINE e == [exchange EXCEPT !.unread = @ - n, !.read = @ + n]
  <1>1. /\ probe.at = "reading" /\ exchange.unread >= n /\ exchange' = e
        /\ probe \in Probe /\ probe.addresses > 0 /\ Reading(exchange)
        /\ exchange \in Exchange
    BY DEF ReadData, ProbeInv, Reading
  <1>2. n \in Nat /\ exchange.unread \in Nat /\ exchange.read \in Nat
        /\ exchange.response \in Response
    BY <1>1, ProbeAssumption DEF Exchange
  <1>3. PICK u \in Nat, m \in Nat : u = exchange.unread - n /\ m = exchange.read + n
    BY <1>1, <1>2
  <1>4. e = [exchange EXCEPT !.unread = u, !.read = m]
    BY <1>1, <1>3
  <1>5. /\ e \in Exchange /\ e.unread = u /\ e.read = m
        /\ e.response = exchange.response
    BY <1>1, <1>4 DEF Exchange
  <1>6. e.response.body # Endless => e.read + e.unread <= e.response.head + e.response.body
    BY <1>1, <1>2, <1>3, <1>5 DEF Reading
  <1>7. /\ e.read > MaxResponse => ConnectionHealth("unreachable")
        /\ ~(e.read > MaxResponse) =>
              /\ ReadPhase(e) = "failed" => ConnectionHealth("unreachable")
              /\ ReadPhase(e) = "complete" =>
                    ConnectionHealth(HealthResponse(e, probe.runtime))
              /\ ReadPhase(e) \notin {"failed", "complete"} => probe' = probe
    BY DEF ReadData
  <1> HIDE DEF e
  <1>8. CASE ConnectionHealth("unreachable")
    BY <1>1, <1>5, <1>8, ConnectionHealthEffect, NoVerdict DEF Verdicts
  <1>9. e.read <= MaxResponse \/ e.read > MaxResponse
    BY <1>3, <1>5, ProbeAssumption
  <1>10. CASE e.read <= MaxResponse /\ ReadPhase(e) = "complete"
    <2>1. ConnectionHealth(HealthResponse(e, probe.runtime)) /\ ~(e.read > MaxResponse)
      BY <1>3, <1>5, <1>7, <1>10, ProbeAssumption
    <2>2. /\ VerdictIsTrue(HealthResponse(e, probe.runtime), e, probe.runtime)
          /\ HealthResponse(e, probe.runtime) \in Verdicts
      BY <1>5, <1>6, <1>10, CompleteVerdict
    <2>3. QED
      BY <1>1, <1>5, <2>1, <2>2, ConnectionHealthEffect
  <1>11. CASE e.read <= MaxResponse /\ ReadPhase(e) \notin {"failed", "complete"}
    <2>1. probe' = probe
      BY <1>3, <1>5, <1>7, <1>11, ProbeAssumption
    <2>2. Reading(e)
      BY <1>5, <1>6, <1>11, PhasesAre DEF Reading
    <2>3. Reading(exchange')
      BY <1>1, <2>2
    <2>4. QED
      BY <1>1, <1>5, <2>1, <2>3 DEF Probing, ProbeInv
  <1>12. CASE e.read <= MaxResponse /\ ReadPhase(e) = "failed"
    BY <1>3, <1>5, <1>7, <1>8, <1>12, ProbeAssumption
  <1>13. QED
    BY <1>7, <1>8, <1>9, <1>10, <1>11, <1>12

\* The other steps of a probe.
LEMMA ProbeStepEffect ==
    ASSUME ProbeInv, ProbeStep
    PROVE  Probing
  <1>1. probe \in Probe /\ (exchange = NoExchange \/ exchange \in Exchange)
    BY DEF ProbeInv
  <1>2. probe.addresses \in Nat /\ (probe.addresses > 0 => probe.addresses - 1 \in Nat)
    BY <1>1 DEF Probe
  <1>3. CASE Connect
    <2>1. probe.at = "address" /\ probe.addresses > 0
      BY <1>3 DEF Connect
    <2>2. CASE probe' = [probe EXCEPT !.addresses = @ - 1] /\ UNCHANGED exchange
      <3>1. /\ probe' \in Probe /\ probe'.at = "address" /\ probe'.health = probe.health
            /\ probe'.runtime = probe.runtime
        BY <1>1, <1>2, <2>1, <2>2 DEF Probe
      <3>2. QED
        BY <1>1, <2>1, <2>2, <3>1 DEF Probing, ProbeInv
    <2>3. ASSUME NEW r \in Responses,
                 exchange' = [link |-> "open", response |-> r, unread |-> 0, read |-> 0],
                 probe' = [probe EXCEPT !.at = "reading"]
          PROVE  Probing
      <3>1. /\ probe' \in Probe /\ probe'.at = "reading"
            /\ probe'.runtime = probe.runtime /\ probe'.addresses = probe.addresses
        BY <1>1, <2>3 DEF Probe
      <3>2. r \in Response /\ MaxResponse \in Nat
        BY ProbeAssumption
      <3>3. /\ r.head \in 1 .. MaxResponse
            /\ r.body # Endless => r.body \in Nat
        BY <3>2, LengthsAre
      <3>4. exchange' \in Exchange
        BY <2>3, <3>2 DEF Exchange
      <3>5. ReadPhase(exchange') = "headers"
        BY <2>3, <3>2, <3>3 DEF ReadPhase
      <3>6. /\ exchange'.read <= MaxResponse
            /\ exchange'.response.body # Endless =>
                  exchange'.read + exchange'.unread
                     <= exchange'.response.head + exchange'.response.body
        BY <2>3, <3>2, <3>3
      <3>7. Reading(exchange')
        BY <3>4, <3>5, <3>6 DEF Reading
      <3>8. QED
        BY <2>1, <3>1, <3>4, <3>7 DEF Probing, ProbeInv
    <2>4. CASE ConnectionHealth("unreachable") /\ exchange' = NoExchange
      BY <2>1, <2>4, ConnectionHealthEffect, NoVerdict DEF Verdicts
    <2>5. QED
      BY <1>3, <2>2, <2>3, <2>4 DEF Connect
  <1>4. CASE OutOfAddresses
    <2>1. /\ probe.at = "address" /\ UNCHANGED exchange
          /\ probe' = [probe EXCEPT !.at = "done"]
      BY <1>4 DEF OutOfAddresses
    <2>2. /\ probe' \in Probe /\ probe'.at = "done" /\ probe'.health = probe.health
          /\ probe'.runtime = probe.runtime
      BY <1>1, <2>1 DEF Probe
    <2>3. QED
      BY <1>1, <2>1, <2>2 DEF Probing, ProbeInv
  <1>5. CASE \E n \in 1 .. Chunk : ReadData(n)
    BY <1>5, ReadDataEffect
  <1>6. CASE ReadNothing
    <2>1. /\ probe.at = "reading" /\ exchange' = exchange
          /\ probe.addresses > 0 /\ Reading(exchange)
      BY <1>6 DEF ReadNothing, ProbeInv
    <2>2. CASE ReadPhase(exchange) = "undeclared"
      <3>1. ConnectionHealth(HealthResponse(exchange, probe.runtime))
        BY <1>6, <2>2 DEF ReadNothing
      <3>2. /\ VerdictIsTrue(HealthResponse(exchange, probe.runtime), exchange, probe.runtime)
            /\ HealthResponse(exchange, probe.runtime) \in Verdicts
        BY <2>1, <2>2, UndeclaredVerdict DEF Reading
      <3>3. QED
        BY <1>1, <2>1, <3>1, <3>2, ConnectionHealthEffect
    <2>3. CASE ReadPhase(exchange) # "undeclared"
      <3>1. ConnectionHealth("unreachable")
        BY <1>6, <2>3 DEF ReadNothing
      <3>2. QED
        BY <1>1, <2>1, <3>1, ConnectionHealthEffect, NoVerdict DEF Verdicts
    <2>4. QED
      BY <2>2, <2>3
  <1>7. CASE ReadFails
    BY <1>1, <1>7, ConnectionHealthEffect, NoVerdict DEF ReadFails, ProbeInv, Verdicts
  <1>8. QED
    BY <1>3, <1>4, <1>5, <1>6, <1>7 DEF ProbeStep

\* The server sends, or ends the connection.
LEMMA ServerEffect ==
    ASSUME ProbeInv, Send \/ Hangup
    PROVE  Probing
  <1>1. /\ probe.at = "reading" /\ probe' = probe /\ probe \in Probe
        /\ probe.addresses > 0 /\ exchange \in Exchange /\ Reading(exchange)
    BY DEF Send, Hangup, ProbeInv, Reading
  <1>2. exchange.unread \in Nat /\ exchange.read \in Nat /\ exchange.response \in Response
    BY <1>1 DEF Exchange
  <1>3. CASE Send
    <2>1. exchange' = [exchange EXCEPT !.unread = @ + 1] /\ Unsent(exchange)
      BY <1>3 DEF Send
    <2>2. /\ exchange' \in Exchange /\ exchange'.response = exchange.response
          /\ exchange'.read = exchange.read /\ exchange'.unread = exchange.unread + 1
      BY <1>1, <1>2, <2>1 DEF Exchange
    <2>3. ReadPhase(exchange') = ReadPhase(exchange)
      BY <2>2 DEF ReadPhase
    <2>4. exchange.response.head \in Nat
          /\ (exchange.response.body # Endless => exchange.response.body \in Nat)
      BY <1>2, LengthsAre
    <2>5. exchange'.response.body # Endless =>
             exchange'.read + exchange'.unread
               <= exchange'.response.head + exchange'.response.body
      BY <1>2, <2>1, <2>2, <2>4 DEF Unsent
    <2>6. Reading(exchange')
      BY <1>1, <2>2, <2>3, <2>5 DEF Reading
    <2>7. QED
      BY <1>1, <2>2, <2>6 DEF Probing, ProbeInv
  <1>4. CASE Hangup
    <2>1. PICK how \in {"closed", "reset"} : exchange' = [exchange EXCEPT !.link = how]
      BY <1>4 DEF Hangup
    <2>2. /\ exchange' \in Exchange /\ exchange'.response = exchange.response
          /\ exchange'.read = exchange.read /\ exchange'.unread = exchange.unread
      BY <1>1, <2>1 DEF Exchange
    <2>3. ReadPhase(exchange') = ReadPhase(exchange)
      BY <2>2 DEF ReadPhase
    <2>4. Reading(exchange')
      BY <1>1, <2>2, <2>3 DEF Reading
    <2>5. QED
      BY <1>1, <2>2, <2>4 DEF Probing, ProbeInv
  <1>5. QED
    BY <1>3, <1>4

-----------------------------------------------------------------------------
(* The rows of the health command. *)

\* The selection depends on the invocation and on the sessions alone.
LEMMA SelectionStays ==
    ASSUME job' = job, sessions' = sessions
    PROVE  SelectSessions(job.target)' = SelectSessions(job.target)
  BY Zenon DEF SelectSessions

\* What is selected, and may be, runs.
LEMMA LeftRuns ==
    ASSUME NEW i \in RowsLeft
    PROVE  /\ i \in DOMAIN sessions
           /\ SelectSessions(job.target).ok => sessions[i].running
  <1>1. i \in SelectSessions(job.target).selected
    BY DEF RowsLeft
  <1>2. CASE job.target.kind = "all"
    BY <1>1, <1>2 DEF SelectSessions
  <1>3. CASE job.target.kind # "all"
    BY <1>1, <1>3 DEF SelectSessions
  <1>4. QED
    BY <1>2, <1>3

\* Steps that add no row.
LEMMA RowsStay ==
    ASSUME RowsInv, UNCHANGED <<job, sessions, rows>>,
           pc' = "probe" /\ job.context = "health" =>
              pc = "probe" /\ probe'.runtime = probe.runtime,
           result' = "rows" => result = "rows"
    PROVE  RowsInv'
  <1>1. SelectSessions(job.target)' = SelectSessions(job.target)
    BY SelectionStays
  <1>2. RowsLeft' = RowsLeft
    BY <1>1 DEF RowsLeft
  <1>3. \A i \in DOMAIN rows : RowInv(i) => RowInv(i)'
    BY <1>2 DEF RowInv
  <1>4. QED
    BY <1>1, <1>2, <1>3 DEF RowsInv, Least

\* A row is added for the least session that has none.
LEMMA RowAdded ==
    ASSUME ReadInv, UNCHANGED <<job, sessions>>, SelectSessions(job.target).ok,
           RowsLeft # {}, NEW n, n = CHOOSE i \in RowsLeft : \A j \in RowsLeft : i <= j,
           NEW h \in Verdicts \cup {"missing_runtime", "missing_endpoint"}, Row(n, h),
           sessions[n].runtime \in RuntimeKinds =>
              VerdictIsTrue(h, exchange, sessions[n].runtime),
           pc' # "probe", result' # "rows"
    PROVE  RowsInv'
  <1> DEFINE R == [session : Nat, exchange : Exchange \cup {NoExchange},
                   health : Verdicts \cup {"missing_runtime", "missing_endpoint"}]
             new == [session |-> n, health |-> h, exchange |-> exchange]
  <1>1. /\ rows \in Seq(R) /\ \A i \in DOMAIN rows : RowInv(i)
        /\ DOMAIN sessions \subseteq Nat /\ exchange \in Exchange \cup {NoExchange}
    BY DEF ReadInv, RowsInv, WaitInv, ProbeInv
  <1>2. RowsLeft \subseteq Nat
    BY <1>1, LeftRuns
  <1>3. n \in RowsLeft /\ \A j \in RowsLeft : n <= j
    BY <1>2, LeastIsOne DEF Least
  <1>4. n \in Nat /\ n \in DOMAIN sessions /\ sessions[n].running
    BY <1>1, <1>3, LeftRuns
  <1>5. new \in R /\ rows' = Append(rows, new)
    BY <1>1, <1>4 DEF Row
  <1>6. new.session = n /\ new.health = h /\ new.exchange = exchange
    OBVIOUS
  <1> HIDE DEF R, new
  <1>7. /\ rows' \in Seq(R) /\ Len(rows) \in Nat /\ Len(rows') = Len(rows) + 1
        /\ DOMAIN rows = 1 .. Len(rows) /\ DOMAIN rows' = 1 .. Len(rows) + 1
        /\ \A i \in 1 .. Len(rows) : rows'[i] = rows[i]
        /\ rows'[Len(rows) + 1] = new
    BY <1>1, <1>5
  <1>8. PICK l \in Nat : l = Len(rows) + 1
    BY <1>7
  <1>9. SelectSessions(job.target)' = SelectSessions(job.target)
    BY SelectionStays
  <1>10. RowsLeft' \subseteq RowsLeft \ {n}
    <2>1. ASSUME NEW x \in RowsLeft' PROVE x \in RowsLeft /\ x # n
      <3>1. x \in SelectSessions(job.target).selected
        BY <1>9, <2>1 DEF RowsLeft
      <3>2. \A i \in DOMAIN rows' : x # rows'[i].session
        BY <2>1 DEF RowsLeft
      <3>3. x # n
        <4>1. l \in DOMAIN rows' /\ rows'[l].session = n
          BY <1>6, <1>7, <1>8
        <4>2. QED
          BY <3>2, <4>1
      <3>4. \A i \in DOMAIN rows : x # rows[i].session
        BY <1>7, <3>2
      <3>5. QED
        BY <3>1, <3>3, <3>4 DEF RowsLeft
    <2>2. QED
      BY <2>1
  <1>11. ASSUME NEW i \in DOMAIN rows PROVE RowInv(i)'
    <2>1. RowInv(i) /\ rows'[i] = rows[i] /\ \A j \in 1 .. i - 1 : rows'[j] = rows[j]
      BY <1>1, <1>7, <1>11
    <2>2. QED
      BY <1>10, <2>1 DEF RowInv
  <1>12. RowInv(l)'
    <2>1. \A j \in 1 .. l - 1 : rows'[j].session < n
      <3>1. l - 1 = Len(rows)
        BY <1>7, <1>8
      <3>2. QED
        BY <1>1, <1>3, <1>7, <3>1 DEF RowInv
    <2>2. \A x \in RowsLeft' : n < x
      BY <1>2, <1>3, <1>4, <1>10
    <2>3. /\ rows'[l].session = n /\ rows'[l].health = h /\ rows'[l].exchange = exchange
      BY <1>6, <1>7, <1>8
    <2>4. QED
      BY <1>4, <2>1, <2>2, <2>3 DEF RowInv
  <1>13. \A i \in DOMAIN rows' : RowInv(i)'
    <2>1. \A i \in DOMAIN rows' : i \in DOMAIN rows \/ i = l
      BY <1>7, <1>8
    <2>2. QED
      BY <1>11, <1>12, <2>1
  <1>14. QED
    BY <1>7, <1>13 DEF RowsInv, R

-----------------------------------------------------------------------------
(* The wait. *)

\* A probe starts.
LEMMA StartProbeEffect ==
    ASSUME NEW runtime \in RuntimeKinds, NEW n \in 0 .. MaxAddresses, StartProbe(runtime, n)
    PROVE  ProbeInv' /\ probe'.at = "address" /\ probe'.runtime = runtime
  <1>1. /\ n \in Nat
        /\ probe' = [at |-> "address", runtime |-> runtime, addresses |-> n,
                     health |-> "unreachable"]
        /\ exchange' = NoExchange
    BY ProbeAssumption DEF StartProbe
  <1>2. /\ probe' \in Probe /\ probe'.at = "address" /\ probe'.runtime = runtime
        /\ probe'.health = "unreachable"
    BY <1>1 DEF Probe, Verdicts
  <1>3. QED
    BY <1>1, <1>2, NoVerdict DEF ProbeInv

\* No probe is on.
LEMMA NoProbeEffect ==
    ASSUME probe' = NoProbe, exchange' = NoExchange \/ exchange' \in Exchange
    PROVE  ProbeInv' /\ probe'.at = "idle"
  <1>1. probe' \in Probe /\ probe'.at = "idle"
    BY DEF NoProbe, Probe, Verdicts, RuntimeKinds
  <1>2. QED
    BY <1>1 DEF ProbeInv

\* At first.
LEMMA InvInit ==
    ASSUME Init
    PROVE  ReadInv
  <1>1. ProbeInv /\ probe.at = "idle"
    BY DEF Init, ProbeInit, ProbeInv, NoProbe, Probe, Verdicts, RuntimeKinds
  <1>2. DOMAIN sessions \subseteq Nat
    <2>1. CASE job.context = "health"
      BY <2>1, WaitAssumption DEF Init
    <2>2. CASE job.context # "health"
      BY <2>2 DEF Init
    <2>3. QED
      BY <2>1, <2>2
  <1>3. container \in [state : {"running", "exited", "gone"}, labels : BOOLEAN,
                       bindings : Seq({"no_port", "port", "bad_port"})]
        /\ container.state \in {"running", "exited", "gone"}
    BY WaitAssumption DEF Init
  <1>4. now \in 0 .. Timeout
    BY WaitAssumption DEF Init
  <1>5. job.context # "health" => job.runtime \in RuntimeKinds
    BY WaitAssumption DEF Init
  <1>6. WaitInv
    BY <1>1, <1>2, <1>3, <1>4, <1>5 DEF Init, WaitInv
  <1>7. RowsInv
    <2>1. rows = <<>> /\ pc # "probe" /\ result = "none"
      BY DEF Init
    <2>2. QED
      BY <2>1 DEF RowsInv
  <1>8. QED
    BY <1>1, <1>6, <1>7 DEF ReadInv

\* The steps of the wait that leave the probe alone.
LEMMA WaitStep ==
    ASSUME ReadInv, Poll \/ CheckDeadline \/ InspectFails \/ Sleep
    PROVE  ReadInv'
  <1>1. /\ ProbeInv /\ WaitInv /\ RowsInv
        /\ UNCHANGED <<job, container, sessions, rows>> /\ probe' = probe /\ exchange' = exchange
    BY DEF ReadInv, Poll, CheckDeadline, InspectFails, Sleep, probeVars
  <1>2. ProbeInv'
    BY <1>1 DEF ProbeInv
  <1>3. now \in Nat /\ Timeout \in Nat /\ now <= Timeout
    BY <1>1, WaitAssumption DEF WaitInv
  <1>4. WaitInv'
    <2>1. CASE Poll
      BY <1>1, <2>1 DEF Poll, Finish, WaitInv
    <2>2. CASE CheckDeadline
      BY <1>1, <1>3, <2>2 DEF CheckDeadline, Finish, WaitInv
    <2>3. CASE InspectFails
      BY <1>1, <2>3 DEF InspectFails, Pending, WaitInv
    <2>4. CASE Sleep
      <3>1. now' \in 0 .. Timeout
        BY <1>3, <2>4 DEF Sleep
      <3>2. QED
        BY <1>1, <2>4, <3>1 DEF Sleep, WaitInv
    <2>5. QED
      BY <2>1, <2>2, <2>3, <2>4
  <1>5. RowsInv'
    <2>1. pc' # "probe" /\ (result' = "rows" => result = "rows")
      BY DEF Poll, CheckDeadline, InspectFails, Sleep, Finish, Pending
    <2>2. QED
      BY <1>1, <2>1, RowsStay
  <1>6. QED
    BY <1>2, <1>4, <1>5 DEF ReadInv

\* The inspection, up to the probe.
LEMMA InspectStep ==
    ASSUME ReadInv, Inspect
    PROVE  ReadInv'
  <1>1. /\ ProbeInv /\ WaitInv /\ RowsInv /\ pc = "inspect" /\ container.state # "gone"
        /\ inspected' = container.state
        /\ UNCHANGED <<job, container, sessions, interrupted, now, rows>>
    BY DEF ReadInv, Inspect
  <1>2. job.context # "health" /\ job.runtime \in RuntimeKinds /\ result = "none"
    BY <1>1 DEF WaitInv
  <1>3. CASE probe' = probe /\ exchange' = exchange /\ pc' # "probe"
    <2>1. ProbeInv'
      BY <1>1, <1>3 DEF ProbeInv
    <2>2. \/ pc' = "sleep" /\ result' = result
          \/ pc' = "done" /\ result' = "exited" /\ container.state = "exited"
      BY <1>3 DEF Inspect, Finish, Pending
    <2>3. WaitInv'
      BY <1>1, <1>2, <1>3, <2>2 DEF WaitInv
    <2>4. RowsInv'
      BY <1>1, <1>2, <1>3, <2>2, RowsStay
    <2>5. QED
      BY <2>1, <2>3, <2>4 DEF ReadInv
  <1>4. ASSUME container.state # "exited", NEW n \in 0 .. MaxAddresses,
               StartProbe(job.runtime, n), pc' = "probe", result' = result
        PROVE  ReadInv'
    <2>1. ProbeInv' /\ probe'.at = "address" /\ probe'.runtime = job.runtime
      BY <1>2, <1>4, StartProbeEffect
    <2>2. container.state = "running"
      BY <1>1, <1>4 DEF WaitInv
    <2>3. WaitInv'
      BY <1>1, <1>2, <1>4, <2>1, <2>2 DEF WaitInv
    <2>4. RowsInv'
      BY <1>1, <1>2, <1>4, RowsStay
    <2>5. QED
      BY <2>1, <2>3, <2>4 DEF ReadInv
  <1>5. QED
    BY <1>1, <1>3, <1>4 DEF Inspect, Finish, Pending, probeVars

\* The probe of the wait is over.
LEMMA ProbedStep ==
    ASSUME ReadInv, Probed
    PROVE  ReadInv'
  <1>1. /\ ProbeInv /\ WaitInv /\ RowsInv /\ pc = "probe" /\ job.context # "health"
        /\ probe.at = "done" /\ probe' = NoProbe /\ exchange' = exchange
        /\ UNCHANGED <<job, container, sessions, interrupted, now, inspected, rows>>
    BY DEF ReadInv, Probed
  <1>2. ProbeInv' /\ probe'.at = "idle"
    BY <1>1, NoProbeEffect DEF ProbeInv
  <1>3. /\ inspected = "running" /\ probe.runtime = job.runtime /\ result = "none"
        /\ VerdictIsTrue(probe.health, exchange, job.runtime)
    BY <1>1 DEF WaitInv, ProbeInv
  <1>4. \/ pc' = "sleep" /\ result' = result
        \/ pc' = "done" /\ result' = "ready" /\ probe.health = "healthy"
    BY DEF Probed, Finish, Pending
  <1>5. WaitInv'
    BY <1>1, <1>2, <1>3, <1>4 DEF WaitInv
  <1>6. RowsInv'
    BY <1>1, <1>3, <1>4, RowsStay
  <1>7. QED
    BY <1>2, <1>5, <1>6 DEF ReadInv

\* The health command takes up a session, or ends.
LEMMA HealthRowStep ==
    ASSUME ReadInv, HealthRow
    PROVE  ReadInv'
  <1>1. /\ ProbeInv /\ WaitInv /\ RowsInv /\ pc = "rows"
        /\ UNCHANGED <<job, container, sessions, interrupted, now, inspected>>
    BY DEF ReadInv, HealthRow
  <1>2. job.context = "health" /\ result = "none" /\ probe.at = "idle"
    BY <1>1 DEF WaitInv
  <1>3. CASE /\ probe' = probe /\ exchange' = exchange /\ rows' = rows /\ pc' = "done"
             /\ result' = "error" \/ (result' = "rows" /\ RowsLeft = {})
    <2>1. ProbeInv'
      BY <1>1, <1>3 DEF ProbeInv
    <2>2. WaitInv'
      BY <1>1, <1>2, <1>3 DEF WaitInv
    <2>3. RowsInv'
      <3>1. CASE result' = "error"
        BY <1>1, <1>2, <1>3, <3>1, RowsStay
      <3>2. CASE result' = "rows" /\ RowsLeft = {}
        <4>1. SelectSessions(job.target)' = SelectSessions(job.target)
          BY <1>1, SelectionStays
        <4>2. RowsLeft' = RowsLeft
          BY <1>1, <1>3, <4>1 DEF RowsLeft
        <4>3. \A i \in DOMAIN rows : RowInv(i) => RowInv(i)'
          BY <1>1, <1>3, <4>2 DEF RowInv
        <4>4. QED
          BY <1>1, <1>3, <3>2, <4>2, <4>3 DEF RowsInv
      <3>3. QED
        BY <1>3, <3>1, <3>2
    <2>4. QED
      BY <2>1, <2>2, <2>3 DEF ReadInv
  <1> DEFINE next == CHOOSE i \in RowsLeft : \A j \in RowsLeft : i <= j
  <1>4. CASE /\ SelectSessions(job.target).ok /\ RowsLeft # {} /\ UNCHANGED <<pc, result>>
             /\ probe' = probe /\ exchange' = exchange
             /\ \/ Row(next, "missing_runtime") /\ sessions[next].runtime \notin RuntimeKinds
                \/ Row(next, "missing_endpoint")
    <2>1. ProbeInv'
      BY <1>1, <1>4 DEF ProbeInv
    <2>2. WaitInv'
      BY <1>1, <1>2, <1>4 DEF WaitInv
    <2>3. pc' # "probe" /\ result' # "rows" /\ UNCHANGED <<job, sessions>>
      BY <1>1, <1>2, <1>4
    <2>4. RowsInv'
      <3>1. PICK n : n = next
        OBVIOUS
      <3>2. CASE Row(next, "missing_runtime") /\ sessions[next].runtime \notin RuntimeKinds
        <4>1. Row(n, "missing_runtime") /\ sessions[n].runtime \notin RuntimeKinds
              /\ n = CHOOSE i \in RowsLeft : \A j \in RowsLeft : i <= j
          BY <3>1, <3>2
        <4> HIDE DEF next
        <4>2. QED
          BY <1>4, <2>3, <4>1, RowAdded
      <3>3. CASE Row(next, "missing_endpoint")
        <4>1. Row(n, "missing_endpoint")
              /\ n = CHOOSE i \in RowsLeft : \A j \in RowsLeft : i <= j
          BY <3>1, <3>3
        <4>2. VerdictIsTrue("missing_endpoint", exchange, sessions[n].runtime)
          BY NoVerdict
        <4> HIDE DEF next
        <4>3. QED
          BY <1>4, <2>3, <4>1, <4>2, RowAdded
      <3>4. QED
        BY <1>4, <3>2, <3>3
    <2>5. QED
      BY <2>1, <2>2, <2>4 DEF ReadInv
  <1>5. ASSUME SelectSessions(job.target).ok, RowsLeft # {}, result' = result, rows' = rows,
               pc' = "probe", sessions[next].runtime \in RuntimeKinds,
               NEW n \in 0 .. MaxAddresses, StartProbe(sessions[next].runtime, n)
        PROVE  ReadInv'
    <2>1. ProbeInv' /\ probe'.at = "address" /\ probe'.runtime = sessions[next].runtime
      BY <1>5, StartProbeEffect
    <2>2. WaitInv'
      BY <1>1, <1>2, <1>5, <2>1 DEF WaitInv
    <2>3. SelectSessions(job.target)' = SelectSessions(job.target)
      BY <1>1, SelectionStays
    <2>4. RowsLeft' = RowsLeft
      BY <1>5, <2>3 DEF RowsLeft
    <2>5. \A i \in DOMAIN rows : RowInv(i) => RowInv(i)'
      BY <1>1, <1>5, <2>4 DEF RowInv
    <2>6. \A i \in Least(RowsLeft) : sessions'[i].runtime = probe'.runtime
      <3>1. RowsLeft \subseteq Nat
        BY <1>1, LeftRuns DEF WaitInv
      <3>2. Least(RowsLeft) = {next}
        BY <1>5, <3>1, LeastIsOne
      <3>3. QED
        BY <1>1, <2>1, <3>2
    <2>7. RowsInv'
      BY <1>1, <1>2, <1>5, <2>3, <2>4, <2>5, <2>6 DEF RowsInv, Least
    <2>8. QED
      BY <2>1, <2>2, <2>7 DEF ReadInv
  <1>6. \/ /\ probe' = probe /\ exchange' = exchange /\ rows' = rows /\ pc' = "done"
           /\ result' = "error" \/ (result' = "rows" /\ RowsLeft = {})
        \/ /\ SelectSessions(job.target).ok /\ RowsLeft # {} /\ UNCHANGED <<pc, result>>
           /\ probe' = probe /\ exchange' = exchange
           /\ \/ Row(next, "missing_runtime") /\ sessions[next].runtime \notin RuntimeKinds
              \/ Row(next, "missing_endpoint")
        \/ /\ SelectSessions(job.target).ok /\ RowsLeft # {} /\ result' = result
           /\ rows' = rows /\ pc' = "probe" /\ sessions[next].runtime \in RuntimeKinds
           /\ \E n \in 0 .. MaxAddresses : StartProbe(sessions[next].runtime, n)
    BY DEF HealthRow, Finish, probeVars
  <1> HIDE DEF next
  <1>7. QED
    BY <1>3, <1>4, <1>5, <1>6

\* The probe of a row is over.
LEMMA RowProbedStep ==
    ASSUME ReadInv, RowProbed
    PROVE  ReadInv'
  <1>1. /\ ProbeInv /\ WaitInv /\ RowsInv /\ pc = "probe" /\ job.context = "health"
        /\ probe.at = "done" /\ probe' = NoProbe /\ exchange' = NoExchange
        /\ pc' = "rows"
        /\ UNCHANGED <<job, container, sessions, interrupted, now, inspected, result>>
    BY DEF ReadInv, RowProbed
  <1>2. ProbeInv' /\ probe'.at = "idle"
    BY <1>1, NoProbeEffect
  <1>3. result = "none" /\ DOMAIN sessions \subseteq Nat
    BY <1>1 DEF WaitInv
  <1>4. WaitInv'
    BY <1>1, <1>2, <1>3 DEF WaitInv
  <1>5. PICK n : n = CHOOSE i \in RowsLeft : \A j \in RowsLeft : i <= j
    OBVIOUS
  <1>6. Row(n, probe.health)
    BY <1>5 DEF RowProbed
  <1>7. SelectSessions(job.target).ok /\ RowsLeft # {}
    BY <1>1 DEF RowsInv
  <1>8. sessions[n].runtime = probe.runtime
    <2>1. RowsLeft \subseteq Nat
      BY <1>3, LeftRuns
    <2>2. n \in Least(RowsLeft)
      BY <1>5, <1>7, <2>1, LeastIsOne
    <2>3. QED
      BY <1>1, <2>2 DEF RowsInv
  <1>9. probe.health \in Verdicts /\ VerdictIsTrue(probe.health, exchange, sessions[n].runtime)
    BY <1>1, <1>8 DEF ProbeInv, Probe
  <1>10. RowsInv'
    BY <1>1, <1>3, <1>5, <1>6, <1>7, <1>9, RowAdded
  <1>11. QED
    BY <1>2, <1>4, <1>10 DEF ReadInv

\* Steps of the probe and of its server.
LEMMA ProbingStep ==
    ASSUME ReadInv, ProbeStep \/ Send \/ Hangup, UNCHANGED waitVars
    PROVE  ReadInv'
  <1>1. /\ ProbeInv /\ WaitInv /\ RowsInv
        /\ UNCHANGED <<job, container, sessions, interrupted, now, pc, inspected, rows, result>>
    BY DEF ReadInv, waitVars
  <1>2. Probing
    BY <1>1, ProbeStepEffect, ServerEffect
  <1>3. pc = "probe" /\ result = "none"
    BY <1>1, <1>2 DEF WaitInv, Probing
  <1>4. WaitInv'
    BY <1>1, <1>2, <1>3 DEF WaitInv, Probing
  <1>5. RowsInv'
    BY <1>1, <1>2, <1>3, RowsStay DEF Probing
  <1>6. QED
    BY <1>2, <1>4, <1>5 DEF ReadInv, Probing

\* What happens around a wait.
LEMMA SurroundingsStep ==
    ASSUME ReadInv, PublishPort \/ ContainerEnds \/ Interrupt \/ TimePasses \/ UNCHANGED vars
    PROVE  ReadInv'
  <1>1. /\ ProbeInv /\ WaitInv /\ RowsInv
        /\ UNCHANGED <<job, sessions, pc, inspected, rows, result>>
        /\ probe' = probe /\ exchange' = exchange
    BY DEF ReadInv, PublishPort, ContainerEnds, Interrupt, TimePasses, vars, waitVars, probeVars
  <1>2. ProbeInv'
    BY <1>1 DEF ProbeInv
  <1>3. RowsInv'
    BY <1>1, RowsStay
  <1>4. now \in Nat /\ Timeout \in Nat /\ now <= Timeout
    BY <1>1, WaitAssumption DEF WaitInv
  <1>5. now' \in 0 .. Timeout /\ (result = "timeout" => now' = Timeout)
    <2>1. CASE TimePasses
      <3>1. now < Timeout /\ now' = now + 1
        BY <2>1 DEF TimePasses
      <3>2. result # "timeout"
        BY <1>1, <1>4, <3>1 DEF WaitInv
      <3>3. QED
        BY <1>4, <3>1, <3>2
    <2>2. CASE now' = now
      BY <1>1, <2>2 DEF WaitInv
    <2>3. QED
      BY <2>1, <2>2 DEF PublishPort, ContainerEnds, Interrupt, vars, waitVars
  <1>6. /\ container' \in [state : {"running", "exited", "gone"}, labels : BOOLEAN,
                           bindings : Seq({"no_port", "port", "bad_port"})]
        /\ container.state # "running" => container'.state # "running"
    <2>1. CASE PublishPort
      <3>1. <<"no_port", "port">> \in Seq({"no_port", "port", "bad_port"})
        OBVIOUS
      <3>2. QED
        BY <1>1, <2>1, <3>1 DEF PublishPort, WaitInv
    <2>2. CASE ContainerEnds
      BY <1>1, <2>2 DEF ContainerEnds, WaitInv
    <2>3. CASE container' = container
      BY <1>1, <2>3 DEF WaitInv
    <2>4. QED
      BY <2>1, <2>2, <2>3 DEF Interrupt, TimePasses, vars, waitVars
  <1>7. WaitInv'
    BY <1>1, <1>5, <1>6 DEF WaitInv
  <1>8. QED
    BY <1>2, <1>3, <1>7 DEF ReadInv

\* The invariant holds in every reachable state: for servers that answer
\* anything of any length, cut in any way, and for any sessions.
THEOREM ReadInvCorrect ==
    Spec => []ReadInv
  <1>1. Init => ReadInv
    BY InvInit
  <1>2. ReadInv /\ [Next]_vars => ReadInv'
    BY WaitStep, InspectStep, ProbedStep, HealthRowStep, RowProbedStep, ProbingStep,
       SurroundingsStep
    DEF Next, ClientStep, Surroundings, Finished
  <1>3. QED
    BY <1>1, <1>2, PTL DEF Spec

\* What a command says about a server is true (wait_with, health_row and the
\* probe below them): ready only for a container that was seen running and an
\* answer that is whole within MAX_HTTP_RESPONSE_BYTES and says so, a timeout
\* only at the deadline, and one true row per selected session, in order.
THEOREM ReadyIsJustifiedCorrect ==
    Spec => []ReadyIsJustified
  <1>1. ASSUME ReadInv
        PROVE  ReadyIsJustified
    <2>1. WaitInv /\ RowsInv
      BY <1>1 DEF ReadInv
    <2>2. \A i \in DOMAIN rows : RowInv(i)
      BY <2>1 DEF RowsInv
    <2>3. ASSUME result = "rows", NEW i \in SelectSessions(job.target).selected
          PROVE  \E k \in DOMAIN rows : rows[k].session = i
      BY <2>1, <2>3 DEF RowsInv, RowsLeft
    <2>4. QED
      BY <2>1, <2>2, <2>3 DEF WaitInv, RowInv, ReadyIsJustified
  <1>2. QED
    BY <1>1, ReadInvCorrect, PTL
===============================================================================
