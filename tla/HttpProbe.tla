------------------------------ MODULE HttpProbe ------------------------------
(***************************************************************************)
(* The probe of a runtime server (src/src/runtime/health.rs and            *)
(* src/src/runtime/http_probe/): every address of the endpoint in turn is  *)
(* connected to, asked, and read from until the answer is complete, cut    *)
(* short or too large.                                                     *)
(*                                                                         *)
(* Lengths are in units; the server sends one unit at a time and may stop, *)
(* close or reset the connection anywhere, so every way of cutting an      *)
(* answer into reads occurs.  A read that finds nothing times out.         *)
(***************************************************************************)
EXTENDS RuntimeProfile

CONSTANTS
    MaxResponse,    \* MAX_HTTP_RESPONSE_BYTES
    Chunk,          \* the buffer of one read
    MaxAddresses,   \* addresses an endpoint can resolve to
    Responses,      \* what servers answer: a subset of Response
    NoLength,       \* no Content-Length header
    Huge,           \* a Content-Length beyond the bound, or past usize
    Endless         \* a body without an end

\* An answer: the length of the header block up to the blank line, whether it
\* parses, the status, the declared length, the length of the body and what
\* the whole body says.  A part of a body is not JSON.
Response ==
    [head : 1 .. MaxResponse, valid : BOOLEAN, status : {200, 503},
     length : 0 .. MaxResponse \cup {NoLength, Huge},
     body : 0 .. MaxResponse \cup {Endless},
     json : {"healthy", "healthy_false", "malformed_json"}]

ASSUME ProbeAssumption ==
    /\ MaxResponse \in Nat /\ Chunk \in Nat \ {0} /\ MaxAddresses \in Nat
    /\ Responses \subseteq Response

VARIABLES
    probe,          \* where the probe is, for which runtime, addresses left, verdicts
    exchange        \* the connection, or the one the verdict is from

probeVars == <<probe, exchange>>

NoExchange == [link |-> "none"]

NoProbe == [at |-> "idle", runtime |-> "codex", addresses |-> 0, health |-> "none"]

ProbeInit == probe = NoProbe /\ exchange = NoExchange

----------------------------------------------------------------------------
(* Reading *)

\* How far the reader is with what it has read: the headers, parse_http_
\* response_headers, then the declared body or whatever comes.
ReadPhase(e) ==
    IF e.read < e.response.head THEN "headers"
    ELSE IF ~e.response.valid THEN "failed"
    ELSE IF e.response.length = NoLength THEN "undeclared"
    ELSE IF e.response.length = Huge THEN "failed"
    ELSE IF e.response.head + e.response.length > MaxResponse THEN "failed"
    ELSE IF e.read < e.response.head + e.response.length THEN "declared"
    ELSE "complete"

\* The body handed to the policy: cut to the declared length.
BodyRead(e) ==
    IF e.response.length = NoLength THEN e.read - e.response.head ELSE e.response.length

\* health_response_status
HealthResponse(e, runtime) ==
    IF e.response.status # 200 THEN "http_status"
    ELSE IF HealthPolicy(runtime) = "HttpOk" THEN "healthy"
    ELSE IF e.response.body # Endless /\ BodyRead(e) = e.response.body THEN e.response.json
    ELSE "malformed_json"

----------------------------------------------------------------------------
(* The probe *)

\* HostRuntimeHealthProbe::check; n = 0 when the endpoint does not resolve.
StartProbe(runtime, n) ==
    /\ probe' = [at |-> "address", runtime |-> runtime, addresses |-> n, health |-> "unreachable"]
    /\ exchange' = NoExchange

\* The verdict on one connection: the first healthy one ends the probe, the
\* last other one is remembered.
ConnectionHealth(health) ==
    probe' = [probe EXCEPT !.at = IF health = "healthy" THEN "done" ELSE "address",
                           !.addresses = @ - 1, !.health = health]

\* The next address: no connection within the timeout, or the request is
\* written, or writing it fails.
Connect ==
    /\ probe.at = "address" /\ probe.addresses > 0
    /\ \/ probe' = [probe EXCEPT !.addresses = @ - 1] /\ UNCHANGED exchange
       \/ \E r \in Responses :
             /\ exchange' = [link |-> "open", response |-> r, unread |-> 0, read |-> 0]
             /\ probe' = [probe EXCEPT !.at = "reading"]
       \/ ConnectionHealth("unreachable") /\ exchange' = NoExchange

OutOfAddresses ==
    /\ probe.at = "address" /\ probe.addresses = 0
    /\ probe' = [probe EXCEPT !.at = "done"]
    /\ UNCHANGED exchange

\* A mutant without the bound; the count stays where it is.
ReadDataUnbounded(n) ==
    LET e == [exchange EXCEPT !.unread = @ - n,
                              !.read = IF @ + n > MaxResponse THEN MaxResponse ELSE @ + n]
    IN  /\ probe.at = "reading" /\ exchange.link # "reset" /\ exchange.unread >= n
        /\ exchange' = e
        /\ CASE ReadPhase(e) = "failed" -> ConnectionHealth("unreachable")
             [] ReadPhase(e) = "complete" -> ConnectionHealth(HealthResponse(e, probe.runtime))
             [] OTHER -> UNCHANGED probe

\* read_chunk with data, and what the loops around it do next.
ReadData(n) ==
    LET e == [exchange EXCEPT !.unread = @ - n, !.read = @ + n]
    IN  /\ probe.at = "reading" /\ exchange.link # "reset" /\ exchange.unread >= n
        /\ exchange' = e
        /\ IF e.read > MaxResponse THEN ConnectionHealth("unreachable")
           ELSE CASE ReadPhase(e) = "failed" -> ConnectionHealth("unreachable")
                  [] ReadPhase(e) = "complete" ->
                        ConnectionHealth(HealthResponse(e, probe.runtime))
                  [] OTHER -> UNCHANGED probe

\* A mutant that takes an incomplete declared body for a complete one.
ReadNothingIsComplete ==
    /\ probe.at = "reading" /\ exchange.link # "reset" /\ exchange.unread = 0
    /\ ConnectionHealth(IF ReadPhase(exchange) \in {"undeclared", "declared"}
                        THEN HealthResponse(exchange, probe.runtime) ELSE "unreachable")
    /\ UNCHANGED exchange

\* read_chunk without data, End or Timeout: only an undeclared body may end so.
ReadNothing ==
    /\ probe.at = "reading" /\ exchange.link # "reset" /\ exchange.unread = 0
    /\ ConnectionHealth(IF ReadPhase(exchange) = "undeclared"
                        THEN HealthResponse(exchange, probe.runtime) ELSE "unreachable")
    /\ UNCHANGED exchange

ReadFails ==
    /\ probe.at = "reading" /\ exchange.link = "reset"
    /\ ConnectionHealth("unreachable")
    /\ UNCHANGED exchange

ProbeStep ==
    \/ Connect \/ OutOfAddresses
    \/ \E n \in 1 .. Chunk : ReadData(n)
    \/ ReadNothing \/ ReadFails

----------------------------------------------------------------------------
(* The server *)

Unsent(e) == e.response.body # Endless => e.read + e.unread < e.response.head + e.response.body

Send ==
    /\ exchange.link = "open" /\ probe.at = "reading"
    /\ exchange.unread < Chunk /\ Unsent(exchange)
    /\ exchange' = [exchange EXCEPT !.unread = @ + 1]
    /\ UNCHANGED probe

Hangup ==
    /\ exchange.link = "open" /\ probe.at = "reading"
    /\ \E how \in {"closed", "reset"} : exchange' = [exchange EXCEPT !.link = how]
    /\ UNCHANGED probe

----------------------------------------------------------------------------

\* The whole answer arrived: the body is as long as it was declared to be.
AnsweredWhole(e) ==
    /\ e.response.body # Endless
    /\ e.response.length \in {NoLength, e.response.body}
    /\ e.read = e.response.head + e.response.body

\* What was declared arrived, nothing of it beyond the bound.
DeclaredArrived(e) ==
    e.response.length # NoLength =>
        /\ e.response.length # Huge
        /\ e.response.head + e.response.length <= e.read

=============================================================================
