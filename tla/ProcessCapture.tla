--------------------------- MODULE ProcessCapture ---------------------------
(***************************************************************************)
(* Running a program and taking its output and exit status                 *)
(* (src/src/process.rs, src/src/podman/executor.rs,                        *)
(* src/src/podman/client.rs, src/src/commands/exit_status.rs).             *)
(*                                                                         *)
(* With --verbose the output is forwarded while it comes: one thread per   *)
(* stream cuts it into lines and sends them to the thread that collects    *)
(* them, which stops when both senders are gone.  Otherwise the standard   *)
(* library reads both streams.  The program writes into pipes that hold a  *)
(* bounded number of bytes, may be killed, and may leave a descendant      *)
(* behind that keeps the pipes open.                                       *)
(***************************************************************************)
EXTENDS Naturals, Sequences, SequencesExt

CONSTANTS
    Jobs,           \* what is run: [kind, script, exit]
    PipeSize        \* bytes a pipe holds

ASSUME PipeAssumption == PipeSize \in Nat \ {0}

Streams == {"stdout", "stderr"}

\* Bytes: a character, a blank, the end of a line, and one that is not UTF-8.
Bytes == {"x", " ", "newline", "bad"}

\* How a program is run: its output captured, quietly or forwarded (and the
\* status with it), podman logs, or the status alone with the streams
\* inherited, as an answer or as the exit status of agentbox.
Kinds == {"capture", "streaming", "captureStatus", "logs", "exists", "foreground"}

\* A program writes a finite output and exits with a code.
ASSUME JobsAssumption ==
    \A j \in Jobs :
        /\ j.kind \in Kinds
        /\ j.script \in Seq(Streams \X Bytes)
        /\ j.exit \notin {"none", "running", "signal"}

VARIABLES
    job,            \* the invocation
    pc,             \* spawn, collect, wait, done
    child,          \* "none", "running", an exit code, or "signal"
    rest,           \* what the child has still to write: (stream, byte) pairs
    held,           \* a descendant of the child holds the pipes
    pipe,           \* stream -> bytes written and not read
    reader,         \* stream -> [at, line]: the reader and its unfinished line
    channel,        \* events sent and not received
    collected,      \* stream -> bytes received
    shown,          \* stream -> text forwarded
    readError,      \* the first read error, or "none"
    result,
    written         \* history: stream -> all bytes written

vars == <<job, pc, child, rest, held, pipe, reader, channel, collected, shown, readError,
          result, written>>

Inherited == job.kind \in {"exists", "foreground"}
Streaming == job.kind = "streaming"

Empty == [s \in Streams |-> <<>>]

Init ==
    /\ job \in Jobs
    /\ pc = "spawn"
    /\ child = "none"
    /\ rest = job.script
    /\ held = FALSE
    /\ pipe = Empty
    /\ reader = [s \in Streams |-> [at |-> "none", line |-> <<>>]]
    /\ channel = <<>>
    /\ collected = Empty
    /\ shown = Empty
    /\ readError = "none"
    /\ result = [kind |-> "none"]
    /\ written = Empty

----------------------------------------------------------------------------
(* Starting *)

\* A PATH that cannot be built, no such program, or no process.
SpawnFails ==
    /\ pc = "spawn"
    /\ \E error \in {"setup", "not found", "spawn"} : result' = [kind |-> error]
    /\ pc' = "done"
    /\ UNCHANGED <<job, child, rest, held, pipe, reader, channel, collected, shown, readError, written>>

Spawn ==
    /\ pc = "spawn"
    /\ child' = "running"
    /\ pc' = IF Inherited THEN "wait" ELSE "collect"
    /\ reader' = [s \in Streams |-> [at |-> IF Inherited THEN "none" ELSE "reading", line |-> <<>>]]
    /\ UNCHANGED <<job, rest, held, pipe, channel, collected, shown, readError, result, written>>

----------------------------------------------------------------------------
(* The child *)

\* It writes where there is room, or to the inherited streams; a pipe nobody
\* reads any more ends it.
ChildWrites ==
    LET s == Head(rest)[1]
        byte == Head(rest)[2]
        broken == reader[s].at = "ended"
    IN  /\ child = "running" /\ rest # <<>>
        /\ Inherited \/ broken \/ Len(pipe[s]) < PipeSize
        /\ child' = IF broken THEN "signal" ELSE child
        /\ rest' = IF broken THEN rest ELSE Tail(rest)
        /\ pipe' = IF broken \/ Inherited THEN pipe ELSE [pipe EXCEPT ![s] = Append(@, byte)]
        /\ written' = IF broken THEN written ELSE [written EXCEPT ![s] = Append(@, byte)]
        /\ UNCHANGED <<job, pc, held, reader, channel, collected, shown, readError, result>>

ChildExits ==
    /\ child = "running" /\ rest = <<>>
    /\ child' = job.exit
    /\ held' \in BOOLEAN
    /\ UNCHANGED <<job, pc, rest, pipe, reader, channel, collected, shown, readError, result, written>>

ChildKilled ==
    /\ child = "running"
    /\ child' = "signal"
    /\ held' \in BOOLEAN
    /\ UNCHANGED <<job, pc, rest, pipe, reader, channel, collected, shown, readError,
                   result, written>>

DescendantEnds ==
    /\ held /\ held' = FALSE
    /\ UNCHANGED <<job, pc, child, rest, pipe, reader, channel, collected, shown, readError,
                   result, written>>

----------------------------------------------------------------------------
(* The readers *)

AtEnd(s) == pipe[s] = <<>> /\ child # "running" /\ ~held

\* A mutant that reads the streams one after the other.
MayReadInTurn(s) == s = "stderr" => reader["stdout"].at = "ended"

\* spawn_stream_reader: both streams are read at the same time.
MayRead(s) == reader[s].at = "reading"

\* One byte: into the line, which is sent when it ends, or, without
\* streaming, straight to what is collected.
ReadByte(s) ==
    LET byte == Head(pipe[s])
        line == Append(reader[s].line, byte)
    IN  /\ reader[s].at = "reading" /\ MayRead(s) /\ pipe[s] # <<>>
        /\ pipe' = [pipe EXCEPT ![s] = Tail(@)]
        /\ IF ~Streaming
           THEN collected' = [collected EXCEPT ![s] = Append(@, byte)] /\ UNCHANGED <<reader, channel>>
           ELSE /\ UNCHANGED collected
                /\ reader' = [reader EXCEPT ![s].line = IF byte = "newline" THEN <<>> ELSE line]
                /\ channel' = IF byte = "newline"
                              THEN Append(channel, [ok |-> TRUE, stream |-> s, bytes |-> line])
                              ELSE channel
        /\ UNCHANGED <<job, pc, child, rest, held, shown, readError, result, written>>

\* A mutant that forgets a last line without a newline.
ReadEndDropsLine(s) ==
    /\ reader[s].at = "reading" /\ MayRead(s) /\ AtEnd(s)
    /\ reader' = [reader EXCEPT ![s] = [at |-> "ended", line |-> <<>>]]
    /\ UNCHANGED <<job, pc, child, rest, held, pipe, channel, collected, shown, readError,
                   result, written>>

\* The end of the stream: read_until hands out an unfinished line first.
ReadEnd(s) ==
    /\ reader[s].at = "reading" /\ MayRead(s) /\ AtEnd(s)
    /\ IF reader[s].line # <<>>
       THEN /\ channel' = Append(channel, [ok |-> TRUE, stream |-> s, bytes |-> reader[s].line])
            /\ reader' = [reader EXCEPT ![s].line = <<>>]
       ELSE reader' = [reader EXCEPT ![s].at = "ended"] /\ UNCHANGED channel
    /\ UNCHANGED <<job, pc, child, rest, held, pipe, collected, shown, readError, result, written>>

\* A read error ends the reader, and the unfinished line is lost.
ReadError(s) ==
    /\ Streaming /\ reader[s].at = "reading"
    /\ channel' = Append(channel, [ok |-> FALSE, stream |-> s, bytes |-> <<>>])
    /\ reader' = [reader EXCEPT ![s] = [at |-> "ended", line |-> <<>>]]
    /\ pipe' = [pipe EXCEPT ![s] = <<>>]
    /\ UNCHANGED <<job, pc, child, rest, held, collected, shown, readError, result, written>>

----------------------------------------------------------------------------
(* The collector *)

\* String::from_utf8_lossy: what is forwarded for bytes that are not UTF-8.
Lossy(bytes) == [i \in DOMAIN bytes |-> IF bytes[i] = "bad" THEN "replaced" ELSE bytes[i]]

Receive ==
    LET event == Head(channel)
    IN  /\ pc = "collect" /\ channel # <<>>
        /\ channel' = Tail(channel)
        /\ IF event.ok
           THEN /\ collected' = [collected EXCEPT ![event.stream] = @ \o event.bytes]
                /\ shown' = [shown EXCEPT ![event.stream] = @ \o Lossy(event.bytes)]
                /\ UNCHANGED readError
           ELSE /\ readError' = IF readError = "none" THEN event.stream ELSE readError
                /\ UNCHANGED <<collected, shown>>
        /\ UNCHANGED <<job, pc, child, rest, held, pipe, reader, result, written>>

\* The channel is closed when both readers are gone.
ChannelClosed ==
    /\ pc = "collect" /\ channel = <<>>
    /\ \A s \in Streams : reader[s].at = "ended"
    /\ pc' = "wait"
    /\ UNCHANGED <<job, child, rest, held, pipe, reader, channel, collected, shown, readError,
                   result, written>>

----------------------------------------------------------------------------
(* The result *)

Blank(bytes) == \A i \in DOMAIN bytes : bytes[i] \in {" ", "newline"}

\* output_detail: the stream an error message quotes.
OutputDetail == IF ~Blank(collected["stderr"]) THEN "stderr"
                ELSE IF ~Blank(collected["stdout"]) THEN "stdout" ELSE "no output"

Utf8Error == \E s \in Streams : "bad" \in ToSet(collected[s])

\* logs_tail: the error stream starts on a line of its own.
LogsTail(out, err) ==
    out \o (IF out # <<>> /\ Last(out) # "newline" /\ err # <<>> THEN <<"newline">> ELSE <<>>) \o err

\* try_run_command_capture_status(_streaming) after the wait, then run_command.
CaptureResult ==
    IF readError # "none" THEN [kind |-> "read"]
    ELSE IF Utf8Error THEN [kind |-> "utf8"]
    ELSE IF job.kind = "captureStatus" THEN [kind |-> "status", status |-> child]
    ELSE IF child # "0" THEN [kind |-> "exit", detail |-> OutputDetail]
    ELSE IF job.kind = "logs"
    THEN [kind |-> "logs", logs |-> LogsTail(collected["stdout"], collected["stderr"])]
    ELSE [kind |-> "ok"]

\* Podman::exists_status
ExistsResult == CASE child = "0" -> [kind |-> "present"]
                  [] child = "1" -> [kind |-> "absent"]
                  [] OTHER -> [kind |-> "exit", detail |-> "no output"]

\* CommandExitFailure: a code is passed on, a signal is an error of its own.
ForegroundResult == CASE child = "0" -> [kind |-> "ok"]
                      [] child = "signal" -> [kind |-> "signal"]
                      [] OTHER -> [kind |-> "code", code |-> child]

Outcome == CASE job.kind = "exists" -> ExistsResult
             [] job.kind = "foreground" -> ForegroundResult
             [] OTHER -> CaptureResult

Wait ==
    /\ pc = "wait" /\ child # "running"
    /\ pc' = "done"
    /\ result' = Outcome
    /\ UNCHANGED <<job, child, rest, held, pipe, reader, channel, collected, shown, readError, written>>

----------------------------------------------------------------------------

ChildStep == ChildWrites \/ ChildExits

ReaderStep(s) == ReadByte(s) \/ ReadEnd(s)

MainStep == SpawnFails \/ Spawn \/ Receive \/ ChannelClosed \/ Wait

Finished == pc = "done" /\ UNCHANGED vars

Next ==
    \/ MainStep \/ ChildStep \/ ChildKilled \/ DescendantEnds
    \/ \E s \in Streams : ReaderStep(s) \/ ReadError(s)
    \/ Finished

\* The threads of the process run, and so do the program and what it leaves
\* behind.
Spec ==
    /\ Init /\ [][Next]_vars
    /\ WF_vars(MainStep) /\ WF_vars(ChildStep) /\ WF_vars(DescendantEnds)
    /\ \A s \in Streams : WF_vars(ReaderStep(s))

----------------------------------------------------------------------------
(* Properties *)

WroteBad == \E s \in Streams : "bad" \in ToSet(written[s])

(* Whatever the order in which the program, the two readers and the        *)
(* collector run: a result without an error holds every byte the program   *)
(* wrote to each stream, in order, and what was forwarded of each is the   *)
(* same, line by line as it is as a whole, but for a mark in the place of  *)
(* what is not UTF-8; it is a success exactly when the program exited with *)
(* 0; an exists command says absent for the exit status 1 alone, and never *)
(* for a kill or a failure; and an error message has something to quote    *)
(* when there was output.                                                  *)
OutputComplete ==
    pc = "done" /\ child # "none" =>
        /\ child # "running"
        /\ result.kind \in {"ok", "exit", "status", "logs"} /\ ~Inherited => collected = written
        /\ Streaming => \A s \in Streams : shown[s] = Lossy(collected[s])
        /\ result.kind \in {"ok", "logs", "present"} => child = "0"
        /\ result.kind = "absent" => child = "1"
        /\ child = "0" /\ readError = "none" /\ ~WroteBad =>
              result.kind \in {"ok", "logs", "present", "status"}
        /\ result.kind = "utf8" => WroteBad
        /\ result.kind = "exit" /\ ~Inherited /\ result.detail = "no output" =>
              \A s \in Streams : Blank(written[s])
        /\ result.kind = "logs" =>
              \A i \in 1 .. Len(result.logs) - 1 :
                 i = Len(written["stdout"]) /\ written["stderr"] # <<>> =>
                    result.logs[i] = "newline" \/ result.logs[i + 1] = "newline"

(* A capture ends when the program and its descendants do, however much    *)
(* they write to which stream: neither side waits for the other for good.  *)
CaptureReturns == <>(pc = "done")

=============================================================================
