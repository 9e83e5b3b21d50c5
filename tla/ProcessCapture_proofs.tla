----------------------- MODULE ProcessCapture_proofs -----------------------
(***************************************************************************)
(* Proofs about ProcessCapture: any programs, writing any bytes to either  *)
(* stream in any order, and pipes of any size.  What was written to a      *)
(* stream is accounted for byte by byte: it is what was collected, what is *)
(* in the channel, the unfinished line of the reader, and the pipe.        *)
(***************************************************************************)
EXTENDS ProcessCapture, TLAPS

-----------------------------------------------------------------------------
(* The inductive invariant. *)

Event == [ok : BOOLEAN, stream : Streams, bytes : Seq(Bytes)]

Readers == [at : {"none", "reading", "ended"}, line : Seq(Bytes)]

TypeOK ==
    /\ job \in Jobs
    /\ pc \in {"spawn", "collect", "wait", "done"}
    /\ rest \in Seq(Streams \X Bytes)
    /\ held \in BOOLEAN
    /\ pipe \in [Streams -> Seq(Bytes)]
    /\ reader \in [Streams -> Readers]
    /\ channel \in Seq(Event)
    /\ collected \in [Streams -> Seq(Bytes)]
    /\ shown \in [Streams -> Seq(Bytes \cup {"replaced"})]
    /\ readError \in Streams \cup {"none"}
    /\ written \in [Streams -> Seq(Bytes)]

\* The places of the collector, the child and the readers fit.
ControlInv ==
    /\ pc = "spawn" => child = "none"
    /\ child = "none" => pc \in {"spawn", "done"} /\ \A s \in Streams : reader[s].at = "none"
    /\ \A s \in Streams : reader[s].at # "reading" => reader[s].line = <<>>
    /\ Inherited => pc # "collect" /\ \A s \in Streams : reader[s].at = "none"
    /\ ~Inherited /\ child # "none" => \A s \in Streams : reader[s].at # "none"
    /\ ~Streaming =>
          channel = <<>> /\ readError = "none" /\ \A s \in Streams : reader[s].line = <<>>
    /\ ~Inherited /\ child # "none" /\ pc \in {"wait", "done"} =>
          channel = <<>> /\ \A s \in Streams : reader[s].at = "ended"

AllOk(events) == \A i \in 1 .. Len(events) : events[i].ok

NoErrors == readError = "none" /\ AllOk(channel)

\* Without a read error a reader ends when nothing more can come.
EndedInv ==
    NoErrors => \A s \in Streams : reader[s].at = "ended" => child # "running" /\ pipe[s] = <<>>

\* A part is in its place in the whole, behind k bytes.
Lies(part, whole, k) ==
    /\ k + Len(part) <= Len(whole)
    /\ \A i \in 1 .. Len(part) : whole[k + i] = part[i]

\* cut[i] bytes of the stream are in front of the i-th event's end.
CutsChannel(whole, events, s, cut) ==
    \A i \in 1 .. Len(events) :
       /\ events[i].stream # s => cut[i] = cut[i - 1]
       /\ events[i].stream = s =>
             /\ cut[i] = cut[i - 1] + Len(events[i].bytes)
             /\ Lies(events[i].bytes, whole, cut[i - 1])

Cuts(whole, got, events, s, line, rear, cut) ==
    /\ cut \in [0 .. Len(events) -> Nat]
    /\ cut[0] = Len(got)
    /\ CutsChannel(whole, events, s, cut)
    /\ cut[Len(events)] + Len(line) + Len(rear) = Len(whole)
    /\ Lies(got, whole, 0)
    /\ Lies(line, whole, cut[Len(events)])
    /\ Lies(rear, whole, cut[Len(events)] + Len(line))

\* The whole stream is, one after the other, what was got, the stream's
\* events, the unfinished line and what is in the pipe.
Flows(whole, got, events, s, line, rear) ==
    \E cut : Cuts(whole, got, events, s, line, rear, cut)

FlowInv ==
    ~Inherited /\ NoErrors =>
       \A s \in Streams :
          Flows(written[s], collected[s], channel, s, reader[s].line, pipe[s])

ShownInv == Streaming => \A s \in Streams : shown[s] = Lossy(collected[s])

ResultInv == pc = "done" /\ child # "none" => child # "running" /\ result = Outcome

CaptureInv == TypeOK /\ ControlInv /\ EndedInv /\ FlowInv /\ ShownInv /\ ResultInv

-----------------------------------------------------------------------------
(* Who can go on: the guards of the steps that the scheduler, the program  *)
(* and its descendants take in the end.                                    *)

ChildCan ==
    /\ child = "running"
    /\ rest # <<>> =>
          LET s == Head(rest)[1]
          IN  Inherited \/ reader[s].at = "ended" \/ Len(pipe[s]) < PipeSize

ReaderCan(s) == reader[s].at = "reading" /\ (pipe[s] # <<>> \/ AtEnd(s))

MainCan ==
    \/ pc = "spawn"
    \/ pc = "collect" /\ (channel # <<>> \/ \A s \in Streams : reader[s].at = "ended")
    \/ pc = "wait" /\ child # "running"

SomebodyCan == MainCan \/ ChildCan \/ held \/ \E s \in Streams : ReaderCan(s)

-----------------------------------------------------------------------------
(* One stream: what the steps do to the places of its bytes. *)

\* A longer whole leaves every part in its place.
LEMMA LiesInLonger ==
    ASSUME NEW S, NEW part \in Seq(S), NEW whole \in Seq(S), NEW b \in S, NEW k \in Nat,
           Lies(part, whole, k)
    PROVE  Lies(part, Append(whole, b), k)
  BY DEF Lies

\* A part and the byte behind it.
LEMMA LiesGrows ==
    ASSUME NEW S, NEW part \in Seq(S), NEW rear \in Seq(S), NEW whole \in Seq(S), NEW k \in Nat,
           rear # <<>>, Lies(part, whole, k), Lies(rear, whole, k + Len(part))
    PROVE  Lies(Append(part, Head(rear)), whole, k)
  <1>1. Len(rear) > 0 /\ Head(rear) = rear[1]
    OBVIOUS
  <1>2. rear[1] = whole[k + Len(part) + 1]
    BY <1>1 DEF Lies
  <1>3. k + Len(part) + 1 <= Len(whole)
    BY <1>1 DEF Lies
  <1> DEFINE more == Append(part, Head(rear))
  <1>4. /\ Len(more) = Len(part) + 1 /\ more[Len(part) + 1] = rear[1]
        /\ \A i \in 1 .. Len(part) : more[i] = part[i]
    BY <1>1
  <1>5. \A i \in 1 .. Len(part) : whole[k + i] = part[i]
    BY DEF Lies
  <1> HIDE DEF more
  <1>6. ASSUME NEW i \in 1 .. Len(more)
        PROVE  whole[k + i] = more[i]
    <2>1. CASE i = Len(part) + 1
      BY <1>2, <1>4, <2>1
    <2>2. CASE i # Len(part) + 1
      <3>1. i \in 1 .. Len(part)
        BY <1>4, <2>2
      <3>2. QED
        BY <1>4, <1>5, <3>1
    <2>3. QED
      BY <2>1, <2>2
  <1>7. k + Len(more) <= Len(whole)
    BY <1>3, <1>4
  <1>8. QED
    BY <1>6, <1>7 DEF Lies, more

\* A part without its first byte.
LEMMA LiesShrinks ==
    ASSUME NEW S, NEW rear \in Seq(S), NEW whole \in Seq(S), NEW k \in Nat,
           rear # <<>>, Lies(rear, whole, k)
    PROVE  Lies(Tail(rear), whole, k + 1)
  <1>1. Len(rear) > 0 /\ Tail(rear) \in Seq(S) /\ Len(Tail(rear)) = Len(rear) - 1
    OBVIOUS
  <1>2. \A i \in 1 .. Len(rear) - 1 : Tail(rear)[i] = rear[i + 1]
    OBVIOUS
  <1>3. \A i \in 1 .. Len(rear) - 1 : whole[k + 1 + i] = rear[i + 1]
    BY <1>1 DEF Lies
  <1>4. QED
    BY <1>1, <1>2, <1>3 DEF Lies

\* The last byte written.
LEMMA LiesWritten ==
    ASSUME NEW S, NEW rear \in Seq(S), NEW whole \in Seq(S), NEW b \in S, NEW k \in Nat,
           Lies(rear, whole, k), k + Len(rear) = Len(whole)
    PROVE  Lies(Append(rear, b), Append(whole, b), k)
  BY DEF Lies

\* Two parts one behind the other.
LEMMA LiesJoin ==
    ASSUME NEW S, NEW one \in Seq(S), NEW two \in Seq(S), NEW whole \in Seq(S), NEW k \in Nat,
           Lies(one, whole, k), Lies(two, whole, k + Len(one))
    PROVE  Lies(one \o two, whole, k)
  <1>1. /\ one \o two \in Seq(S) /\ Len(one \o two) = Len(one) + Len(two)
        /\ \A i \in 1 .. Len(one) : (one \o two)[i] = one[i]
        /\ \A i \in Len(one) + 1 .. Len(one) + Len(two) : (one \o two)[i] = two[i - Len(one)]
    OBVIOUS
  <1>2. k + Len(one) + Len(two) <= Len(whole)
    BY DEF Lies
  <1>3. ASSUME NEW i \in Len(one) + 1 .. Len(one) + Len(two)
        PROVE  whole[k + i] = two[i - Len(one)]
    <2>1. i - Len(one) \in 1 .. Len(two) /\ k + Len(one) + (i - Len(one)) = k + i
      OBVIOUS
    <2>2. QED
      BY <2>1 DEF Lies
  <1>4. QED
    BY <1>1, <1>2, <1>3 DEF Lies

\* A cut is at a byte.
LEMMA CutTyped ==
    ASSUME NEW whole, NEW got, NEW events \in Seq(Event), NEW s, NEW line, NEW rear, NEW cut,
           Cuts(whole, got, events, s, line, rear, cut)
    PROVE  /\ cut \in [0 .. Len(events) -> Nat] /\ Len(events) \in Nat
           /\ cut[Len(events)] \in Nat
           /\ \A i \in 1 .. Len(events) : cut[i - 1] \in Nat /\ cut[i] \in Nat
  <1>1. cut \in [0 .. Len(events) -> Nat]
    BY DEF Cuts
  <1>2. Len(events) \in Nat
    OBVIOUS
  <1>3. QED
    BY <1>1, <1>2

\* An event's bytes.
LEMMA EventTyped ==
    ASSUME NEW events \in Seq(Event), NEW i \in 1 .. Len(events)
    PROVE  events[i] \in Event /\ events[i].bytes \in Seq(Bytes) /\ events[i].stream \in Streams
  <1>1. events[i] \in Event
    OBVIOUS
  <1>2. QED
    BY <1>1 DEF Event

\* A byte is written: it is the last in the pipe.
LEMMA FlowsWrite ==
    ASSUME NEW whole \in Seq(Bytes), NEW got \in Seq(Bytes), NEW events \in Seq(Event),
           NEW s \in Streams, NEW line \in Seq(Bytes), NEW rear \in Seq(Bytes), NEW b \in Bytes,
           Flows(whole, got, events, s, line, rear)
    PROVE  Flows(Append(whole, b), got, events, s, line, Append(rear, b))
  <1> PICK cut : Cuts(whole, got, events, s, line, rear, cut)
    BY DEF Flows
  <1> DEFINE longer == Append(whole, b)
             n == Len(events)
  <1>1. cut \in [0 .. n -> Nat] /\ n \in Nat /\ cut[n] \in Nat
    BY CutTyped
  <1>2. longer \in Seq(Bytes) /\ Len(longer) = Len(whole) + 1 /\ Len(Append(rear, b)) = Len(rear) + 1
    OBVIOUS
  <1>3. CutsChannel(longer, events, s, cut)
    <2>1. ASSUME NEW i \in 1 .. n, events[i].stream = s
          PROVE  Lies(events[i].bytes, longer, cut[i - 1])
      <3>1. events[i].bytes \in Seq(Bytes) /\ cut[i - 1] \in Nat
        BY CutTyped, EventTyped
      <3>2. Lies(events[i].bytes, whole, cut[i - 1])
        BY <2>1 DEF Cuts, CutsChannel
      <3>3. QED
        BY <3>1, <3>2, LiesInLonger
    <2>2. QED
      BY <2>1 DEF Cuts, CutsChannel
  <1>4. Lies(got, longer, 0) /\ Lies(line, longer, cut[n])
    BY <1>1, LiesInLonger DEF Cuts
  <1>5. Lies(Append(rear, b), longer, cut[n] + Len(line))
    BY <1>1, LiesWritten DEF Cuts
  <1>6. Cuts(longer, got, events, s, line, Append(rear, b), cut)
    BY <1>1, <1>2, <1>3, <1>4, <1>5 DEF Cuts
  <1>7. QED
    BY <1>6 DEF Flows

\* A byte goes from the pipe into the line.
LEMMA FlowsRead ==
    ASSUME NEW whole \in Seq(Bytes), NEW got \in Seq(Bytes), NEW events \in Seq(Event),
           NEW s \in Streams, NEW line \in Seq(Bytes), NEW rear \in Seq(Bytes), rear # <<>>,
           Flows(whole, got, events, s, line, rear)
    PROVE  Flows(whole, got, events, s, Append(line, Head(rear)), Tail(rear))
  <1> PICK cut : Cuts(whole, got, events, s, line, rear, cut)
    BY DEF Flows
  <1> DEFINE n == Len(events)
             k == cut[n] + Len(line)
  <1>0. cut \in [0 .. n -> Nat] /\ n \in Nat /\ cut[n] \in Nat
    BY CutTyped
  <1>1. k \in Nat
    BY <1>0
  <1>2. /\ Len(Append(line, Head(rear))) = Len(line) + 1
        /\ Len(rear) > 0 /\ Len(Tail(rear)) = Len(rear) - 1
    OBVIOUS
  <1>3. Lies(Append(line, Head(rear)), whole, cut[n])
    BY <1>0, LiesGrows DEF Cuts
  <1>4. Lies(Tail(rear), whole, k + 1)
    BY <1>1, LiesShrinks DEF Cuts
  <1>5. Cuts(whole, got, events, s, Append(line, Head(rear)), Tail(rear), cut)
    BY <1>0, <1>2, <1>3, <1>4 DEF Cuts
  <1>6. QED
    BY <1>5 DEF Flows

\* Without streaming it goes straight to what is collected.
LEMMA FlowsCollect ==
    ASSUME NEW whole \in Seq(Bytes), NEW got \in Seq(Bytes), NEW events \in Seq(Event),
           NEW s \in Streams, NEW line \in Seq(Bytes), NEW rear \in Seq(Bytes), rear # <<>>,
           events = <<>>, line = <<>>,
           Flows(whole, got, events, s, line, rear)
    PROVE  Flows(whole, Append(got, Head(rear)), events, s, line, Tail(rear))
  <1> PICK cut : Cuts(whole, got, events, s, line, rear, cut)
    BY DEF Flows
  <1> DEFINE more == Append(got, Head(rear))
             next == [i \in 0 .. 0 |-> Len(more)]
  <1>1. Len(events) = 0 /\ Len(line) = 0
    OBVIOUS
  <1>2. /\ more \in Seq(Bytes) /\ Len(more) = Len(got) + 1
        /\ Len(rear) > 0 /\ Len(Tail(rear)) = Len(rear) - 1 /\ Tail(rear) \in Seq(Bytes)
    OBVIOUS
  <1>3. cut[0] = Len(got) /\ Len(got) + Len(rear) = Len(whole) /\ Len(got) \in Nat
    BY <1>1 DEF Cuts
  <1>4. Lies(got, whole, 0) /\ Lies(rear, whole, Len(got))
    BY <1>1, <1>3 DEF Cuts
  <1>5. Lies(more, whole, 0)
    BY <1>4, LiesGrows
  <1>6. Lies(Tail(rear), whole, Len(more))
    BY <1>2, <1>3, <1>4, LiesShrinks
  <1>7. Lies(line, whole, Len(more))
    BY <1>1, <1>2, <1>3 DEF Lies
  <1> HIDE DEF more
  <1>8. next \in [0 .. Len(events) -> Nat] /\ next[0] = Len(more)
    BY <1>1, <1>2
  <1>9. Cuts(whole, more, events, s, line, Tail(rear), next)
    BY <1>1, <1>2, <1>3, <1>5, <1>6, <1>7, <1>8 DEF Cuts, CutsChannel
  <1>10. QED
    BY <1>9 DEF Flows, more


\* The unfinished line becomes the last event.
LEMMA FlowsSend ==
    ASSUME NEW whole \in Seq(Bytes), NEW got \in Seq(Bytes), NEW events \in Seq(Event),
           NEW s \in Streams, NEW line \in Seq(Bytes), NEW rear \in Seq(Bytes),
           NEW e \in Event, e.stream = s, e.bytes = line,
           Flows(whole, got, events, s, line, rear)
    PROVE  Flows(whole, got, Append(events, e), s, <<>>, rear)
  <1> PICK cut : Cuts(whole, got, events, s, line, rear, cut)
    BY DEF Flows
  <1> DEFINE n == Len(events)
             more == Append(events, e)
             end == cut[n] + Len(line)
             next == [i \in 0 .. n + 1 |-> IF i = n + 1 THEN end ELSE cut[i]]
  <1>1. cut \in [0 .. n -> Nat] /\ n \in Nat /\ cut[n] \in Nat
    BY CutTyped
  <1>2. end \in Nat
    BY <1>1
  <1>3. /\ more \in Seq(Event) /\ Len(more) = n + 1 /\ more[n + 1] = e
        /\ \A i \in 1 .. n : more[i] = events[i]
    OBVIOUS
  <1>4. cut[0] = Len(got) /\ Lies(got, whole, 0) /\ Lies(line, whole, cut[n])
    BY DEF Cuts
  <1>5. Lies(rear, whole, end) /\ end + Len(rear) = Len(whole)
    BY DEF Cuts
  <1>6. CutsChannel(whole, events, s, cut)
    BY DEF Cuts
  <1>7. Len(line) \in Nat /\ Len(rear) \in Nat /\ Len(<<>>) = 0
    OBVIOUS
  <1>8. end = cut[n] + Len(line)
    OBVIOUS
  <1> HIDE DEF n, more, end
  <1>9. /\ next \in [0 .. n + 1 -> Nat] /\ next[n + 1] = end
        /\ \A i \in 0 .. n : next[i] = cut[i]
    BY <1>1, <1>2
  <1> HIDE DEF next
  <1>10. CutsChannel(whole, more, s, next)
    <2>1. ASSUME NEW i \in 1 .. Len(more)
          PROVE  /\ more[i].stream # s => next[i] = next[i - 1]
                 /\ more[i].stream = s =>
                       /\ next[i] = next[i - 1] + Len(more[i].bytes)
                       /\ Lies(more[i].bytes, whole, next[i - 1])
      <3>1. CASE i = n + 1
        <4>1. next[i] = end /\ next[i - 1] = cut[n] /\ more[i] = e
          BY <1>1, <1>3, <1>9, <3>1
        <4>2. QED
          BY <4>1, <1>4, <1>8
      <3>2. CASE i # n + 1
        <4>1. i \in 1 .. n
          BY <1>1, <1>3, <3>2
        <4>2. next[i] = cut[i] /\ next[i - 1] = cut[i - 1] /\ more[i] = events[i]
          BY <1>1, <1>3, <1>9, <4>1
        <4>3. QED
          BY <1>6, <4>1, <4>2 DEF CutsChannel, n
      <3>3. QED
        BY <3>1, <3>2
    <2>2. QED
      BY <2>1 DEF CutsChannel
  <1>11. next[0] = Len(got) /\ next[Len(more)] = end
    BY <1>1, <1>3, <1>4, <1>9
  <1>12. Lies(<<>>, whole, end) /\ Lies(rear, whole, end + Len(<<>>))
    BY <1>2, <1>5, <1>7 DEF Lies
  <1>13. Cuts(whole, got, more, s, <<>>, rear, next)
    BY <1>2, <1>3, <1>4, <1>5, <1>7, <1>9, <1>10, <1>11, <1>12 DEF Cuts
  <1>14. QED
    BY <1>13 DEF Flows, more

\* An event of the other stream.
LEMMA FlowsSendOther ==
    ASSUME NEW whole \in Seq(Bytes), NEW got \in Seq(Bytes), NEW events \in Seq(Event),
           NEW s \in Streams, NEW line \in Seq(Bytes), NEW rear \in Seq(Bytes),
           NEW e \in Event, e.stream # s,
           Flows(whole, got, events, s, line, rear)
    PROVE  Flows(whole, got, Append(events, e), s, line, rear)
  <1> PICK cut : Cuts(whole, got, events, s, line, rear, cut)
    BY DEF Flows
  <1> DEFINE n == Len(events)
             more == Append(events, e)
             next == [i \in 0 .. n + 1 |-> IF i = n + 1 THEN cut[n] ELSE cut[i]]
  <1>1. cut \in [0 .. n -> Nat] /\ n \in Nat /\ cut[n] \in Nat
    BY CutTyped
  <1>3. /\ more \in Seq(Event) /\ Len(more) = n + 1 /\ more[n + 1] = e
        /\ \A i \in 1 .. n : more[i] = events[i]
    OBVIOUS
  <1>4. cut[0] = Len(got) /\ Lies(got, whole, 0) /\ Lies(line, whole, cut[n])
    BY DEF Cuts
  <1>5. /\ Lies(rear, whole, cut[n] + Len(line))
        /\ cut[n] + Len(line) + Len(rear) = Len(whole)
    BY DEF Cuts
  <1>6. CutsChannel(whole, events, s, cut)
    BY DEF Cuts
  <1> HIDE DEF n, more
  <1>9. /\ next \in [0 .. n + 1 -> Nat] /\ next[n + 1] = cut[n]
        /\ \A i \in 0 .. n : next[i] = cut[i]
    BY <1>1
  <1> HIDE DEF next
  <1>10. CutsChannel(whole, more, s, next)
    <2>1. ASSUME NEW i \in 1 .. Len(more)
          PROVE  /\ more[i].stream # s => next[i] = next[i - 1]
                 /\ more[i].stream = s =>
                       /\ next[i] = next[i - 1] + Len(more[i].bytes)
                       /\ Lies(more[i].bytes, whole, next[i - 1])
      <3>1. CASE i = n + 1
        <4>1. next[i] = cut[n] /\ next[i - 1] = cut[n] /\ more[i] = e
          BY <1>1, <1>3, <1>9, <3>1
        <4>2. QED
          BY <4>1
      <3>2. CASE i # n + 1
        <4>1. i \in 1 .. n
          BY <1>1, <1>3, <3>2
        <4>2. next[i] = cut[i] /\ next[i - 1] = cut[i - 1] /\ more[i] = events[i]
          BY <1>1, <1>3, <1>9, <4>1
        <4>3. QED
          BY <1>6, <4>1, <4>2 DEF CutsChannel, n
      <3>3. QED
        BY <3>1, <3>2
    <2>2. QED
      BY <2>1 DEF CutsChannel
  <1>11. next[0] = Len(got) /\ next[Len(more)] = cut[n]
    BY <1>1, <1>3, <1>4, <1>9
  <1>13. Cuts(whole, got, more, s, line, rear, next)
    BY <1>3, <1>4, <1>5, <1>9, <1>10, <1>11 DEF Cuts
  <1>14. QED
    BY <1>13 DEF Flows, more

\* The first event is received: what was got and what the other events hold
\* stay consecutive.
LEMMA FlowsReceive ==
    ASSUME NEW whole \in Seq(Bytes), NEW got \in Seq(Bytes), NEW events \in Seq(Event),
           NEW s \in Streams, NEW line \in Seq(Bytes), NEW rear \in Seq(Bytes), events # <<>>,
           Flows(whole, got, events, s, line, rear), NEW more \in Seq(Bytes),
           more = IF Head(events).stream = s THEN got \o Head(events).bytes ELSE got
    PROVE  Flows(whole, more, Tail(events), s, line, rear)
  <1> PICK cut : Cuts(whole, got, events, s, line, rear, cut)
    BY DEF Flows
  <1> DEFINE n == Len(events)
             e == Head(events)
             left == Tail(events)
             next == [i \in 0 .. n - 1 |-> cut[i + 1]]
  <1>1. cut \in [0 .. n -> Nat] /\ n \in Nat
    BY CutTyped
  <1>2. /\ n > 0 /\ e = events[1] /\ left \in Seq(Event) /\ Len(left) = n - 1
        /\ \A i \in 1 .. n - 1 : left[i] = events[i + 1]
    OBVIOUS
  <1>3. e.bytes \in Seq(Bytes)
    BY <1>2, EventTyped
  <1>4. cut[0] = Len(got) /\ Lies(got, whole, 0) /\ Lies(line, whole, cut[n])
    BY DEF Cuts
  <1>5. /\ Lies(rear, whole, cut[n] + Len(line))
        /\ cut[n] + Len(line) + Len(rear) = Len(whole)
    BY DEF Cuts
  <1>6. CutsChannel(whole, events, s, cut)
    BY DEF Cuts
  <1>7. \A i \in 1 .. n :
           /\ events[i].stream # s => cut[i] = cut[i - 1]
           /\ events[i].stream = s =>
                 /\ cut[i] = cut[i - 1] + Len(events[i].bytes)
                 /\ Lies(events[i].bytes, whole, cut[i - 1])
    BY <1>6 DEF CutsChannel
  <1>8. cut[1] = Len(more) /\ Lies(more, whole, 0)
    <2>1. 1 \in 1 .. n /\ 1 - 1 = 0
      BY <1>1, <1>2
    <2>2. CASE e.stream = s
      <3>0. /\ events[1].stream = s /\ e = events[1]
        BY <1>2, <2>2
      <3>5. cut[1] = cut[0] + Len(events[1].bytes) /\ Lies(events[1].bytes, whole, cut[0])
        BY <1>7, <2>1, <3>0
      <3>6. 0 + Len(got) = Len(got)
        OBVIOUS
      <3>1. cut[1] = Len(got) + Len(e.bytes) /\ Lies(e.bytes, whole, 0 + Len(got))
        BY <1>4, <3>0, <3>5, <3>6
      <3>2. more = got \o e.bytes
        BY <2>2
      <3>3. Len(more) = Len(got) + Len(e.bytes)
        <4> HIDE DEF e, n, left, next
        <4>1. QED
          BY <1>3, <3>2
      <3>4. QED
        BY <1>3, <1>4, <3>1, <3>2, <3>3, LiesJoin
    <2>3. CASE e.stream # s
      <3>1. cut[1] = Len(got) /\ more = got
        BY <1>2, <1>4, <1>7, <2>1, <2>3
      <3>2. QED
        BY <1>4, <3>1
    <2>4. QED
      BY <2>2, <2>3
  <1> HIDE DEF n, left
  <1>9. /\ next \in [0 .. n - 1 -> Nat]
        /\ \A i \in 0 .. n - 1 : next[i] = cut[i + 1]
    BY <1>1, <1>2
  <1> HIDE DEF next
  <1>10. CutsChannel(whole, left, s, next)
    <2>1. ASSUME NEW i \in 1 .. Len(left)
          PROVE  /\ left[i].stream # s => next[i] = next[i - 1]
                 /\ left[i].stream = s =>
                       /\ next[i] = next[i - 1] + Len(left[i].bytes)
                       /\ Lies(left[i].bytes, whole, next[i - 1])
      <3>1. i + 1 \in 1 .. n /\ i \in 0 .. n - 1 /\ i - 1 \in 0 .. n - 1 /\ (i + 1) - 1 = i
        BY <1>1, <1>2
      <3>2. next[i] = cut[i + 1] /\ next[i - 1] = cut[i] /\ left[i] = events[i + 1]
        BY <1>2, <1>9, <3>1
      <3>3. QED
        BY <1>7, <3>1, <3>2
    <2>2. QED
      BY <2>1 DEF CutsChannel
  <1>11. next[0] = Len(more) /\ next[Len(left)] = cut[n]
    BY <1>1, <1>2, <1>8, <1>9
  <1>12. Cuts(whole, more, left, s, line, rear, next)
    BY <1>2, <1>4, <1>5, <1>8, <1>9, <1>10, <1>11 DEF Cuts
  <1>13. QED
    BY <1>12 DEF Flows, left

\* Nothing was written.
LEMMA FlowsEmpty ==
    ASSUME NEW s \in Streams
    PROVE  Flows(<<>>, <<>>, <<>>, s, <<>>, <<>>)
  <1> DEFINE cut == [i \in 0 .. 0 |-> 0]
  <1>1. cut \in [0 .. Len(<<>>) -> Nat] /\ cut[0] = 0 /\ Len(<<>>) = 0
    OBVIOUS
  <1> HIDE DEF cut
  <1>2. Cuts(<<>>, <<>>, <<>>, s, <<>>, <<>>, cut)
    BY <1>1 DEF Cuts, CutsChannel, Lies
  <1>3. QED
    BY <1>2 DEF Flows

\* When nothing is on its way everything was got.
LEMMA FlowsAll ==
    ASSUME NEW whole \in Seq(Bytes), NEW got \in Seq(Bytes), NEW s \in Streams,
           Flows(whole, got, <<>>, s, <<>>, <<>>)
    PROVE  got = whole
  <1> PICK cut : Cuts(whole, got, <<>>, s, <<>>, <<>>, cut)
    BY DEF Flows
  <1>1. Len(<<>>) = 0
    OBVIOUS
  <1>2. Len(got) = Len(whole) /\ Lies(got, whole, 0)
    BY <1>1 DEF Cuts
  <1>3. \A i \in 1 .. Len(got) : whole[i] = got[i]
    BY <1>2 DEF Lies
  <1>4. QED
    BY <1>2, <1>3

\* The text that is forwarded for bytes.
LEMMA LossyIs ==
    ASSUME NEW one \in Seq(Bytes)
    PROVE  /\ Lossy(one) \in Seq(Bytes \cup {"replaced"}) /\ Len(Lossy(one)) = Len(one)
           /\ \A i \in 1 .. Len(one) :
                 Lossy(one)[i] = IF one[i] = "bad" THEN "replaced" ELSE one[i]
  BY DEF Lossy

\* Nothing is forwarded for nothing.
LEMMA LossyOfNothing == Lossy(<<>>) = <<>>
  BY DEF Lossy

\* One sequence behind another.
LEMMA ConcatIs ==
    ASSUME NEW S, NEW a \in Seq(S), NEW b \in Seq(S)
    PROVE  /\ a \o b \in Seq(S) /\ Len(a \o b) = Len(a) + Len(b)
           /\ \A i \in 1 .. Len(a) : (a \o b)[i] = a[i]
           /\ \A i \in Len(a) + 1 .. Len(a) + Len(b) : (a \o b)[i] = b[i - Len(a)]
  OBVIOUS

\* What is forwarded line by line is what is forwarded as a whole.
LEMMA LossyJoins ==
    ASSUME NEW one \in Seq(Bytes), NEW two \in Seq(Bytes)
    PROVE  Lossy(one \o two) = Lossy(one) \o Lossy(two)
  <1> DEFINE a == Lossy(one)
             b == Lossy(two)
             all == Lossy(one \o two)
             Shown == Bytes \cup {"replaced"}
  <1>1. /\ one \o two \in Seq(Bytes) /\ Len(one \o two) = Len(one) + Len(two)
        /\ \A i \in 1 .. Len(one) : (one \o two)[i] = one[i]
        /\ \A i \in Len(one) + 1 .. Len(one) + Len(two) : (one \o two)[i] = two[i - Len(one)]
    OBVIOUS
  <1>2. /\ a \in Seq(Shown) /\ Len(a) = Len(one)
        /\ \A i \in 1 .. Len(one) : a[i] = IF one[i] = "bad" THEN "replaced" ELSE one[i]
    BY LossyIs
  <1>3. /\ b \in Seq(Shown) /\ Len(b) = Len(two)
        /\ \A i \in 1 .. Len(two) : b[i] = IF two[i] = "bad" THEN "replaced" ELSE two[i]
    BY LossyIs
  <1>4. /\ all \in Seq(Shown) /\ Len(all) = Len(one) + Len(two)
        /\ \A i \in 1 .. Len(one) + Len(two) :
              all[i] = IF (one \o two)[i] = "bad" THEN "replaced" ELSE (one \o two)[i]
    BY <1>1, LossyIs
  <1> HIDE DEF a, b, all
  <1>4a. a \in Seq(Shown) /\ b \in Seq(Shown)
    BY <1>2, <1>3
  <1> HIDE DEF Shown
  <1>5. /\ a \o b \in Seq(Shown) /\ Len(a \o b) = Len(a) + Len(b)
        /\ \A i \in 1 .. Len(a) : (a \o b)[i] = a[i]
        /\ \A i \in Len(a) + 1 .. Len(a) + Len(b) : (a \o b)[i] = b[i - Len(a)]
    BY <1>4a, ConcatIs
  <1> DEFINE both == one \o two
             ab == a \o b
  <1> HIDE DEF both, ab
  <1>6. ASSUME NEW i \in 1 .. Len(one) + Len(two)
        PROVE  all[i] = ab[i]
    <2>1. CASE i \in 1 .. Len(one)
      <3>1. both[i] = one[i] /\ ab[i] = a[i]
        BY <1>1, <1>2, <1>5, <2>1 DEF both, ab
      <3>2. all[i] = IF both[i] = "bad" THEN "replaced" ELSE both[i]
        BY <1>4 DEF both
      <3>3. a[i] = IF one[i] = "bad" THEN "replaced" ELSE one[i]
        BY <1>2, <2>1
      <3>4. QED
        BY <3>1, <3>2, <3>3
    <2>2. CASE i \notin 1 .. Len(one)
      <3> DEFINE j == i - Len(one)
      <3>1. i \in Len(one) + 1 .. Len(one) + Len(two) /\ j \in 1 .. Len(two)
        BY <2>2
      <3>2. both[i] = two[j] /\ ab[i] = b[j]
        BY <1>1, <1>2, <1>3, <1>5, <3>1 DEF both, ab
      <3>3. all[i] = IF both[i] = "bad" THEN "replaced" ELSE both[i]
        BY <1>4 DEF both
      <3>4. b[j] = IF two[j] = "bad" THEN "replaced" ELSE two[j]
        BY <1>3, <3>1
      <3>5. QED
        BY <3>2, <3>3, <3>4
    <2>3. QED
      BY <2>1, <2>2
  <1>7. Len(all) = Len(ab) /\ ab \in Seq(Shown) /\ Len(ab) = Len(one) + Len(two)
    BY <1>2, <1>3, <1>4, <1>5 DEF ab
  <1>8. all = ab
    BY <1>4, <1>6, <1>7
  <1>9. QED
    BY <1>8 DEF all, a, b, ab

-----------------------------------------------------------------------------
(* The steps keep the types. *)

\* What the program writes next.
LEMMA HeadOfRest ==
    ASSUME rest \in Seq(Streams \X Bytes), rest # <<>>
    PROVE  Head(rest)[1] \in Streams /\ Head(rest)[2] \in Bytes /\ Tail(rest) \in Seq(Streams \X Bytes)
  <1>1. Head(rest) \in Streams \X Bytes /\ Tail(rest) \in Seq(Streams \X Bytes)
    OBVIOUS
  <1>2. QED
    BY <1>1

\* The first event of the channel.
LEMMA HeadOfChannel ==
    ASSUME channel \in Seq(Event), channel # <<>>
    PROVE  /\ Head(channel) \in Event /\ Head(channel).bytes \in Seq(Bytes)
           /\ Head(channel).stream \in Streams /\ Head(channel).ok \in BOOLEAN
           /\ Tail(channel) \in Seq(Event)
  <1>1. Head(channel) \in Event /\ Tail(channel) \in Seq(Event)
    OBVIOUS
  <1>2. QED
    BY <1>1 DEF Event

\* What a reader holds.
LEMMA ReaderTyped ==
    ASSUME TypeOK, NEW s \in Streams
    PROVE  /\ reader[s] \in Readers
           /\ reader[s].line \in Seq(Bytes) /\ reader[s].at \in {"none", "reading", "ended"}
           /\ pipe[s] \in Seq(Bytes) /\ collected[s] \in Seq(Bytes) /\ written[s] \in Seq(Bytes)
           /\ channel \in Seq(Event)
  <1>1. reader[s] \in Readers
    BY DEF TypeOK
  <1>2. QED
    BY <1>1 DEF TypeOK, Readers

\* A reader with another line.
LEMMA LineTyped ==
    ASSUME NEW f \in [Streams -> Readers], NEW s \in Streams, NEW v \in Seq(Bytes)
    PROVE  /\ [f EXCEPT ![s].line = v] \in [Streams -> Readers]
           /\ [f EXCEPT ![s].line = v][s].line = v
           /\ \A t \in Streams : [f EXCEPT ![s].line = v][t].at = f[t].at
           /\ \A t \in Streams : t # s => [f EXCEPT ![s].line = v][t] = f[t]
  <1>1. f[s] \in Readers
    OBVIOUS
  <1>2. [f[s] EXCEPT !.line = v] \in Readers /\ [f[s] EXCEPT !.line = v].line = v
        /\ [f[s] EXCEPT !.line = v].at = f[s].at
    BY <1>1 DEF Readers
  <1>3. [f EXCEPT ![s].line = v] = [f EXCEPT ![s] = [f[s] EXCEPT !.line = v]]
    OBVIOUS
  <1>4. QED
    BY <1>2, <1>3

\* A reader at another place.
LEMMA AtTyped ==
    ASSUME NEW f \in [Streams -> Readers], NEW s \in Streams,
           NEW v \in {"none", "reading", "ended"}
    PROVE  /\ [f EXCEPT ![s].at = v] \in [Streams -> Readers]
           /\ [f EXCEPT ![s].at = v][s].at = v
           /\ \A t \in Streams : [f EXCEPT ![s].at = v][t].line = f[t].line
           /\ \A t \in Streams : t # s => [f EXCEPT ![s].at = v][t] = f[t]
  <1>1. f[s] \in Readers
    OBVIOUS
  <1>2. [f[s] EXCEPT !.at = v] \in Readers /\ [f[s] EXCEPT !.at = v].at = v
        /\ [f[s] EXCEPT !.at = v].line = f[s].line
    BY <1>1 DEF Readers
  <1>3. [f EXCEPT ![s].at = v] = [f EXCEPT ![s] = [f[s] EXCEPT !.at = v]]
    OBVIOUS
  <1>4. QED
    BY <1>2, <1>3

\* What is read: the byte and the line with it.
LEMMA ReadByteIs ==
    ASSUME TypeOK, NEW s \in Streams, ReadByte(s)
    PROVE  \E byte \in Bytes, line \in Seq(Bytes) :
              /\ byte = Head(pipe[s]) /\ line = Append(reader[s].line, byte)
              /\ pipe[s] # <<>> /\ reader[s].at = "reading"
              /\ Tail(pipe[s]) \in Seq(Bytes) /\ pipe' = [pipe EXCEPT ![s] = Tail(pipe[s])]
              /\ ~Streaming =>
                    /\ collected' = [collected EXCEPT ![s] = Append(collected[s], byte)]
                    /\ UNCHANGED <<reader, channel>>
              /\ Streaming => UNCHANGED collected
              /\ Streaming /\ byte # "newline" =>
                    reader' = [reader EXCEPT ![s].line = line] /\ UNCHANGED channel
              /\ Streaming /\ byte = "newline" =>
                    /\ reader' = [reader EXCEPT ![s].line = <<>>]
                    /\ channel' = Append(channel, [ok |-> TRUE, stream |-> s, bytes |-> line])
              /\ UNCHANGED <<job, pc, child, rest, held, shown, readError, result, written>>
  <1>1. pipe[s] \in Seq(Bytes) /\ reader[s].line \in Seq(Bytes) /\ pipe[s] # <<>>
    BY ReaderTyped DEF ReadByte
  <1>2. Head(pipe[s]) \in Bytes /\ Tail(pipe[s]) \in Seq(Bytes)
    BY <1>1
  <1>3. Append(reader[s].line, Head(pipe[s])) \in Seq(Bytes)
    BY <1>1, <1>2
  <1>4. QED
    BY <1>1, <1>2, <1>3, Zenon DEF ReadByte

\* An unfinished line is sent, or else the reader ends.
LEMMA ReadEndIs ==
    ASSUME TypeOK, NEW s \in Streams, ReadEnd(s)
    PROVE  \E line \in Seq(Bytes) :
              /\ line = reader[s].line /\ reader[s].at = "reading" /\ AtEnd(s)
              /\ line # <<>> =>
                    /\ channel' = Append(channel, [ok |-> TRUE, stream |-> s, bytes |-> line])
                    /\ reader' = [reader EXCEPT ![s].line = <<>>]
              /\ line = <<>> => reader' = [reader EXCEPT ![s].at = "ended"] /\ UNCHANGED channel
              /\ UNCHANGED <<job, pc, child, rest, held, pipe, collected, shown, readError,
                             result, written>>
  <1>1. reader[s].line \in Seq(Bytes)
    BY ReaderTyped
  <1>2. QED
    BY <1>1, Zenon DEF ReadEnd

\* The beginning.
LEMMA TypeInit == Init => TypeOK
  <1> SUFFICES ASSUME Init
               PROVE  TypeOK
    OBVIOUS
  <1>1. job \in Jobs /\ job.script \in Seq(Streams \X Bytes)
    BY JobsAssumption DEF Init
  <1>2. Empty \in [Streams -> Seq(Bytes)] /\ Empty \in [Streams -> Seq(Bytes \cup {"replaced"})]
    BY DEF Empty
  <1>3. reader \in [Streams -> Readers]
    <2>1. [at |-> "none", line |-> <<>>] \in Readers
      BY DEF Readers
    <2>2. QED
      BY <2>1 DEF Init
  <1>4. channel \in Seq(Event)
    BY DEF Init
  <1>5. job \in Jobs /\ pc = "spawn" /\ rest = job.script /\ held = FALSE
        /\ pipe = Empty /\ collected = Empty /\ shown = Empty /\ written = Empty
        /\ readError = "none"
    BY DEF Init
  <1>6. QED
    BY <1>1, <1>2, <1>3, <1>4, <1>5 DEF TypeOK

\* Every step keeps the types.
LEMMA TypeStep == TypeOK /\ [Next]_vars => TypeOK'
  <1> SUFFICES ASSUME TypeOK, [Next]_vars
               PROVE  TypeOK'
    OBVIOUS
  <1>0. /\ pipe \in [Streams -> Seq(Bytes)] /\ collected \in [Streams -> Seq(Bytes)]
        /\ written \in [Streams -> Seq(Bytes)] /\ reader \in [Streams -> Readers]
        /\ channel \in Seq(Event) /\ shown \in [Streams -> Seq(Bytes \cup {"replaced"})]
        /\ <<>> \in Seq(Bytes)
    BY DEF TypeOK
  <1>1. CASE SpawnFails
    BY <1>1 DEF SpawnFails, TypeOK
  <1>2. CASE Spawn
    <2>1. reader' \in [Streams -> Readers]
      <3>1. \A a \in {"none", "reading"} : [at |-> a, line |-> <<>>] \in Readers
        BY DEF Readers
      <3>2. QED
        BY <1>2, <3>1 DEF Spawn
    <2>2. QED
      BY <1>2, <2>1 DEF Spawn, TypeOK
  <1>3. CASE ChildWrites
    <2>1. rest # <<>> /\ UNCHANGED <<job, pc, held, reader, channel, collected, shown, readError>>
      BY <1>3 DEF ChildWrites
    <2>2. PICK s \in Streams, b \in Bytes :
             /\ rest' \in {rest, Tail(rest)}
             /\ pipe' \in {pipe, [pipe EXCEPT ![s] = Append(pipe[s], b)]}
             /\ written' \in {written, [written EXCEPT ![s] = Append(written[s], b)]}
      BY <1>3, HeadOfRest DEF ChildWrites, TypeOK
    <2>3. rest' \in Seq(Streams \X Bytes)
      BY <2>1, <2>2, HeadOfRest DEF TypeOK
    <2>4. pipe' \in [Streams -> Seq(Bytes)] /\ written' \in [Streams -> Seq(Bytes)]
      <3>1. Append(pipe[s], b) \in Seq(Bytes) /\ Append(written[s], b) \in Seq(Bytes)
        BY <1>0
      <3>2. /\ [pipe EXCEPT ![s] = Append(pipe[s], b)] \in [Streams -> Seq(Bytes)]
            /\ [written EXCEPT ![s] = Append(written[s], b)] \in [Streams -> Seq(Bytes)]
        BY <1>0, <3>1
      <3>3. QED
        BY <1>0, <2>2, <3>2
    <2>5. pc' = pc
      BY <1>3 DEF ChildWrites
    <2>6. QED
      BY <2>1, <2>3, <2>4, <2>5 DEF TypeOK
  <1>4. CASE ChildExits
    BY <1>4 DEF ChildExits, TypeOK
  <1>5. CASE ChildKilled
    BY <1>5 DEF ChildKilled, TypeOK
  <1>6. CASE DescendantEnds
    BY <1>6 DEF DescendantEnds, TypeOK
  <1>7. ASSUME NEW s \in Streams, ReadByte(s)
        PROVE  TypeOK'
    <2> PICK byte \in Bytes, line \in Seq(Bytes) :
               /\ Tail(pipe[s]) \in Seq(Bytes) /\ pipe' = [pipe EXCEPT ![s] = Tail(pipe[s])]
               /\ collected' \in {collected, [collected EXCEPT ![s] = Append(collected[s], byte)]}
               /\ reader' \in {reader, [reader EXCEPT ![s].line = line],
                              [reader EXCEPT ![s].line = <<>>]}
               /\ channel' \in {channel,
                               Append(channel, [ok |-> TRUE, stream |-> s, bytes |-> line])}
               /\ UNCHANGED <<job, pc, child, rest, held, shown, readError, result, written>>
      BY <1>7, ReadByteIs, Zenon
    <2>1. pipe' \in [Streams -> Seq(Bytes)]
      BY <1>0
    <2>2. collected' \in [Streams -> Seq(Bytes)]
      <3>1. Append(collected[s], byte) \in Seq(Bytes)
        BY <1>0
      <3>2. [collected EXCEPT ![s] = Append(collected[s], byte)] \in [Streams -> Seq(Bytes)]
        BY <1>0, <3>1
      <3>3. QED
        BY <1>0, <3>2
    <2>3. reader' \in [Streams -> Readers]
      <3>1. /\ [reader EXCEPT ![s].line = line] \in [Streams -> Readers]
            /\ [reader EXCEPT ![s].line = <<>>] \in [Streams -> Readers]
        BY <1>0, LineTyped, Zenon
      <3>2. QED
        BY <1>0, <3>1
    <2>4. channel' \in Seq(Event)
      <3>1. [ok |-> TRUE, stream |-> s, bytes |-> line] \in Event
        BY DEF Event
      <3>2. Append(channel, [ok |-> TRUE, stream |-> s, bytes |-> line]) \in Seq(Event)
        BY <1>0, <3>1
      <3>3. QED
        BY <1>0, <3>2
    <2>5. QED
      BY <2>1, <2>2, <2>3, <2>4 DEF TypeOK
  <1>8. ASSUME NEW s \in Streams, ReadEnd(s)
        PROVE  TypeOK'
    <2> PICK line \in Seq(Bytes) :
               /\ reader' \in {[reader EXCEPT ![s].line = <<>>], [reader EXCEPT ![s].at = "ended"]}
               /\ channel' \in {channel,
                               Append(channel, [ok |-> TRUE, stream |-> s, bytes |-> line])}
               /\ UNCHANGED <<job, pc, child, rest, held, pipe, collected, shown, readError,
                              result, written>>
      BY <1>8, ReadEndIs, Zenon
    <2>1. reader' \in [Streams -> Readers]
      <3>1. "ended" \in {"none", "reading", "ended"}
        OBVIOUS
      <3>2. /\ [reader EXCEPT ![s].at = "ended"] \in [Streams -> Readers]
            /\ [reader EXCEPT ![s].line = <<>>] \in [Streams -> Readers]
        BY <1>0, <3>1, LineTyped, AtTyped, Zenon
      <3>3. QED
        BY <3>2
    <2>2. channel' \in Seq(Event)
      <3>1. [ok |-> TRUE, stream |-> s, bytes |-> line] \in Event
        BY DEF Event
      <3>2. Append(channel, [ok |-> TRUE, stream |-> s, bytes |-> line]) \in Seq(Event)
        BY <1>0, <3>1
      <3>3. QED
        BY <1>0, <3>2
    <2>3. QED
      BY <2>1, <2>2 DEF TypeOK
  <1>9. ASSUME NEW s \in Streams, ReadError(s)
        PROVE  TypeOK'
    <2>1. [ok |-> FALSE, stream |-> s, bytes |-> <<>>] \in Event
      BY DEF Event
    <2>2. [at |-> "ended", line |-> <<>>] \in Readers
      BY DEF Readers
    <2>3. QED
      BY <1>9, <2>1, <2>2 DEF ReadError, TypeOK
  <1>10. CASE Receive
    <2> DEFINE event == Head(channel)
    <2>1. event \in Event /\ event.bytes \in Seq(Bytes) /\ event.stream \in Streams
          /\ Tail(channel) \in Seq(Event)
      BY <1>0, <1>10, HeadOfChannel DEF Receive
    <2>2. Lossy(event.bytes) \in Seq(Bytes \cup {"replaced"})
      BY <2>1, LossyIs
    <2>3. /\ collected' \in {collected, [collected EXCEPT ![event.stream] = collected[event.stream] \o event.bytes]}
          /\ shown' \in {shown, [shown EXCEPT ![event.stream] = shown[event.stream] \o Lossy(event.bytes)]}
          /\ readError' \in {readError, event.stream} /\ channel' = Tail(channel)
      BY <1>10 DEF Receive
    <2>4. UNCHANGED <<job, pc, child, rest, held, pipe, reader, result, written>>
      BY <1>10 DEF Receive
    <2> HIDE DEF event
    <2>5. collected' \in [Streams -> Seq(Bytes)]
      <3>1. collected[event.stream] \o event.bytes \in Seq(Bytes)
        BY <1>0, <2>1
      <3>2. [collected EXCEPT ![event.stream] = collected[event.stream] \o event.bytes]
               \in [Streams -> Seq(Bytes)]
        BY <1>0, <2>1, <3>1
      <3>3. QED
        BY <1>0, <2>3, <3>2
    <2>6. shown' \in [Streams -> Seq(Bytes \cup {"replaced"})]
      <3>1. shown[event.stream] \in Seq(Bytes \cup {"replaced"})
        BY <1>0, <2>1
      <3>2. shown[event.stream] \o Lossy(event.bytes) \in Seq(Bytes \cup {"replaced"})
        BY <2>2, <3>1, ConcatIs
      <3>3. [shown EXCEPT ![event.stream] = shown[event.stream] \o Lossy(event.bytes)]
               \in [Streams -> Seq(Bytes \cup {"replaced"})]
        BY <1>0, <2>1, <3>2
      <3>4. QED
        BY <1>0, <2>3, <3>3
    <2>7. readError' \in Streams \cup {"none"}
      BY <2>1, <2>3 DEF TypeOK
    <2>8. channel' \in Seq(Event)
      BY <2>1, <2>3 DEF event
    <2>9. QED
      BY <2>4, <2>5, <2>6, <2>7, <2>8 DEF TypeOK
  <1>11. CASE ChannelClosed
    BY <1>11 DEF ChannelClosed, TypeOK
  <1>12. CASE Wait
    BY <1>12 DEF Wait, TypeOK
  <1>13. CASE UNCHANGED vars
    BY <1>13 DEF vars, TypeOK
  <1>14. QED
    BY <1>1, <1>2, <1>3, <1>4, <1>5, <1>6, <1>7, <1>8, <1>9, <1>10, <1>11, <1>12, <1>13
    DEF Next, MainStep, ChildStep, ReaderStep, Finished

-----------------------------------------------------------------------------
(* The places of the collector, the child and the readers. *)

\* A byte that is read leaves the readers where they are.
LEMMA ReadByteReaders ==
    ASSUME TypeOK, NEW s \in Streams, ReadByte(s)
    PROVE  /\ \A t \in Streams : reader'[t].at = reader[t].at
           /\ \A t \in Streams : t # s => reader'[t] = reader[t]
  <1>1. <<>> \in Seq(Bytes) /\ reader \in [Streams -> Readers]
    BY DEF TypeOK
  <1>2. PICK line \in Seq(Bytes) :
            reader' \in {reader, [reader EXCEPT ![s].line = line], [reader EXCEPT ![s].line = <<>>]}
    BY ReadByteIs, Zenon
  <1>3. ASSUME NEW v \in Seq(Bytes), NEW t \in Streams
        PROVE  /\ [reader EXCEPT ![s].line = v][t].at = reader[t].at
               /\ t # s => [reader EXCEPT ![s].line = v][t] = reader[t]
    <2>1. reader[s] \in Readers
      BY <1>1
    <2>2. [reader EXCEPT ![s].line = v] = [reader EXCEPT ![s] = [reader[s] EXCEPT !.line = v]]
      OBVIOUS
    <2>3. [reader[s] EXCEPT !.line = v].at = reader[s].at
      BY <2>1 DEF Readers
    <2>4. QED
      BY <1>1, <2>2, <2>3
  <1>4. \A t \in Streams : reader'[t].at = reader[t].at /\ (t # s => reader'[t] = reader[t])
    <2>1. CASE reader' = reader
      BY <2>1
    <2>2. ASSUME NEW v \in Seq(Bytes), reader' = [reader EXCEPT ![s].line = v]
          PROVE  \A t \in Streams : reader'[t].at = reader[t].at /\ (t # s => reader'[t] = reader[t])
      <3>1. ASSUME NEW t \in Streams
            PROVE  reader'[t].at = reader[t].at /\ (t # s => reader'[t] = reader[t])
        <4>1. reader'[t] = [reader EXCEPT ![s].line = v][t]
          BY <2>2, Zenon
        <4>2. QED
          BY <1>3, <4>1, Zenon
      <3>2. QED
        BY <3>1
    <2>3. QED
      BY <1>1, <1>2, <2>1, <2>2, Zenon
  <1>5. QED
    BY <1>4

\* At the end of the stream the line is empty afterwards.
LEMMA ReadEndReaders ==
    ASSUME TypeOK, NEW s \in Streams, ReadEnd(s)
    PROVE  /\ reader'[s].line = <<>> /\ reader'[s].at # "none"
           /\ \A t \in Streams : t # s => reader'[t] = reader[t]
  <1>1. /\ <<>> \in Seq(Bytes) /\ reader \in [Streams -> Readers]
        /\ "ended" \in {"none", "reading", "ended"}
    BY DEF TypeOK
  <1>2. /\ reader' \in {[reader EXCEPT ![s].line = <<>>], [reader EXCEPT ![s].at = "ended"]}
        /\ reader[s].line = <<>> \/ reader' = [reader EXCEPT ![s].line = <<>>]
        /\ reader[s].at = "reading"
    BY ReadEndIs, Zenon
  <1>3a. [reader EXCEPT ![s].line = <<>>][s].at = reader[s].at
    <2>1. reader[s] \in Readers
      BY <1>1
    <2>2. [reader EXCEPT ![s].line = <<>>] = [reader EXCEPT ![s] = [reader[s] EXCEPT !.line = <<>>]]
      OBVIOUS
    <2>3. [reader[s] EXCEPT !.line = <<>>].at = reader[s].at
      BY <2>1 DEF Readers
    <2>4. QED
      BY <1>1, <2>2, <2>3
  <1>3. /\ [reader EXCEPT ![s].line = <<>>][s].line = <<>>
        /\ \A t \in Streams : t # s => [reader EXCEPT ![s].line = <<>>][t] = reader[t]
    BY <1>1, LineTyped, Zenon
  <1>4. /\ [reader EXCEPT ![s].at = "ended"][s].line = reader[s].line
        /\ [reader EXCEPT ![s].at = "ended"][s].at = "ended"
        /\ \A t \in Streams : t # s => [reader EXCEPT ![s].at = "ended"][t] = reader[t]
    BY <1>1, AtTyped, Zenon
  <1>5. reader'[s].line = <<>> /\ reader'[s].at \in {"reading", "ended"}
    BY <1>2, <1>3, <1>3a, <1>4, Zenon
  <1>6. \A t \in Streams : t # s => reader'[t] = reader[t]
    BY <1>2, <1>3, <1>4, Zenon
  <1>7. QED
    BY <1>5, <1>6

\* The beginning.
LEMMA ControlInit == Init => ControlInv
  BY DEF Init, ControlInv

\* Every step keeps the places together.
LEMMA ControlStep == TypeOK /\ ControlInv /\ [Next]_vars => ControlInv'
  <1> SUFFICES ASSUME TypeOK, ControlInv, [Next]_vars
               PROVE  ControlInv'
    OBVIOUS
  <1> USE DEF ControlInv, Inherited, Streaming
  <1>1. CASE SpawnFails
    BY <1>1 DEF SpawnFails
  <1>2. CASE Spawn
    BY <1>2 DEF Spawn
  <1>3. CASE ChildWrites
    BY <1>3 DEF ChildWrites
  <1>4. CASE ChildExits
    <2>1. job.exit # "none"
      BY JobsAssumption DEF TypeOK
    <2>2. QED
      BY <1>4, <2>1 DEF ChildExits
  <1>5. CASE ChildKilled
    BY <1>5 DEF ChildKilled
  <1>6. CASE DescendantEnds
    BY <1>6 DEF DescendantEnds
  <1>7. ASSUME NEW s \in Streams, ReadByte(s)
        PROVE  ControlInv'
    <2>1. /\ reader[s].at = "reading" /\ child # "none" /\ ~Inherited
          /\ pc \notin {"spawn", "wait", "done"}
      BY <1>7 DEF ReadByte
    <2>2. \A t \in Streams : reader'[t].at = reader[t].at
      BY <1>7, ReadByteReaders
    <2>3. UNCHANGED <<job, pc, child, readError>>
      BY <1>7 DEF ReadByte
    <2>4. \A t \in Streams : reader[t].at # "reading" => reader'[t].line = <<>>
      BY <1>7, <2>1 DEF ReadByte, TypeOK
    <2>5. ~Streaming => UNCHANGED <<reader, channel>>
      BY <1>7 DEF ReadByte
    <2>6. QED
      BY <2>1, <2>2, <2>3, <2>4, <2>5
  <1>8. ASSUME NEW s \in Streams, ReadEnd(s)
        PROVE  ControlInv'
    <2>1. /\ reader[s].at = "reading" /\ child # "none" /\ ~Inherited
          /\ pc \notin {"spawn", "wait", "done"}
      BY <1>8 DEF ReadEnd
    <2>2. UNCHANGED <<job, pc, child, readError>>
      BY <1>8 DEF ReadEnd
    <2>3. /\ reader' \in {[reader EXCEPT ![s].line = <<>>], [reader EXCEPT ![s].at = "ended"]}
          /\ reader[s].line = <<>> \/ reader' = [reader EXCEPT ![s].line = <<>>]
          /\ reader[s].line = <<>> => UNCHANGED channel
      BY <1>8, ReadEndIs, Zenon
    <2>5. reader'[s].line = <<>> /\ reader'[s].at # "none" /\ \A t \in Streams : t # s => reader'[t] = reader[t]
      BY <1>8, ReadEndReaders
    <2>6. QED
      BY <2>1, <2>2, <2>3, <2>5
  <1>9. ASSUME NEW s \in Streams, ReadError(s)
        PROVE  ControlInv'
    <2>1. /\ Streaming /\ reader[s].at = "reading" /\ child # "none" /\ ~Inherited
          /\ pc \notin {"spawn", "wait", "done"}
      BY <1>9 DEF ReadError
    <2>2. UNCHANGED <<job, pc, child, readError>>
      BY <1>9 DEF ReadError
    <2>3. \A t \in Streams : reader'[t].at # "reading" => reader'[t].line = <<>>
      BY <1>9, <2>1 DEF ReadError, TypeOK
    <2>4. reader'[s].at = "ended" /\ \A t \in Streams : t # s => reader'[t] = reader[t]
      BY <1>9 DEF ReadError, TypeOK
    <2>5. QED
      BY <2>1, <2>2, <2>3, <2>4
  <1>10. CASE Receive
    BY <1>10 DEF Receive
  <1>11. CASE ChannelClosed
    BY <1>11 DEF ChannelClosed
  <1>12. CASE Wait
    BY <1>12 DEF Wait
  <1>13. CASE UNCHANGED vars
    BY <1>13 DEF vars
  <1>14. QED
    BY <1>1, <1>2, <1>3, <1>4, <1>5, <1>6, <1>7, <1>8, <1>9, <1>10, <1>11, <1>12, <1>13
    DEF Next, MainStep, ChildStep, ReaderStep, Finished

-----------------------------------------------------------------------------
(* Read errors, and the end of a stream without one. *)

\* An event more.
LEMMA AllOkAppend ==
    ASSUME NEW events \in Seq(Event), NEW e \in Event, AllOk(Append(events, e))
    PROVE  AllOk(events) /\ e.ok
  <1> DEFINE more == Append(events, e)
             n == Len(events)
  <1>1. /\ n \in Nat /\ Len(more) = n + 1 /\ more[n + 1] = e
        /\ \A i \in 1 .. n : more[i] = events[i]
    OBVIOUS
  <1>2. \A i \in 1 .. Len(more) : more[i].ok
    BY DEF AllOk
  <1> HIDE DEF more
  <1>3. e.ok
    <2>1. n + 1 \in 1 .. Len(more)
      BY <1>1
    <2>2. QED
      BY <1>1, <1>2, <2>1, Zenon
  <1>4. ASSUME NEW i \in 1 .. n
        PROVE  events[i].ok
    <2>1. i \in 1 .. Len(more) /\ more[i] = events[i]
      BY <1>1
    <2>2. QED
      BY <1>2, <2>1, Zenon
  <1>5. QED
    BY <1>3, <1>4, Zenon DEF AllOk

\* An event less.
LEMMA AllOkTail ==
    ASSUME NEW events \in Seq(Event), events # <<>>, Head(events).ok, AllOk(Tail(events))
    PROVE  AllOk(events)
  <1> DEFINE left == Tail(events)
             n == Len(events)
  <1>1. /\ n \in Nat /\ n > 0 /\ Len(left) = n - 1 /\ Head(events) = events[1]
        /\ \A i \in 1 .. n - 1 : left[i] = events[i + 1]
    OBVIOUS
  <1>2. \A i \in 1 .. Len(left) : left[i].ok
    BY DEF AllOk
  <1> HIDE DEF left
  <1>3. ASSUME NEW i \in 1 .. n
        PROVE  events[i].ok
    <2>1. CASE i = 1
      BY <1>1, <2>1
    <2>2. CASE i # 1
      <3>1. i - 1 \in 1 .. Len(left) /\ i - 1 \in 1 .. n - 1 /\ (i - 1) + 1 = i
        BY <1>1, <2>2
      <3>2. left[i - 1] = events[i]
        BY <1>1, <3>1
      <3>3. QED
        BY <1>2, <3>1, <3>2, Zenon
    <2>3. QED
      BY <2>1, <2>2
  <1>4. QED
    BY <1>3, Zenon DEF AllOk

\* What the readers send.
LEMMA EventOk ==
    ASSUME NEW s \in Streams, NEW line \in Seq(Bytes), NEW ok \in BOOLEAN
    PROVE  LET e == [ok |-> ok, stream |-> s, bytes |-> line]
           IN  e \in Event /\ e.ok = ok /\ e.stream = s /\ e.bytes = line
  BY DEF Event

\* A read error leaves a mark, which stays.
LEMMA ErrorMarked ==
    ASSUME TypeOK, NEW s \in Streams, ReadError(s)
    PROVE  ~NoErrors'
  <1> DEFINE e == [ok |-> FALSE, stream |-> s, bytes |-> <<>>]
  <1>1. <<>> \in Seq(Bytes)
    OBVIOUS
  <1>2. e \in Event /\ e.ok = FALSE
    BY <1>1, EventOk
  <1>3. channel \in Seq(Event) /\ channel' = Append(channel, e)
    BY DEF ReadError, TypeOK
  <1> HIDE DEF e
  <1>4. ~AllOk(Append(channel, e))
    BY <1>2, <1>3, AllOkAppend
  <1>5. ~AllOk(channel')
    BY <1>3, <1>4
  <1>6. QED
    BY <1>5, Zenon DEF NoErrors

\* Without a read error there was none before.
LEMMA NoErrorsBefore ==
    ASSUME TypeOK, [Next]_vars, NoErrors'
    PROVE  NoErrors
  <1>1. readError' = "none" /\ AllOk(channel')
    BY Zenon DEF NoErrors
  <1>2. channel \in Seq(Event)
    BY DEF TypeOK
  <1>3. ASSUME UNCHANGED <<channel, readError>>
        PROVE  NoErrors
    BY <1>1, <1>3 DEF NoErrors
  <1>4. ASSUME NEW e \in Event, channel' \in {channel, Append(channel, e)}, UNCHANGED readError
        PROVE  NoErrors
    <2>1. CASE channel' = channel
      BY <1>3, <1>4, <2>1
    <2>2. CASE channel' = Append(channel, e)
      <3>1. AllOk(Append(channel, e))
        BY <1>1, <2>2
      <3>2. AllOk(channel)
        BY <1>2, <3>1, AllOkAppend
      <3>3. QED
        BY <1>1, <1>4, <3>2 DEF NoErrors
    <2>3. QED
      BY <1>4, <2>1, <2>2
  <1>5. ASSUME NEW s \in Streams, ReadByte(s)
        PROVE  NoErrors
    <2>1. PICK line \in Seq(Bytes) :
             /\ UNCHANGED readError
             /\ channel' \in {channel,
                             Append(channel, [ok |-> TRUE, stream |-> s, bytes |-> line])}
      BY <1>5, ReadByteIs, Zenon
    <2>2. [ok |-> TRUE, stream |-> s, bytes |-> line] \in Event
      BY EventOk
    <2>3. QED
      BY <1>4, <2>1, <2>2, Zenon
  <1>6. ASSUME NEW s \in Streams, ReadEnd(s)
        PROVE  NoErrors
    <2>1. PICK line \in Seq(Bytes) :
             /\ UNCHANGED readError
             /\ channel' \in {channel,
                             Append(channel, [ok |-> TRUE, stream |-> s, bytes |-> line])}
      BY <1>6, ReadEndIs, Zenon
    <2>2. [ok |-> TRUE, stream |-> s, bytes |-> line] \in Event
      BY EventOk
    <2>3. QED
      BY <1>4, <2>1, <2>2, Zenon
  <1>7. ASSUME NEW s \in Streams, ReadError(s)
        PROVE  NoErrors
    BY <1>7, ErrorMarked
  <1>8. CASE Receive
    <2>1. /\ channel # <<>> /\ channel' = Tail(channel)
          /\ Head(channel).ok => readError' = readError
          /\ ~Head(channel).ok =>
                readError' = IF readError = "none" THEN Head(channel).stream ELSE readError
      BY <1>8 DEF Receive
    <2>2. Head(channel).stream \in Streams
      BY <1>2, <2>1, HeadOfChannel
    <2>3. Head(channel).ok /\ readError = "none"
      BY <1>1, <2>1, <2>2 DEF Streams
    <2>4. AllOk(Tail(channel))
      BY <1>1, <2>1
    <2>5. AllOk(channel)
      BY <1>2, <2>1, <2>3, <2>4, AllOkTail
    <2>6. QED
      BY <2>3, <2>5 DEF NoErrors
  <1>9. CASE ~Receive /\ ~\E s \in Streams : ReadByte(s) \/ ReadEnd(s) \/ ReadError(s)
    <2>1. UNCHANGED <<channel, readError>>
      BY <1>9 DEF Next, MainStep, ChildStep, ReaderStep, Finished, vars, SpawnFails, Spawn,
                  ChildWrites, ChildExits, ChildKilled, DescendantEnds, ChannelClosed, Wait
    <2>2. QED
      BY <1>3, <2>1
  <1>10. QED
    BY <1>5, <1>6, <1>7, <1>8, <1>9

\* The beginning.
LEMMA EndedInit == Init => EndedInv
  BY DEF Init, EndedInv

\* A reader that has ended without an error stays at the end of its stream.
LEMMA EndedStep == TypeOK /\ ControlInv /\ EndedInv /\ [Next]_vars => EndedInv'
  <1> SUFFICES ASSUME TypeOK, ControlInv, EndedInv, [Next]_vars, NoErrors',
                      NEW t \in Streams, reader'[t].at = "ended"
               PROVE  child' # "running" /\ pipe'[t] = <<>>
    BY DEF EndedInv
  <1>1. \A s \in Streams : reader[s].at = "ended" => child # "running" /\ pipe[s] = <<>>
    BY NoErrorsBefore DEF EndedInv
  <1>2. pipe \in [Streams -> Seq(Bytes)] /\ reader \in [Streams -> Readers]
    BY DEF TypeOK
  <1>3. ASSUME UNCHANGED <<reader, pipe>>, child' \in {child, "signal"}
        PROVE  child' # "running" /\ pipe'[t] = <<>>
    BY <1>1, <1>3
  <1>4. CASE SpawnFails
    BY <1>3, <1>4 DEF SpawnFails
  <1>5. CASE Spawn
    BY <1>5 DEF Spawn
  <1>6. CASE ChildWrites
    BY <1>1, <1>6 DEF ChildWrites
  <1>7. CASE ChildExits
    BY <1>1, <1>7 DEF ChildExits
  <1>8. CASE ChildKilled
    BY <1>3, <1>8 DEF ChildKilled
  <1>9. CASE DescendantEnds
    BY <1>3, <1>9 DEF DescendantEnds
  <1>10. ASSUME NEW s \in Streams, ReadByte(s)
         PROVE  child' # "running" /\ pipe'[t] = <<>>
    <2>1. reader[t].at = "ended" /\ reader[s].at = "reading"
      BY <1>10, ReadByteReaders DEF ReadByte
    <2>2. UNCHANGED child /\ pipe'[t] = pipe[t]
      BY <1>2, <1>10, <2>1 DEF ReadByte
    <2>3. QED
      BY <1>1, <2>1, <2>2
  <1>11. ASSUME NEW s \in Streams, ReadEnd(s)
         PROVE  child' # "running" /\ pipe'[t] = <<>>
    <2>1. UNCHANGED <<child, pipe>> /\ pipe[s] = <<>> /\ child # "running"
      BY <1>11 DEF ReadEnd, AtEnd
    <2>2. CASE t = s
      BY <2>1, <2>2
    <2>3. CASE t # s
      <3>1. reader'[t] = reader[t]
        BY <1>11, <2>3, ReadEndReaders
      <3>2. QED
        BY <1>1, <2>1, <3>1
    <2>4. QED
      BY <2>2, <2>3
  <1>12. ASSUME NEW s \in Streams, ReadError(s)
         PROVE  child' # "running" /\ pipe'[t] = <<>>
    BY <1>12, ErrorMarked
  <1>13. CASE Receive
    BY <1>3, <1>13 DEF Receive
  <1>14. CASE ChannelClosed
    BY <1>3, <1>14 DEF ChannelClosed
  <1>15. CASE Wait
    BY <1>3, <1>15 DEF Wait
  <1>16. CASE UNCHANGED vars
    BY <1>3, <1>16 DEF vars
  <1>17. QED
    BY <1>4, <1>5, <1>6, <1>7, <1>8, <1>9, <1>10, <1>11, <1>12, <1>13, <1>14, <1>15, <1>16
    DEF Next, MainStep, ChildStep, ReaderStep, Finished

-----------------------------------------------------------------------------
(* No byte is lost, doubled or moved. *)

\* How much of the stream s is where.
Flow(s) == Flows(written[s], collected[s], channel, s, reader[s].line, pipe[s])

\* The beginning.
LEMMA FlowInit == Init => FlowInv
  <1> SUFFICES ASSUME Init, NEW s \in Streams
               PROVE  Flow(s)
    BY DEF FlowInv, Flow
  <1>1. /\ written[s] = <<>> /\ collected[s] = <<>> /\ pipe[s] = <<>> /\ channel = <<>>
        /\ reader[s].line = <<>>
    BY DEF Init, Empty
  <1>2. QED
    BY <1>1, FlowsEmpty DEF Flow

\* The program writes to the end of a stream.
LEMMA FlowChildWrites ==
    ASSUME TypeOK, ControlInv, EndedInv, NoErrors, ~Inherited, ChildWrites,
           NEW t \in Streams, Flow(t)
    PROVE  Flow(t)'
  <1>1. rest \in Seq(Streams \X Bytes) /\ rest # <<>> /\ child = "running"
    BY DEF TypeOK, ChildWrites
  <1>2. PICK s \in Streams, b \in Bytes : s = Head(rest)[1] /\ b = Head(rest)[2]
    BY <1>1, HeadOfRest
  <1>3. reader[s].at # "ended"
    BY <1>1 DEF EndedInv
  <1>4. /\ pipe' = [pipe EXCEPT ![s] = Append(pipe[s], b)]
        /\ written' = [written EXCEPT ![s] = Append(written[s], b)]
        /\ UNCHANGED <<reader, channel, collected>>
    BY <1>2, <1>3 DEF ChildWrites
  <1>5. pipe \in [Streams -> Seq(Bytes)] /\ written \in [Streams -> Seq(Bytes)]
    BY DEF TypeOK
  <1>6. CASE t = s
    <2>1. pipe'[t] = Append(pipe[t], b) /\ written'[t] = Append(written[t], b)
      BY <1>4, <1>5, <1>6
    <2>2. Flows(Append(written[t], b), collected[t], channel, t, reader[t].line, Append(pipe[t], b))
      BY ReaderTyped, FlowsWrite DEF Flow
    <2>3. QED
      BY <1>4, <2>1, <2>2 DEF Flow
  <1>7. CASE t # s
    <2>1. pipe'[t] = pipe[t] /\ written'[t] = written[t]
      BY <1>4, <1>5, <1>7
    <2>2. QED
      BY <1>4, <2>1 DEF Flow
  <1>8. QED
    BY <1>6, <1>7

\* A reader moves a byte from the pipe to its line, or sends the line.
LEMMA FlowReadByte ==
    ASSUME TypeOK, ControlInv, NEW s \in Streams, ReadByte(s), NEW t \in Streams, Flow(t)
    PROVE  Flow(t)'
  <1>1. /\ pipe \in [Streams -> Seq(Bytes)] /\ collected \in [Streams -> Seq(Bytes)]
        /\ reader \in [Streams -> Readers] /\ channel \in Seq(Event)
    BY Zenon DEF TypeOK
  <1>8. <<>> \in Seq(Bytes)
    OBVIOUS
  <1>0. ASSUME NEW v \in Seq(Bytes)
        PROVE  [reader EXCEPT ![s].line = v][s].line = v
    BY <1>1, LineTyped, Zenon
  <1> PICK byte \in Bytes, line \in Seq(Bytes) :
              /\ byte = Head(pipe[s]) /\ line = Append(reader[s].line, byte)
              /\ pipe[s] # <<>> /\ reader[s].at = "reading"
              /\ Tail(pipe[s]) \in Seq(Bytes) /\ pipe' = [pipe EXCEPT ![s] = Tail(pipe[s])]
              /\ ~Streaming =>
                    /\ collected' = [collected EXCEPT ![s] = Append(collected[s], byte)]
                    /\ UNCHANGED <<reader, channel>>
              /\ Streaming => UNCHANGED collected
              /\ Streaming /\ byte # "newline" =>
                    reader' = [reader EXCEPT ![s].line = line] /\ UNCHANGED channel
              /\ Streaming /\ byte = "newline" =>
                    /\ reader' = [reader EXCEPT ![s].line = <<>>]
                    /\ channel' = Append(channel, [ok |-> TRUE, stream |-> s, bytes |-> line])
              /\ UNCHANGED <<job, pc, child, rest, held, shown, readError, result, written>>
    BY ReadByteIs, Zenon
  <1>2. pipe'[s] = Tail(pipe[s]) /\ (t # s => pipe'[t] = pipe[t])
    BY <1>1
  <1> DEFINE e == [ok |-> TRUE, stream |-> s, bytes |-> line]
  <1>3. e \in Event /\ e.stream = s /\ e.bytes = line
    BY EventOk
  <1> HIDE DEF e
  <1>4. CASE ~Streaming
    <2>1. channel = <<>> /\ reader[s].line = <<>>
      BY <1>4 DEF ControlInv
    <2>2. collected'[s] = Append(collected[s], byte) /\ (t # s => collected'[t] = collected[t])
      BY <1>1, <1>4
    <2>3. CASE t = s
      <3>1. Flows(written[s], Append(collected[s], Head(pipe[s])), channel, s, reader[s].line,
                  Tail(pipe[s]))
        BY <2>1, <2>3, ReaderTyped, FlowsCollect DEF Flow
      <3>2. QED
        BY <1>2, <1>4, <2>2, <2>3, <3>1 DEF Flow
    <2>4. CASE t # s
      BY <1>2, <1>4, <2>2, <2>4 DEF Flow
    <2>5. QED
      BY <2>3, <2>4
  <1>5. CASE Streaming /\ t = s
    <2>1. Flows(written[s], collected[s], channel, s, line, Tail(pipe[s]))
      BY <1>5, ReaderTyped, FlowsRead DEF Flow
    <2>2. CASE byte # "newline"
      <3>1. [reader EXCEPT ![s].line = line][s].line = line
        BY <1>0, Zenon
      <3>2. reader'[s].line = line /\ channel' = channel
        BY <1>5, <2>2, <3>1
      <3>3. QED
        BY <1>2, <1>5, <2>1, <3>2 DEF Flow
    <2>3. CASE byte = "newline"
      <3>1. [reader EXCEPT ![s].line = <<>>][s].line = <<>>
        BY <1>0, <1>8, Zenon
      <3>2. reader'[s].line = <<>> /\ channel' = Append(channel, e)
        BY <1>5, <2>3, <3>1 DEF e
      <3>3. written[s] \in Seq(Bytes) /\ collected[s] \in Seq(Bytes)
        BY ReaderTyped
      <3>4. Flows(written[s], collected[s], Append(channel, e), s, <<>>, Tail(pipe[s]))
        BY <1>1, <1>3, <2>1, <3>3, FlowsSend
      <3>5. QED
        BY <1>2, <1>5, <3>2, <3>4 DEF Flow
    <2>4. QED
      BY <2>2, <2>3
  <1>6. CASE Streaming /\ t # s
    <2>1. reader'[t] = reader[t]
      BY <1>6, ReadByteReaders
    <2>2. CASE byte # "newline"
      BY <1>2, <1>6, <2>1, <2>2 DEF Flow
    <2>3. CASE byte = "newline"
      <3>1. channel' = Append(channel, e)
        BY <1>6, <2>3 DEF e
      <3>2. Flows(written[t], collected[t], Append(channel, e), t, reader[t].line, pipe[t])
        BY <1>1, <1>3, <1>6, ReaderTyped, FlowsSendOther DEF Flow
      <3>3. QED
        BY <1>2, <1>6, <2>1, <3>1, <3>2 DEF Flow
    <2>4. QED
      BY <2>2, <2>3
  <1>7. QED
    BY <1>4, <1>5, <1>6

\* At the end of the stream the unfinished line is sent.
LEMMA FlowReadEnd ==
    ASSUME TypeOK, NEW s \in Streams, ReadEnd(s), NEW t \in Streams, Flow(t)
    PROVE  Flow(t)'
  <1> PICK line \in Seq(Bytes) :
              /\ line = reader[s].line
              /\ line # <<>> =>
                    /\ channel' = Append(channel, [ok |-> TRUE, stream |-> s, bytes |-> line])
              /\ line = <<>> => UNCHANGED channel
              /\ UNCHANGED <<job, pc, child, rest, held, pipe, collected, shown, readError,
                             result, written>>
    BY ReadEndIs, Zenon
  <1>1. reader'[s].line = <<>> /\ (t # s => reader'[t] = reader[t]) /\ channel \in Seq(Event)
    BY ReadEndReaders DEF TypeOK
  <1> DEFINE e == [ok |-> TRUE, stream |-> s, bytes |-> line]
  <1>2. e \in Event /\ e.stream = s /\ e.bytes = line
    BY EventOk
  <1>3. CASE line = <<>>
    <2>1. reader'[t].line = reader[t].line
      BY <1>1, <1>3
    <2>2. QED
      BY <1>3, <2>1 DEF Flow
  <1>4. CASE line # <<>>
    <2>1. channel' = Append(channel, e)
      BY <1>4
    <2> HIDE DEF e
    <2>2. CASE t = s
      <3>1. Flows(written[s], collected[s], Append(channel, e), s, <<>>, pipe[s])
        BY <1>2, <2>2, ReaderTyped, FlowsSend DEF Flow
      <3>2. QED
        BY <1>1, <2>1, <2>2, <3>1 DEF Flow
    <2>3. CASE t # s
      <3>1. Flows(written[t], collected[t], Append(channel, e), t, reader[t].line, pipe[t])
        BY <1>2, <2>3, ReaderTyped, FlowsSendOther DEF Flow
      <3>2. QED
        BY <1>1, <2>1, <2>3, <3>1 DEF Flow
    <2>4. QED
      BY <2>2, <2>3
  <1>5. QED
    BY <1>3, <1>4

\* The collector takes the first event.
LEMMA FlowReceive ==
    ASSUME TypeOK, NoErrors, Receive, NEW t \in Streams, Flow(t)
    PROVE  Flow(t)'
  <1> DEFINE event == Head(channel)
  <1>1. channel \in Seq(Event) /\ channel # <<>> /\ collected \in [Streams -> Seq(Bytes)]
    BY DEF TypeOK, Receive
  <1>2. event.ok /\ event.bytes \in Seq(Bytes) /\ event.stream \in Streams
    <2>1. Len(channel) > 0 /\ Head(channel) = channel[1] /\ Len(channel) \in Nat
      BY <1>1
    <2>2. event.ok
      BY <2>1 DEF NoErrors, AllOk
    <2>3. QED
      BY <1>1, <2>2, HeadOfChannel
  <1>3. /\ collected' = [collected EXCEPT ![event.stream] = collected[event.stream] \o event.bytes]
        /\ channel' = Tail(channel) /\ UNCHANGED <<pipe, reader, written>>
    BY <1>2 DEF Receive
  <1> HIDE DEF event
  <1> DEFINE more == IF event.stream = t THEN collected[t] \o event.bytes ELSE collected[t]
  <1>4. collected'[t] = more
    BY <1>1, <1>2, <1>3
  <1>5. more \in Seq(Bytes)
    BY <1>1, <1>2
  <1>6. more = IF Head(channel).stream = t THEN collected[t] \o Head(channel).bytes ELSE collected[t]
    BY DEF event
  <1> HIDE DEF more
  <1>7. Flows(written[t], more, Tail(channel), t, reader[t].line, pipe[t])
    BY <1>1, <1>5, <1>6, ReaderTyped, FlowsReceive DEF Flow
  <1>8. QED
    BY <1>3, <1>4, <1>7 DEF Flow

\* Every step keeps what was written accounted for.
LEMMA FlowStep == TypeOK /\ ControlInv /\ EndedInv /\ FlowInv /\ [Next]_vars => FlowInv'
  <1> SUFFICES ASSUME TypeOK, ControlInv, EndedInv, FlowInv, [Next]_vars,
                      ~Inherited', NoErrors', NEW t \in Streams
               PROVE  Flow(t)'
    BY DEF FlowInv, Flow
  <1>1. job' = job
    BY DEF Next, MainStep, ChildStep, ReaderStep, Finished, vars, SpawnFails, Spawn,
           ChildWrites, ChildExits, ChildKilled, DescendantEnds, ReadByte, ReadEnd, ReadError,
           Receive, ChannelClosed, Wait
  <1>2. ~Inherited /\ NoErrors
    BY <1>1, NoErrorsBefore DEF Inherited
  <1>3. Flow(t)
    BY <1>2 DEF FlowInv, Flow
  <1>4. CASE Spawn
    <2>1. reader[t].line = <<>> /\ reader'[t].line = <<>>
      BY <1>4 DEF ControlInv, Spawn
    <2>2. UNCHANGED <<written, collected, channel, pipe>>
      BY <1>4 DEF Spawn
    <2>3. QED
      BY <1>3, <2>1, <2>2 DEF Flow
  <1>5. CASE ChildWrites
    BY <1>2, <1>3, <1>5, FlowChildWrites
  <1>6. ASSUME NEW s \in Streams, ReadByte(s)
        PROVE  Flow(t)'
    BY <1>3, <1>6, FlowReadByte
  <1>7. ASSUME NEW s \in Streams, ReadEnd(s)
        PROVE  Flow(t)'
    BY <1>3, <1>7, FlowReadEnd
  <1>8. ASSUME NEW s \in Streams, ReadError(s)
        PROVE  Flow(t)'
    BY <1>8, ErrorMarked
  <1>9. CASE Receive
    BY <1>2, <1>3, <1>9, FlowReceive
  <1>10. CASE SpawnFails \/ ChildExits \/ ChildKilled \/ DescendantEnds \/ ChannelClosed \/ Wait
              \/ UNCHANGED vars
    <2>1. UNCHANGED <<written, collected, channel, reader, pipe>>
      BY <1>10 DEF SpawnFails, ChildExits, ChildKilled, DescendantEnds, ChannelClosed, Wait, vars
    <2>2. QED
      BY <1>3, <2>1 DEF Flow
  <1>11. QED
    BY <1>4, <1>5, <1>6, <1>7, <1>8, <1>9, <1>10
    DEF Next, MainStep, ChildStep, ReaderStep, Finished

-----------------------------------------------------------------------------
(* What was forwarded, and the result. *)

\* The beginning.
LEMMA ShownInit == Init => ShownInv
  <1>1. ASSUME Init, NEW s \in Streams
        PROVE  shown[s] = <<>> /\ collected[s] = <<>>
    BY <1>1 DEF Init, Empty
  <1>2. QED
    BY <1>1, LossyOfNothing DEF ShownInv

\* What is received is forwarded.
LEMMA ShownStep == TypeOK /\ ControlInv /\ ShownInv /\ [Next]_vars => ShownInv'
  <1> SUFFICES ASSUME TypeOK, ControlInv, ShownInv, [Next]_vars, Streaming', NEW t \in Streams
               PROVE  shown'[t] = Lossy(collected'[t])
    <2>1. QED
      BY Zenon DEF ShownInv, Lossy
  <1>1. job' = job
    BY DEF Next, MainStep, ChildStep, ReaderStep, Finished, vars, SpawnFails, Spawn,
           ChildWrites, ChildExits, ChildKilled, DescendantEnds, ReadByte, ReadEnd, ReadError,
           Receive, ChannelClosed, Wait
  <1>2. Streaming
    BY <1>1 DEF Streaming
  <1>3. \A s \in Streams : shown[s] = Lossy(collected[s])
    BY <1>2 DEF ShownInv
  <1>4. CASE Receive
    <2> DEFINE event == Head(channel)
    <2>1. /\ event.bytes \in Seq(Bytes) /\ event.stream \in Streams
          /\ collected \in [Streams -> Seq(Bytes)]
          /\ shown \in [Streams -> Seq(Bytes \cup {"replaced"})]
      BY <1>4, HeadOfChannel DEF Receive, TypeOK
    <2>2. PICK s \in Streams : s = event.stream
      BY <2>1
    <2>3. PICK bytes \in Seq(Bytes) : bytes = event.bytes
      BY <2>1
    <2>4. \/ UNCHANGED <<collected, shown>>
          \/ /\ collected' = [collected EXCEPT ![s] = collected[s] \o bytes]
             /\ shown' = [shown EXCEPT ![s] = shown[s] \o Lossy(bytes)]
      BY <1>4, <2>2, <2>3 DEF Receive
    <2> HIDE DEF event
    <2>5. CASE UNCHANGED <<collected, shown>>
      BY <1>3, <2>5
    <2>6. CASE /\ collected' = [collected EXCEPT ![s] = collected[s] \o bytes]
               /\ shown' = [shown EXCEPT ![s] = shown[s] \o Lossy(bytes)]
      <3>1. CASE t = s
        <4>1. collected'[t] = collected[t] \o bytes /\ shown'[t] = shown[t] \o Lossy(bytes)
          BY <2>1, <2>6, <3>1
        <4>2. shown[t] = Lossy(collected[t]) /\ collected[t] \in Seq(Bytes)
          BY <1>3, <2>1
        <4>3. Lossy(collected[t] \o bytes) = Lossy(collected[t]) \o Lossy(bytes)
          BY <4>2, LossyJoins
        <4>4. QED
          BY <4>1, <4>2, <4>3
      <3>2. CASE t # s
        <4>1. collected'[t] = collected[t] /\ shown'[t] = shown[t]
          BY <2>1, <2>6, <3>2
        <4>2. QED
          BY <1>3, <4>1
      <3>3. QED
        BY <3>1, <3>2
    <2>7. QED
      BY <2>4, <2>5, <2>6
  <1>5. CASE ~Receive
    <2>1. UNCHANGED <<collected, shown>>
      BY <1>2, <1>5
      DEF Next, MainStep, ChildStep, ReaderStep, Finished, vars, SpawnFails, Spawn,
          ChildWrites, ChildExits, ChildKilled, DescendantEnds, ReadByte, ReadEnd, ReadError,
          ChannelClosed, Wait
    <2>2. QED
      BY <1>3, <2>1
  <1>6. QED
    BY <1>4, <1>5

\* Nothing that the result depends on changes afterwards.
LEMMA ResultStep == TypeOK /\ ControlInv /\ ResultInv /\ [Next]_vars => ResultInv'
  <1> SUFFICES ASSUME TypeOK, ControlInv, ResultInv, [Next]_vars, pc' = "done", child' # "none"
               PROVE  child' # "running" /\ result' = Outcome'
    BY DEF ResultInv
  <1>1. CASE Wait
    <2>1. /\ child # "running" /\ UNCHANGED <<job, child, collected, readError>>
          /\ result' = Outcome
      BY <1>1 DEF Wait
    <2>2. Outcome' = Outcome
      BY <2>1 DEF Outcome, ExistsResult, ForegroundResult, CaptureResult, OutputDetail,
                  Utf8Error
    <2>3. QED
      BY <2>1, <2>2
  <1>2. CASE ~Wait
    <2>1. pc = "done" /\ child # "none"
      BY <1>2 DEF Next, MainStep, ChildStep, ReaderStep, Finished, vars, SpawnFails, Spawn,
          ChildWrites, ChildExits, ChildKilled, DescendantEnds, ReadByte, ReadEnd, ReadError,
          Receive, ChannelClosed, ControlInv
    <2>2. child # "running" /\ result = Outcome
      BY <2>1 DEF ResultInv
    <2>3. \A s \in Streams : reader[s].at # "reading"
      BY <2>1 DEF ControlInv
    <2>4. UNCHANGED <<job, child, collected, readError, result>>
      BY <1>2, <2>1, <2>2, <2>3
      DEF Next, MainStep, ChildStep, ReaderStep, Finished, vars, SpawnFails, Spawn,
          ChildWrites, ChildExits, ChildKilled, DescendantEnds, ReadByte, ReadEnd, ReadError,
          Receive, ChannelClosed
    <2>5. Outcome' = Outcome
      BY <2>4 DEF Outcome, ExistsResult, ForegroundResult, CaptureResult, OutputDetail,
                  Utf8Error
    <2>6. QED
      BY <2>2, <2>4, <2>5
  <1>3. QED
    BY <1>1, <1>2

-----------------------------------------------------------------------------
(* The theorem. *)

\* At the end without a read error all that was written was collected.
LEMMA AllCollected ==
    ASSUME CaptureInv, pc = "done", child # "none", ~Inherited, readError = "none"
    PROVE  collected = written
  <1>1. /\ channel = <<>> /\ \A s \in Streams : reader[s].at = "ended" /\ reader[s].line = <<>>
    BY DEF CaptureInv, ControlInv
  <1>2. NoErrors
    BY <1>1 DEF NoErrors, AllOk
  <1>3. ASSUME NEW s \in Streams
        PROVE  collected[s] = written[s]
    <2>1. pipe[s] = <<>> /\ channel = <<>> /\ reader[s].line = <<>>
      BY <1>1, <1>2 DEF CaptureInv, EndedInv
    <2>2. Flows(written[s], collected[s], <<>>, s, <<>>, <<>>)
      BY <1>2, <2>1 DEF CaptureInv, FlowInv
    <2>3. collected[s] \in Seq(Bytes) /\ written[s] \in Seq(Bytes)
      BY ReaderTyped DEF CaptureInv
    <2>4. QED
      BY <2>2, <2>3, FlowsAll
  <1>4. collected \in [Streams -> Seq(Bytes)] /\ written \in [Streams -> Seq(Bytes)]
    BY DEF CaptureInv, TypeOK
  <1>5. QED
    BY <1>3, <1>4

\* The line that logs_tail puts between the streams.
LEMMA LogsTailParts ==
    ASSUME NEW out \in Seq(Bytes), NEW err \in Seq(Bytes), err # <<>>,
           NEW i \in 1 .. Len(LogsTail(out, err)) - 1, i = Len(out)
    PROVE  LogsTail(out, err)[i] = "newline" \/ LogsTail(out, err)[i + 1] = "newline"
  <1>1. Len(out) \in Nat /\ i > 0 /\ out # <<>>
    OBVIOUS
  <1>2. CASE out[i] = "newline"
    <2>1. LogsTail(out, err) = out \o <<>> \o err
      BY <1>1, <1>2 DEF LogsTail, Last
    <2>2. out \o <<>> = out
      OBVIOUS
    <2>3. (out \o err)[i] = out[i]
      BY <1>1
    <2>4. QED
      BY <1>2, <2>1, <2>2, <2>3
  <1>3. CASE out[i] # "newline"
    <2>1. LogsTail(out, err) = out \o <<"newline">> \o err
      BY <1>1, <1>3 DEF LogsTail, Last
    <2>2. "newline" \in Bytes
      BY DEF Bytes
    <2> DEFINE line == out \o <<"newline">>
    <2>3. line \in Seq(Bytes) /\ Len(line) = i + 1 /\ line[i + 1] = "newline"
      <3>1. line = Append(out, "newline")
        BY <2>2
      <3>2. QED
        BY <2>2, <3>1
    <2> HIDE DEF line
    <2>4. (line \o err)[i + 1] = line[i + 1]
      BY <2>3
    <2>5. QED
      BY <2>1, <2>3, <2>4 DEF line
  <1>4. QED
    BY <1>2, <1>3

\* The invariant holds from the beginning.
LEMMA CaptureInit == Init => CaptureInv
  <1>1. Init => ResultInv
    BY DEF Init, ResultInv
  <1>2. QED
    BY <1>1, TypeInit, ControlInit, EndedInit, FlowInit, ShownInit DEF CaptureInv

\* Every step keeps it.
LEMMA CaptureStep == CaptureInv /\ [Next]_vars => CaptureInv'
  BY TypeStep, ControlStep, EndedStep, FlowStep, ShownStep, ResultStep DEF CaptureInv

\* It says more than the property.
LEMMA CaptureSuffices == CaptureInv => OutputComplete
  <1> SUFFICES ASSUME CaptureInv, pc = "done", child # "none"
               PROVE  OutputComplete
    BY DEF OutputComplete
  <1>1. child # "running" /\ result = Outcome
    BY DEF CaptureInv, ResultInv
  <1>2. job.kind \in Kinds
    BY JobsAssumption DEF CaptureInv, TypeOK
  <1>3. Streaming => \A s \in Streams : shown[s] = Lossy(collected[s])
    BY DEF CaptureInv, ShownInv
  <1>4. CASE job.kind = "exists"
    <2>1. result = ExistsResult /\ Inherited /\ ~Streaming
      BY <1>1, <1>4 DEF Outcome, Inherited, Streaming
    <2>2. CASE child = "0"
      <3>1. result.kind = "present"
        BY <2>1, <2>2 DEF ExistsResult
      <3>2. QED
        BY <1>1, <2>1, <2>2, <3>1 DEF OutputComplete
    <2>3. CASE child = "1"
      <3>1. result.kind = "absent"
        BY <2>1, <2>3 DEF ExistsResult
      <3>2. QED
        BY <1>1, <2>1, <2>3, <3>1 DEF OutputComplete
    <2>4. CASE child \notin {"0", "1"}
      <3>1. result.kind = "exit"
        BY <2>1, <2>4 DEF ExistsResult
      <3>2. QED
        BY <1>1, <2>1, <2>4, <3>1 DEF OutputComplete
    <2>5. QED
      BY <2>2, <2>3, <2>4
  <1>5. CASE job.kind = "foreground"
    <2>1. result = ForegroundResult /\ Inherited /\ ~Streaming
      BY <1>1, <1>5 DEF Outcome, Inherited, Streaming
    <2>2. CASE child = "0"
      <3>1. result.kind = "ok"
        BY <2>1, <2>2 DEF ForegroundResult
      <3>2. QED
        BY <1>1, <2>1, <2>2, <3>1 DEF OutputComplete
    <2>3. CASE child # "0"
      <3>1. result.kind \in {"signal", "code"}
        BY <2>1, <2>3 DEF ForegroundResult
      <3>2. QED
        BY <1>1, <2>1, <2>3, <3>1 DEF OutputComplete
    <2>4. QED
      BY <2>2, <2>3
  <1>6. CASE job.kind \notin {"exists", "foreground"}
    <2>1. result = CaptureResult /\ ~Inherited
      BY <1>1, <1>6 DEF Outcome, Inherited
    <2>2. CASE readError # "none"
      <3>1. result.kind = "read"
        BY <2>1, <2>2 DEF CaptureResult
      <3>2. QED
        BY <1>1, <1>3, <2>2, <3>1 DEF OutputComplete
    <2>3. CASE readError = "none"
      <3>1. collected = written
        BY <2>1, <2>3, AllCollected
      <3>2. Utf8Error <=> WroteBad
        BY <3>1 DEF Utf8Error, WroteBad
      <3>3. CASE Utf8Error
        <4>1. result.kind = "utf8"
          BY <2>1, <2>3, <3>3 DEF CaptureResult
        <4>2. QED
          BY <1>1, <1>3, <3>2, <3>3, <4>1 DEF OutputComplete
      <3>4. CASE ~Utf8Error /\ job.kind = "captureStatus"
        <4>1. result.kind = "status"
          BY <2>1, <2>3, <3>4 DEF CaptureResult
        <4>2. QED
          BY <1>1, <1>3, <3>1, <4>1 DEF OutputComplete
      <3>5. CASE ~Utf8Error /\ job.kind # "captureStatus" /\ child # "0"
        <4>1. result.kind = "exit" /\ result.detail = OutputDetail
          BY <2>1, <2>3, <3>5 DEF CaptureResult
        <4>2. OutputDetail = "no output" => \A s \in Streams : Blank(written[s])
          BY <3>1 DEF OutputDetail, Streams
        <4>3. QED
          BY <1>1, <1>3, <3>1, <3>5, <4>1, <4>2 DEF OutputComplete
      <3>6. CASE ~Utf8Error /\ job.kind = "logs" /\ child = "0"
        <4>1. /\ result.kind = "logs"
              /\ result.logs = LogsTail(written["stdout"], written["stderr"])
          BY <2>1, <2>3, <3>1, <3>6 DEF CaptureResult
        <4>2. written["stdout"] \in Seq(Bytes) /\ written["stderr"] \in Seq(Bytes)
          BY ReaderTyped DEF CaptureInv, Streams
        <4>3. ASSUME NEW i \in 1 .. Len(result.logs) - 1,
                     i = Len(written["stdout"]), written["stderr"] # <<>>
              PROVE  result.logs[i] = "newline" \/ result.logs[i + 1] = "newline"
          BY <4>1, <4>2, <4>3, LogsTailParts
        <4>4. QED
          BY <1>1, <1>3, <3>1, <3>6, <4>1, <4>3 DEF OutputComplete
      <3>7. CASE ~Utf8Error /\ job.kind \notin {"captureStatus", "logs"} /\ child = "0"
        <4>1. result.kind = "ok"
          BY <2>1, <2>3, <3>7 DEF CaptureResult
        <4>2. QED
          BY <1>1, <1>3, <3>1, <3>7, <4>1 DEF OutputComplete
      <3>8. QED
        BY <3>3, <3>4, <3>5, <3>6, <3>7
    <2>4. QED
      BY <2>2, <2>3
  <1>7. QED
    BY <1>4, <1>5, <1>6

\* Every variable has its type.
THEOREM TypeCorrect == Spec => []TypeOK
  <1>1. TypeOK /\ [Next]_vars => TypeOK'
    BY TypeStep
  <1>2. QED
    BY TypeInit, <1>1, PTL DEF Spec

\* At every moment before a read error, and also of a program that is still
\* writing or was killed: what was collected, the events in the channel, the
\* unfinished line and what is in the pipe are, one after the other, exactly
\* what was written to the stream.
THEOREM NothingIsLost == Spec => []FlowInv
  <1>1. CaptureInv /\ [Next]_vars => CaptureInv'
    BY CaptureStep
  <1>2. CaptureInv => FlowInv
    BY DEF CaptureInv
  <1>3. QED
    BY CaptureInit, <1>1, <1>2, PTL DEF Spec

\* While the capture lasts somebody can go on.
LEMMA NotStuck ==
    ASSUME TypeOK, ControlInv, pc # "done"
    PROVE  SomebodyCan
  <1>1. pipe \in [Streams -> Seq(Bytes)] /\ reader \in [Streams -> Readers]
        /\ rest \in Seq(Streams \X Bytes) /\ pc \in {"spawn", "collect", "wait"}
    BY DEF TypeOK
  <1>2. ASSUME child = "running"
        PROVE  ChildCan \/ \E s \in Streams : ReaderCan(s)
    <2>1. CASE rest = <<>> \/ Inherited
      BY <1>2, <2>1 DEF ChildCan
    <2>2. CASE rest # <<>> /\ ~Inherited
      <3>1. PICK s \in Streams : s = Head(rest)[1]
        BY <1>1, <2>2, HeadOfRest
      <3>2. reader[s].at \in {"reading", "ended"}
        BY <1>2, <2>2, ReaderTyped DEF ControlInv
      <3>3. Len(pipe[s]) < PipeSize \/ pipe[s] # <<>>
        BY PipeAssumption
      <3>4. QED
        BY <1>2, <3>1, <3>2, <3>3 DEF ChildCan, ReaderCan
    <2>3. QED
      BY <2>1, <2>2
  <1>3. CASE pc = "spawn"
    BY <1>3 DEF SomebodyCan, MainCan
  <1>4. CASE pc = "wait"
    BY <1>2, <1>4 DEF SomebodyCan, MainCan
  <1>5. CASE pc = "collect"
    <2>1. CASE channel # <<>> \/ \A s \in Streams : reader[s].at = "ended"
      BY <1>5, <2>1 DEF SomebodyCan, MainCan
    <2>2. CASE ~(channel # <<>> \/ \A s \in Streams : reader[s].at = "ended")
      <3>1. PICK s \in Streams : reader[s].at # "ended"
        BY <2>2
      <3>2. child # "none" /\ ~Inherited
        BY <1>5 DEF ControlInv
      <3>3. reader[s].at = "reading"
        BY <3>1, <3>2, ReaderTyped DEF ControlInv
      <3>4. QED
        BY <1>2, <3>3 DEF SomebodyCan, ReaderCan, AtEnd
    <2>3. QED
      BY <2>1, <2>2
  <1>6. QED
    BY <1>1, <1>3, <1>4, <1>5

\* The program, the readers, the collector and a descendant with the pipes
\* never wait for each other in a ring, whatever is written to which stream and
\* however small the pipes are: before the end one of them can go on.
THEOREM NeverStuck == Spec => [](pc # "done" => SomebodyCan)
  <1>1. CaptureInv /\ [Next]_vars => CaptureInv'
    BY CaptureStep
  <1>2. CaptureInv => (pc # "done" => SomebodyCan)
    BY NotStuck DEF CaptureInv
  <1>3. QED
    BY CaptureInit, <1>1, <1>2, PTL DEF Spec

\* Whatever the order of the program, the readers and the collector, and
\* wherever the program is killed: a capture without an error has every byte
\* of both streams in order and forwarded it so, and its result is the one
\* that the exit status and the output call for.
THEOREM OutputCompleteCorrect == Spec => []OutputComplete
  <1>1. Init => CaptureInv
    BY CaptureInit
  <1>2. CaptureInv /\ [Next]_vars => CaptureInv'
    BY CaptureStep
  <1>3. CaptureInv => OutputComplete
    BY CaptureSuffices
  <1>4. QED
    BY <1>1, <1>2, <1>3, PTL DEF Spec
==============================================================================
