------------------------------ MODULE Realtime ------------------------------
(***************************************************************************)
(* The real-time programs, each against a network that loses and repeats   *)
(* messages and keeps their order. The peer of the loopbacks and of the    *)
(* nodeset's subscriber counts; the peer of the other publishers sends     *)
(* back what it gets, and goes on until it has said that it stops.         *)
(***************************************************************************)
EXTENDS Process

CONSTANTS
    MaxCounter,     \* bound for each program: the counter that it or its peer reaches
    MaxMeasurements \* MAX_MEASUREMENTS, for each program

L == INSTANCE TsnLoopback
P == INSTANCE TsnPublisher
S == INSTANCE TsnSingle
M == INSTANCE TsnMultiple
NP == INSTANCE NodesetPublisher
NS == INSTANCE NodesetSubscriber

\* Beside the globals: the pointees, the message received last, the counter
\* published last, and the measurements.
Observed == [RunningPub |-> 0, RunningSub |-> 0, PubCounter |-> 0, SubCounter |-> 0,
             message |-> 0, peerRuns |-> 1, published |-> 0, measuredPub |-> 0, measuredSub |-> 0]

\* The number and the last of the recorded values, what was encoded, what was sent.
Nodes == [PubCounter |-> 0, SubCounter |-> 0, Pressure |-> 0, recorded |-> 0,
          encoded |-> 0, sent |-> <<0, 0>>, row |-> <<0, 0>>]

\* The variables of both.
Both(f, g) == [v \in DOMAIN f \cup DOMAIN g |-> IF v \in DOMAIN f THEN f[v] ELSE g[v]]

RealtimePrograms ==
    [loopback |-> [threads |-> L!loopback, data |-> Both(L!Globals, Observed),
                   handler |-> L!stopHandler],
     publisher |-> [threads |-> P!publisher, data |-> Both(P!Globals, Observed),
                    handler |-> P!stopHandler],
     single |-> [threads |-> S!loopback, data |-> Both(S!Globals, Observed),
                 handler |-> S!stopHandler],
     multiple |-> [threads |-> M!publisher, data |-> Both(M!Globals, Observed),
                   handler |-> M!stopHandler],
     nodesetPublisher |-> [threads |-> NP!publisher, data |-> Both(NP!Globals, Nodes),
                           handler |-> NP!stopHandler],
     nodesetSubscriber |-> [threads |-> NS!subscriberProgram, data |-> Both(NS!Globals, Nodes),
                            handler |-> NS!stopHandler]]

RealtimeNames == DOMAIN RealtimePrograms
TwoWay == {"loopback", "publisher", "single", "multiple"}

ASSUME TableAssumption ==
    \A p \in RealtimeNames \cap DOMAIN Programs : Programs[p] = RealtimePrograms[p]

ASSUME BoundsAssumption ==
    \A p \in RealtimeNames : MaxCounter[p] \in Nat /\ MaxMeasurements[p] \in Nat

MayArrive(p, d) ==
    d.message .. IF p \in {"loopback", "single"} THEN MaxCounter[p] ELSE d.published

\* With a counter it comes to know whether the peer still runs.
Arrivals(p, d) == MayArrive(p, d) \X (0 .. d.peerRuns)

\* updateMeasurements*: a full table ends the program; after a signal nothing
\* is recorded.
Measure(p, d, table) ==
    IF d[table] >= MaxMeasurements[p] THEN [d EXCEPT !.signalTerm = 1]
    ELSE IF d.signalTerm = 1 THEN d ELSE [d EXCEPT ![table] = @ + 1]

\* In the nodeset's programs nothing looks at the size of the table.
Record(p, d, counter) ==
    IF d.recorded > MaxMeasurements[p] THEN d
    ELSE [d EXCEPT !.recorded = @ + 1, !.row = <<counter, d.Pressure>>]

Raise(p, n) == IF n < MaxCounter[p] THEN n + 1 ELSE n

\* A nodeset's message holds a counter and the pressure that goes with it, or, from
\* a publisher caught between the two, one that is a step behind.
RealtimeEffect(p, name, d) ==
    CASE name = "clock_gettime" -> {d}
      [] name = "receive running" ->
            {[d EXCEPT !.message = a[1], !.peerRuns = a[2], !.RunningSub = a[2]] :
               a \in Arrivals(p, d)}
      [] name = "receive counter" -> {[d EXCEPT !.SubCounter = d.message]}
      [] name = "pass counter" -> {[d EXCEPT !.PubCounter = d.SubCounter]}
      [] name = "count on" -> {[d EXCEPT !.PubCounter = Raise(p, @)]}
      [] name = "press on" -> {[d EXCEPT !.Pressure = Raise(p, @)]}
      [] name = "publish" -> {[d EXCEPT !.published = d.PubCounter]}
      [] name = "publish counter" -> {[d EXCEPT !.encoded = d.PubCounter]}
      [] name = "publish pressure" -> {[d EXCEPT !.sent = <<d.encoded, d.Pressure>>]}
      [] name = "take counter" ->
            {[d EXCEPT !.SubCounter = c] : c \in d.SubCounter .. MaxCounter[p]}
      [] name = "take pressure" ->
            {[d EXCEPT !.Pressure = n] : n \in {d.Pressure, d.SubCounter - 1, d.SubCounter}
                                                 \ (-1 .. d.Pressure - 1)}
      [] name = "measure published" -> {Measure(p, d, "measuredPub")}
      [] name = "measure received" -> {Measure(p, d, "measuredSub")}
      [] name = "updateMeasurementsPublisher" -> {Record(p, d, d.PubCounter)}
      [] name = "updateMeasurementsSubscriber" -> {Record(p, d, d.SubCounter)}

-----------------------------------------------------------------------------

\* Whatever the threads interleave, the loopback publishes nothing it has not received,
\* and the publisher receives nothing it has not counted (userApplicationPubSub of
\* TsnLoopback and TsnPublisher, the receiving server and the publishing thread).
NothingInvented ==
    CASE prog = "loopback" -> data.published <= data.SubCounter
      [] prog = "publisher" -> data.SubCounter <= data.PubCounter
      [] OTHER -> TRUE

\* Nobody sees an older counter after a newer one.
NeverBackwards ==
    [][(prog \in {"loopback", "publisher"}) =>
         (data'.published >= data.published /\ data'.SubCounter >= data.SubCounter)]_vars

\* The nodeset's publisher reads the two values in one order while the user thread
\* raises them in the same: a pressure is sent at most one step behind its counter.
SentTogether == prog = "nodesetPublisher" => data.sent[2] >= data.sent[1] - 1

\* The nodeset's subscriber records nothing before something has come.
RecordsWhatCame == (prog = "nodesetSubscriber" /\ data.recorded > 0) => data.row[1] > 0

\* The user thread of neither of the nodeset's programs has a smaller counter to record.
CountersRise ==
    [][(prog \in {"nodesetPublisher", "nodesetSubscriber"}) =>
         (data'.row[1] >= data.row[1] /\ data'.sent[1] >= data.sent[1])]_vars

\* The counters that the real-time programs pass between threads, send and record are
\* those that were raised or came, and never go back. (TsnSingle and TsnMultiple are
\* left out: they go no further than the call of a pointer that was never set.)
CountersTrue == /\ [](NothingInvented /\ SentTogether /\ RecordsWhatCame)
                /\ NeverBackwards /\ CountersRise

\* After SIGINT, or a full table of measurements, the loopback ends, but only once its
\* peer has said that it stops: until then the user thread goes on, and main() waits
\* for it. Of the programs of the other Tsn modules this cannot be said: the publisher
\* runs its server for ever, the others call a pointer that was never set.
StopsWithPeer ==
    (prog = "loopback" /\ data.signalTerm = 1 /\ data.peerRuns = 0) ~> exit # "no"

\* Each of the other programs ends after SIGINT.
StopsAfterSignal == (signalled /\ prog \notin TwoWay) ~> exit # "no"
=============================================================================
