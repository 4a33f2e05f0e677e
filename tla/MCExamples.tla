----------------------------- MODULE MCExamples -----------------------------
(***************************************************************************)
(* Five of the examples side by side, one of them in each behaviour; the   *)
(* variables of the others are idle. Variables of one name are shared.     *)
(***************************************************************************)
EXTENDS Naturals, Sequences, Functions

CONSTANTS
    Systems,                 \* the examples that run
    MaxId,                   \* bound: ids of requests
    Configurations, Nothing, \* what a server may be configured with, or not
    Length,                  \* of an encoded configuration, in bytes
    Faults,                  \* the calls of the VxWorks tasks that may fail
    Registers, Multicasts,   \* the servers that register
    Bare, Equipped,          \* those without an address, those with a key
    Offered,                 \* what a discovery server may offer
    Starts, Measurements,    \* bounds: starts of a part, ticks of a timer
    MaxAccidents             \* bound: crashes and failed calls

ASSUME ExamplesAssumption ==
    /\ Length \in Nat \ {0}
    /\ MaxId \in Nat /\ Starts \in Nat \ {0} /\ Measurements \in Nat \ {0} /\ MaxAccidents \in Nat
    /\ \A o \in Offered : /\ o \in Seq(Range(o))
                          /\ \A i \in DOMAIN o : o[i].mode \in {"Invalid", "None", "Sign",
                                                                    "SignAndEncrypt"}

VARIABLES
    system,   \* which example runs
    main, methods, worker, request, alive, wire, queue, results, back,
    client, session, calls, ended,
    file, contents, config, written, accidents, where,
    staticValueSource, publisherMeasurementsCounter, logged, failures,
    user, serverPc, senderPc, tsnTask, serverTask, msgSendSem, tsnClockId,
    values, sent, cycle, begin,
    up, list, offer, url, endpoint, said, failed, exit, asking, found,
    todo, tried,
    running, starts, pc, timer, pubCallback, server, crashed, last

asyncOnly == <<main, methods, worker, request, alive, wire, queue, results,
               back, client, session, calls, ended>>
configOnly == <<file, contents, config, written, accidents, where>>
interruptOnly == <<staticValueSource, publisherMeasurementsCounter, logged,
                   failures>>
vxWorksOnly == <<user, serverPc, senderPc, tsnTask, serverTask, msgSendSem,
                 tsnClockId, values, sent, cycle, begin>>
discoveryOnly == <<up, list, offer, url, endpoint, said, failed, exit,
                   asking, found, todo, tried>>
shared == <<running, starts, pc, timer, pubCallback, server, crashed, last>>
all == <<system, asyncOnly, configOnly, interruptOnly, vxWorksOnly, discoveryOnly, shared>>

A == INSTANCE AsyncMethods WITH MaxActivations <- Starts
C == INSTANCE ConfigFile
I == INSTANCE InterruptPublisher
       WITH MaxMeasurements <- Measurements, MaxFailures <- MaxAccidents
V == INSTANCE VxWorksPublisher WITH MaxStarts <- Starts, MaxCycles <- Measurements

Endpoint(policy, mode) == [policy |-> policy, mode |-> mode]
Plain == Endpoint("None", "None")
Unset == Endpoint("None", "Invalid")
Signed == Endpoint("Basic128", "Sign")
Encrypted == Endpoint("Basic128", "SignAndEncrypt")
Unknown == Endpoint("Basic256", "SignAndEncrypt")
SomeOffers == {<<>>, <<Encrypted, Plain>>}
AllOffers == {<<>>, <<Plain>>, <<Unknown, Plain>>, <<Encrypted, Plain>>,
              <<Plain, Encrypted, Signed>>, <<Signed, Plain>>, <<Unset>>, <<Unset, Plain>>}

D == INSTANCE Discovery WITH Offers <- Offered, MaxStarts <- Starts

-----------------------------------------------------------------------------

asyncIdle ==
    /\ main = "idle" /\ methods = "idle" /\ worker = "idle" /\ request = "idle"
    /\ alive = "idle" /\ wire = "idle" /\ queue = "idle" /\ results = "idle"
    /\ back = "idle" /\ client = "idle" /\ session = "idle" /\ calls = "idle"
    /\ ended = "idle"
configIdle ==
    /\ file = "idle" /\ contents = "idle" /\ config = "idle" /\ written = "idle"
    /\ accidents = "idle" /\ where = "idle"
interruptIdle ==
    /\ staticValueSource = "idle" /\ publisherMeasurementsCounter = "idle"
    /\ logged = "idle" /\ failures = "idle"
vxWorksIdle ==
    /\ user = "idle" /\ serverPc = "idle" /\ senderPc = "idle" /\ tsnTask = "idle"
    /\ serverTask = "idle" /\ msgSendSem = "idle" /\ tsnClockId = "idle"
    /\ values = "idle" /\ sent = "idle" /\ cycle = "idle" /\ begin = "idle"
discoveryIdle ==
    /\ up = "idle" /\ list = "idle" /\ offer = "idle" /\ url = "idle" /\ endpoint = "idle"
    /\ said = "idle" /\ failed = "idle" /\ exit = "idle" /\ asking = "idle"
    /\ found = "idle" /\ todo = "idle" /\ tried = "idle"

OnlyAsync ==
    system = "async" /\ UNCHANGED <<system, configOnly, interruptOnly, vxWorksOnly, discoveryOnly,
        pc, timer, pubCallback, server, crashed, last>>
OnlyConfig ==
    system = "config" /\ UNCHANGED <<system, asyncOnly, interruptOnly, vxWorksOnly, discoveryOnly,
        running, starts, timer, pubCallback, server, crashed>>
OnlyInterrupt ==
    system = "interrupt" /\ UNCHANGED <<system, asyncOnly, configOnly, vxWorksOnly, discoveryOnly,
        starts, last>>
OnlyVxWorks ==
    system = "vxworks" /\ UNCHANGED <<system, asyncOnly, configOnly, interruptOnly, discoveryOnly,
        pc>>
OnlyDiscovery ==
    system = "discovery" /\ UNCHANGED <<system, asyncOnly, configOnly, interruptOnly, vxWorksOnly,
        timer, pubCallback, server, crashed, last>>

Init ==
  /\ system \in Systems
  /\ \/ /\ system = "async" /\ A!Init
        /\ configIdle /\ interruptIdle /\ vxWorksIdle /\ discoveryIdle
        /\ pc = "idle" /\ timer = "idle" /\ pubCallback = "idle" /\ server = "idle" /\ crashed = "idle" /\ last = "idle"
     \/ /\ system = "config" /\ C!Init
        /\ asyncIdle /\ interruptIdle /\ vxWorksIdle /\ discoveryIdle
        /\ running = "idle" /\ starts = "idle" /\ timer = "idle" /\ pubCallback = "idle" /\ server = "idle" /\ crashed = "idle"
     \/ /\ system = "interrupt" /\ I!Init
        /\ asyncIdle /\ configIdle /\ vxWorksIdle /\ discoveryIdle
        /\ starts = "idle" /\ last = "idle"
     \/ /\ system = "vxworks" /\ V!Init
        /\ asyncIdle /\ configIdle /\ interruptIdle /\ discoveryIdle
        /\ pc = "idle"
     \/ /\ system = "discovery" /\ D!Init
        /\ asyncIdle /\ configIdle /\ interruptIdle /\ vxWorksIdle
        /\ timer = "idle" /\ pubCallback = "idle" /\ server = "idle" /\ crashed = "idle" /\ last = "idle"

Next == \/ OnlyAsync /\ A!Next
        \/ OnlyConfig /\ C!Next
        \/ OnlyInterrupt /\ I!Next
        \/ OnlyVxWorks /\ V!Next
        \/ OnlyDiscovery /\ D!Next

\* The fairness of each, in as few conjuncts as the largest needs: the actions of two
\* examples are never enabled together, and there is one server of each kind.
FirstTask == \/ OnlyAsync /\ A!MainThread
             \/ OnlyInterrupt /\ I!main
             \/ OnlyVxWorks /\ V!userTask
             \/ OnlyDiscovery /\ (\E s \in Registers : D!Step(s))
SecondTask == \/ OnlyAsync /\ A!WorkerThread
              \/ OnlyVxWorks /\ V!serverNext
              \/ OnlyDiscovery /\ (\E s \in Multicasts : D!Step(s))
ThirdTask == OnlyVxWorks /\ V!senderNext

Spec == Init /\ [][Next]_all
FairSpec == /\ Spec /\ WF_all(FirstTask) /\ WF_all(SecondTask) /\ WF_all(ThirdTask)

-----------------------------------------------------------------------------

\* Two sessions start two chains of asynchronous calls each, and no answer starts more
\* than one; each gets its own results, whoever has it when it is given up, and the worker
\* touches no server that is gone (tutorial_server_method_async.c, client_method_async.c).
CallsAccounted == system = "async" => A!Inv

\* The file is never a mixture of two configurations, only a run that ended while it wrote
\* loses what was saved, and the server finds the configuration that was last chosen.
ConfigurationKept == system = "config" => C!Inv

\* The interrupt goes wrong before the callback is set and after the value is freed and
\* nowhere else, finds its server as long as its timer is there, and logs once.
InterruptContained == system = "interrupt" => I!Inv

\* The sender publishes only with a callback, a server and values; after Stop, and after
\* a Start that failed, nothing is left (VxWorks).
StopsCompletely == system = "vxworks" => V!Inv

\* A server registers over the most secure mode it can speak or not at all, leaves no
\* address and no endpoint behind but one whose mode is invalid (server_multicast.c:291), and
\* is no longer listed if it ends with a success; the client asks each server that has an
\* address.
DiscoverySound == system = "discovery" => D!Inv

\* Every operation gets its result although every answer starts a new call.
WorkerServesAll ==
    \A id \in A!Ids : (system = "async" /\ A!Open(id))
                          ~> (system = "async" => main # "serve" \/ ~A!Open(id))

\* Who is told to stop, by a signal or by Stop, whatever it is doing. The exception: a
\* server that could not start has already woken the sender, while running was set, and
\* waits for it; the sender may wait for a semaphore that nobody gives any more, and Stop
\* for the server (vxworks/pubsub_interrupt_publish_tsn.c:181-184, 537-542).
Told(s) == CASE system = "async" -> main = "stop"
             [] system = "interrupt" -> ~running
             [] system = "vxworks" -> user = "wait server" /\ serverPc # "wait sender"
             [] system = "discovery" -> ~running[s]
             [] OTHER -> FALSE
Stopped(s) == CASE system = "async" -> main = "done"
                [] system = "interrupt" -> pc = "ended" \/ crashed # "no"
                [] system = "vxworks" -> user = "stopped"
                [] system = "discovery" -> exit[s] # "no"
                [] OTHER -> TRUE

\* The worker starves nobody, and each example that is told to stop stops: the worker is
\* joined although calls come, the timer does not keep main() from ending, an interrupted
\* server does not wait for an announcement for ever, and Stop of the VxWorks tasks returns
\* with every call failing that may, unless the server, which could not start, is waiting
\* for the sender already (Told).
StopsWhenTold == WorkerServesAll /\ \A s \in D!Servers : Told(s) ~> Stopped(s)
=============================================================================
