------------------------- MODULE InterruptPublisher -------------------------
(***************************************************************************)
(* pubsub_interrupt_publish.c: a timer's signal handler publishes, on the  *)
(* only thread there is, between any two steps of main().                  *)
(***************************************************************************)
EXTENDS Integers

CONSTANTS
    MaxMeasurements, \* MAX_MEASUREMENTS
    MaxFailures      \* bound: calls that fail in a run

VARIABLES
    pc,           \* main()'s next step
    timer,        \* pubEventTimer: "none", "created" or "armed"
    pubCallback,  \* it is set
    server,       \* it exists
    staticValueSource, \* "null", "live" or "freed"
    publisherMeasurementsCounter,
    logged,       \* how often the table was written
    running,
    failures,
    crashed       \* "no", or through what

vars == <<pc, timer, pubCallback, server, staticValueSource,
          publisherMeasurementsCounter, logged, running, failures, crashed>>

publisher == <<timer, pubCallback, publisherMeasurementsCounter>>

Init == /\ pc = "configure" /\ timer = "none" /\ pubCallback = FALSE
        /\ server = TRUE /\ staticValueSource = "null"
        /\ publisherMeasurementsCounter = 0 /\ logged = 0
        /\ running = TRUE /\ failures = 0 /\ crashed = "no"

At(p) == pc = p /\ crashed = "no"
MayFail == failures < MaxFailures /\ failures' = failures + 1

\* Up to setWriterGroupOperational; without the value it reads through NULL.
addPubSubConfiguration ==
    /\ At("configure")
    /\ \/ /\ staticValueSource' = "live" /\ pc' = "timer_create"
          /\ UNCHANGED <<failures, crashed>>
       \/ MayFail /\ crashed' = "source" /\ UNCHANGED <<staticValueSource, pc>>
    /\ UNCHANGED <<publisher, server, logged, running>>

-----------------------------------------------------------------------------
(* addPubSubApplicationCallback, which the interrupt may cut in two        *)
(* wherever it is armed.                                                   *)

\* A slip: a timer that cannot be armed stays.
CreateTimerKept ==
    /\ At("timer_create")
    /\ \/ timer' = "created" /\ pc' = "timer_settime" /\ UNCHANGED failures
       \/ timer' = "created" /\ pc' = "run" /\ MayFail
    /\ UNCHANGED <<pubCallback, server, staticValueSource, publisherMeasurementsCounter,
                   logged, running, crashed>>

CreateTimer ==
    /\ At("timer_create")
    /\ \/ timer' = "created" /\ pc' = "timer_settime" /\ UNCHANGED failures
       \/ pc' = "run" /\ MayFail /\ UNCHANGED timer
    /\ UNCHANGED <<pubCallback, server, staticValueSource, publisherMeasurementsCounter,
                   logged, running, crashed>>

ArmTimer ==
    /\ At("timer_settime")
    /\ \/ timer' = "armed" /\ pc' = "sentinel" /\ UNCHANGED failures
       \/ timer' = "none" /\ pc' = "run" /\ MayFail
    /\ UNCHANGED <<pubCallback, server, staticValueSource, publisherMeasurementsCounter,
                   logged, running, crashed>>

SetCallback ==
    /\ At("sentinel") /\ pubCallback' = TRUE /\ publisherMeasurementsCounter' = 0
    /\ pc' = "run"
    /\ UNCHANGED <<timer, server, staticValueSource, logged, running, failures, crashed>>

\* A failure deletes the timer and leaves the callback.
changePubSubApplicationCallback ==
    /\ At("run") /\ timer = "armed"
    /\ MayFail /\ timer' = "none"
    /\ UNCHANGED <<pc, pubCallback, server, staticValueSource, publisherMeasurementsCounter,
                   logged, running, crashed>>

-----------------------------------------------------------------------------

\* A slip: the table is written in every cycle from then on.
publishInterruptLogsOn ==
    /\ timer = "armed" /\ crashed = "no" /\ pc # "ended"
    /\ publisherMeasurementsCounter' = IF publisherMeasurementsCounter < MaxMeasurements
                                       THEN publisherMeasurementsCounter + 1 ELSE MaxMeasurements
    /\ logged' = IF publisherMeasurementsCounter' = MaxMeasurements /\ logged < 2
                 THEN logged + 1 ELSE logged
    /\ UNCHANGED <<pc, timer, pubCallback, server, staticValueSource, running, failures, crashed>>

\* The whole handler: main() stands still meanwhile.
publishInterrupt ==
    /\ timer = "armed" /\ crashed = "no" /\ pc # "ended"
    /\ crashed' = IF ~pubCallback THEN "callback"
                  ELSE IF staticValueSource # "live" \/ ~server THEN "source" ELSE "no"
    /\ IF crashed' = "no" /\ publisherMeasurementsCounter < MaxMeasurements
       THEN /\ publisherMeasurementsCounter' = publisherMeasurementsCounter + 1
            /\ logged' = IF publisherMeasurementsCounter' = MaxMeasurements
                         THEN logged + 1 ELSE logged
       ELSE UNCHANGED <<publisherMeasurementsCounter, logged>>
    /\ UNCHANGED <<pc, timer, pubCallback, server, staticValueSource, running, failures>>

stopHandler ==
    /\ crashed = "no" /\ pc # "ended" /\ running /\ running' = FALSE
    /\ UNCHANGED <<pc, publisher, server, staticValueSource, logged, failures, crashed>>

\* UA_Server_run returns, at the signal or because it cannot start.
RunReturns ==
    /\ At("run")
    /\ \/ ~running /\ UNCHANGED failures
       \/ MayFail
    /\ pc' = "free"
    /\ UNCHANGED <<publisher, server, staticValueSource, logged, running, crashed>>

FreeSource ==
    /\ At("free") /\ staticValueSource' = "freed"
    /\ pc' = IF pubCallback THEN "timer_delete" ELSE "delete"
    /\ UNCHANGED <<publisher, server, logged, running, failures, crashed>>

\* A slip: the callback goes first.
removeBackwards ==
    /\ \/ /\ At("timer_delete") /\ pubCallback /\ pubCallback' = FALSE /\ UNCHANGED <<pc, timer>>
       \/ /\ At("timer_delete") /\ ~pubCallback /\ timer' = "none" /\ pc' = "delete"
          /\ UNCHANGED pubCallback
    /\ UNCHANGED <<server, staticValueSource, publisherMeasurementsCounter, logged, running,
                   failures, crashed>>

\* UA_Server_delete calls it while the server is there.
removePubSubApplicationCallback ==
    /\ \/ /\ At("timer_delete") /\ timer' = "none" /\ pc' = "clear" /\ UNCHANGED pubCallback
       \/ /\ At("clear") /\ pubCallback' = FALSE /\ pc' = "delete" /\ UNCHANGED timer
    /\ UNCHANGED <<server, staticValueSource, publisherMeasurementsCounter, logged, running,
                   failures, crashed>>

DeleteServer ==
    /\ At("delete") /\ server' = FALSE /\ pc' = "ended"
    /\ UNCHANGED <<publisher, staticValueSource, logged, running, failures, crashed>>

Done == (pc = "ended" \/ crashed # "no") /\ UNCHANGED vars

main == \/ addPubSubConfiguration \/ CreateTimer \/ ArmTimer \/ SetCallback
        \/ RunReturns \/ FreeSource \/ removePubSubApplicationCallback \/ DeleteServer

Next == main \/ publishInterrupt \/ changePubSubApplicationCallback \/ stopHandler \/ Done

Spec == Init /\ [][Next]_vars
FairSpec == Spec /\ WF_vars(main)

-----------------------------------------------------------------------------

TypeOK ==
    /\ pc \in {"configure", "timer_create", "timer_settime", "sentinel", "run", "free",
               "timer_delete", "clear", "delete", "ended"}
    /\ timer \in {"none", "created", "armed"} /\ pubCallback \in BOOLEAN /\ server \in BOOLEAN
    /\ staticValueSource \in {"null", "live", "freed"}
    /\ publisherMeasurementsCounter \in 0 .. MaxMeasurements /\ logged \in Nat
    /\ running \in BOOLEAN /\ failures \in 0 .. MaxFailures
    /\ crashed \in {"no", "callback", "source"}

\* The handler can go wrong in two places only: after the timer is armed and before
\* the callback is set (204-220), and after the value is freed (374) while the
\* server has not yet removed the timer (377).
CrashesInTwoPlaces ==
    crashed # "no" /\ failures = 0 => IF crashed = "callback" THEN pc = "sentinel"
                                                              ELSE pc = "timer_delete"

\* Whichever call fails on the way, and whether or not the group's interval was
\* changed, the server is not deleted before its timer.
TimerGoes == ~server => timer = "none" /\ ~pubCallback

\* The table is written once, when it is full (134).
LoggedOnce == logged = IF publisherMeasurementsCounter = MaxMeasurements THEN 1 ELSE 0

\* All of it in every state.
Inv == TypeOK /\ CrashesInTwoPlaces /\ TimerGoes /\ LoggedOnce
=============================================================================
