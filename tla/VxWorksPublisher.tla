-------------------------- MODULE VxWorksPublisher --------------------------
(***************************************************************************)
(* vxworks/pubsub_interrupt_publish_tsn.c: a user starts and stops the     *)
(* publisher; a server task, a sender task and the timer's interrupt share *)
(* its globals and a binary semaphore. Times are numbers of cycles.        *)
(***************************************************************************)
EXTENDS Integers, FiniteSets

CONSTANTS
    Faults,    \* which calls may fail
    MaxStarts, \* bound: calls of open62541PubTSNStart
    MaxCycles  \* bound: interrupts in a run

VARIABLES
    user, serverPc, senderPc,    \* the next steps; "none" without a task
    tsnTask, serverTask,         \* the task ids: "null", "error" or "id"
    running, msgSendSem,         \* "none", "empty" or "full"
    timer, tsnClockId,           \* "free", "allocated" or "enabled"; known
    pubCallback, values, server, \* set; the four static values; it exists
    sent, cycle, begin, last,    \* packets, interrupts, t, last times
    starts, crashed

vars == <<user, serverPc, senderPc, tsnTask, serverTask, running, msgSendSem, timer,
          tsnClockId, pubCallback, values, server, sent, cycle, begin, last, starts, crashed>>

tasks == <<serverPc, senderPc, tsnTask, serverTask>>
clock == <<timer, tsnClockId>>
times == <<sent, cycle, begin, last>>

Zero == [trigger |-> 0, begin |-> 0]

Init == /\ user = "stopped" /\ serverPc = "none" /\ senderPc = "none"
        /\ tsnTask = "null" /\ serverTask = "null"
        /\ running = TRUE /\ msgSendSem = "none" /\ timer = "free" /\ tsnClockId = FALSE
        /\ pubCallback = FALSE /\ values = FALSE /\ server = "none"
        /\ sent = 0 /\ cycle = 0 /\ begin = 0 /\ last = Zero
        /\ starts = 0 /\ crashed = FALSE

\* semGive: of a semaphore that is not there it returns an error.
Given == IF msgSendSem = "none" THEN "none" ELSE "full"

\* A call that may fail: on success then yes, on failure then no.
Try(fault, yes, no) == yes \/ (fault \in Faults /\ no)

-----------------------------------------------------------------------------
(* The user: open62541PubTSNStart and open62541PubTSNStop.                 *)

\* initTSNStream, then the semaphore.
Start ==
    /\ user = "stopped" /\ starts < MaxStarts /\ starts' = starts + 1
    /\ \/ /\ msgSendSem' = "empty" /\ running' = TRUE /\ user' = "spawn sender"
       \/ /\ {"stream", "semaphore"} \cap Faults # {} /\ user' = "stop"
          /\ UNCHANGED <<msgSendSem, running>>
    /\ UNCHANGED <<tasks, clock, pubCallback, values, server, times, crashed>>

\* The task is there even if it cannot be moved to its core.
initTSNTask ==
    /\ user = "spawn sender"
    /\ Try("spawn", /\ tsnTask' = "id" /\ senderPc' = "loop"
                    /\ Try("affinity", user' = "spawn server", user' = "stop"),
                    tsnTask' = "error" /\ user' = "stop" /\ UNCHANGED senderPc)
    /\ UNCHANGED <<serverPc, serverTask, running, msgSendSem, clock, pubCallback, values,
                   server, times, starts, crashed>>

initServerTask ==
    /\ user = "spawn server"
    /\ Try("spawn", /\ serverTask' = "id" /\ serverPc' = "new"
                    /\ Try("affinity", user' = "started", user' = "stop"),
                    serverTask' = "error" /\ user' = "stop" /\ UNCHANGED serverPc)
    /\ UNCHANGED <<senderPc, tsnTask, running, msgSendSem, clock, pubCallback, values,
                   server, times, starts, crashed>>

Stop ==
    /\ user \in {"started", "stop"} /\ running' = FALSE /\ user' = "wait server"
    /\ UNCHANGED <<tasks, msgSendSem, clock, pubCallback, values, server, times, starts,
                   crashed>>

WaitServer ==
    /\ user = "wait server" /\ serverPc \in {"none", "ended"}
    /\ serverTask' = "null" /\ msgSendSem' = Given /\ user' = "wait sender"
    /\ UNCHANGED <<serverPc, senderPc, tsnTask, running, clock, pubCallback, values, server,
                   times, starts, crashed>>

\* A slip: the values go while the sender may still be at work.
StopAtOnce ==
    /\ user = "wait sender"
    /\ tsnTask' = "null" /\ msgSendSem' = "none" /\ values' = FALSE
    /\ sent' = 0 /\ begin' = 0 /\ last' = Zero /\ user' = "stopped"
    /\ UNCHANGED <<serverPc, senderPc, serverTask, running, clock, pubCallback, server,
                   cycle, starts, crashed>>

\* taskWait of an id that is null, or an error, does not wait.
WaitSender ==
    /\ user = "wait sender" /\ (tsnTask = "id" => senderPc = "ended")
    /\ tsnTask' = "null" /\ msgSendSem' = "none" /\ values' = FALSE
    /\ sent' = 0 /\ begin' = 0 /\ last' = Zero /\ user' = "stopped"
    /\ UNCHANGED <<serverPc, senderPc, serverTask, running, clock, pubCallback, server,
                   cycle, starts, crashed>>

-----------------------------------------------------------------------------
(* open62541ServerTask.                                                    *)

NewServer ==
    /\ serverPc = "new"
    /\ Try("server", server' = "new" /\ serverPc' = "nodes",
                     serverPc' = "ended" /\ UNCHANGED server)
    /\ UNCHANGED <<user, senderPc, tsnTask, serverTask, running, msgSendSem, clock,
                   pubCallback, values, times, starts, crashed>>

\* Their values are to be found where the four pointers will point to.
addServerNodes ==
    /\ serverPc = "nodes" /\ server' = "nodes" /\ serverPc' = "configure"
    /\ UNCHANGED <<user, senderPc, tsnTask, serverTask, running, msgSendSem, clock,
                   pubCallback, values, times, starts, crashed>>

\* Up to setWriterGroupOperational, which calls addApplicationCallback.
addPubSubConfiguration ==
    /\ serverPc = "configure" /\ values' = TRUE /\ serverPc' = "add callback"
    /\ UNCHANGED <<user, senderPc, tsnTask, serverTask, running, msgSendSem, clock,
                   pubCallback, server, times, starts, crashed>>

\* initTsnTimer: what fails before the interrupt is rerouted gives the timer
\* back; a timer that cannot be rerouted is kept, and its id is lost.
initTsnTimer ==
    \/ timer = "free" /\ timer' = "allocated" /\ tsnClockId' = TRUE
    \/ /\ {"clock", "connect"} \cap Faults # {} \/ timer # "free"
       /\ tsnClockId' = FALSE /\ UNCHANGED timer
    \/ /\ "reroute" \in Faults /\ timer = "free"
       /\ timer' = "allocated" /\ tsnClockId' = FALSE

addApplicationCallback ==
    /\ serverPc = "add callback"
    /\ IF pubCallback THEN serverPc' = "run" /\ UNCHANGED <<clock, pubCallback>>
       ELSE /\ initTsnTimer
            /\ pubCallback' = tsnClockId'
            /\ serverPc' = IF tsnClockId' THEN "enable" ELSE "run"
    /\ UNCHANGED <<user, senderPc, tsnTask, serverTask, running, msgSendSem, values, server,
                   times, starts, crashed>>

\* The callback remains when the timer cannot be enabled.
EnableTimer ==
    /\ serverPc = "enable" /\ serverPc' = "run"
    /\ Try("enable", timer' = "enabled" /\ UNCHANGED tsnClockId,
                     timer' = "free" /\ tsnClockId' = FALSE)
    /\ UNCHANGED <<user, senderPc, tsnTask, serverTask, running, msgSendSem, pubCallback,
                   values, server, times, starts, crashed>>

\* UA_Server_run returns when running is cleared, or at once if it cannot start.
RunServer ==
    /\ serverPc = "run" /\ (~running \/ "startup" \in Faults)
    /\ serverPc' = "remove callback"
    /\ UNCHANGED <<user, senderPc, tsnTask, serverTask, running, msgSendSem, clock,
                   pubCallback, values, server, times, starts, crashed>>

\* A slip: the sender is not woken before it is waited for.
removeSilently ==
    /\ serverPc = "remove callback"
    /\ serverPc' = IF pubCallback THEN "wait sender" ELSE "delete"
    /\ UNCHANGED <<user, senderPc, tsnTask, serverTask, running, msgSendSem, clock,
                   pubCallback, values, server, times, starts, crashed>>

\* UA_Server_delete calls it. When the server could not start, running is still set:
\* the sender takes the semaphore, goes on, and waits for it again.
removeApplicationPubSubCallback ==
    /\ serverPc = "remove callback"
    /\ IF pubCallback
       THEN msgSendSem' = Given /\ serverPc' = "wait sender"
       ELSE UNCHANGED msgSendSem /\ serverPc' = "delete"
    /\ UNCHANGED <<user, senderPc, tsnTask, serverTask, running, clock, pubCallback, values,
                   server, times, starts, crashed>>

\* "wait for TSN task stopping first", then the timer, then the callback.
ReleaseTimer ==
    /\ serverPc = "wait sender" /\ (tsnTask = "id" => senderPc = "ended")
    /\ tsnTask' = "null" /\ serverPc' = "delete"
    /\ timer' = IF tsnClockId THEN "free" ELSE timer
    /\ tsnClockId' = FALSE /\ pubCallback' = FALSE
    /\ UNCHANGED <<user, senderPc, serverTask, running, msgSendSem, values, server, times,
                   starts, crashed>>

DeleteServer ==
    /\ serverPc = "delete" /\ server' = "none" /\ serverPc' = "ended"
    /\ UNCHANGED <<user, senderPc, tsnTask, serverTask, running, msgSendSem, clock,
                   pubCallback, values, times, starts, crashed>>

-----------------------------------------------------------------------------
(* open62541EthTSNTask and the interrupt.                                  *)

sender(now, then) == senderPc = now /\ senderPc' = then /\ ~crashed

others == <<user, serverPc, tsnTask, serverTask, running, clock, pubCallback, values, server,
            cycle, starts>>

\* A slip: no second look at running after the wait.
TakeBlindly ==
    /\ sender("take", "begin") /\ msgSendSem = "full" /\ msgSendSem' = "empty"
    /\ UNCHANGED <<others, sent, begin, last, crashed>>

Loop == /\ sender("loop", IF running THEN "take" ELSE "ended")
        /\ UNCHANGED <<others, msgSendSem, sent, begin, last, crashed>>

Take == /\ sender("take", IF running THEN "begin" ELSE "ended")
        /\ msgSendSem = "full" /\ msgSendSem' = "empty"
        /\ UNCHANGED <<others, sent, begin, last, crashed>>

Begin == /\ sender("begin", "publish") /\ begin' = cycle
         /\ last' = IF sent = 0 THEN Zero ELSE last
         /\ UNCHANGED <<others, msgSendSem, sent, crashed>>

Publish == /\ sender("publish", "note") /\ sent' = 1
           /\ crashed' = ~(pubCallback /\ values /\ server = "nodes")
           /\ UNCHANGED <<others, msgSendSem, begin, last>>

\* What the next packet will carry.
Note == /\ sender("note", "loop") /\ last' = [trigger |-> cycle, begin |-> begin]
        /\ UNCHANGED <<others, msgSendSem, sent, begin, crashed>>

publishInterrupt ==
    /\ timer = "enabled" /\ cycle < MaxCycles /\ cycle' = cycle + 1
    /\ msgSendSem' = IF running THEN Given ELSE msgSendSem
    /\ UNCHANGED <<user, tasks, running, clock, pubCallback, values, server, sent, begin,
                   last, starts, crashed>>

-----------------------------------------------------------------------------

userNext == Start \/ initTSNTask \/ initServerTask \/ WaitServer \/ WaitSender
serverNext == \/ NewServer \/ addServerNodes \/ addPubSubConfiguration
              \/ addApplicationCallback \/ EnableTimer \/ RunServer
              \/ removeApplicationPubSubCallback \/ ReleaseTimer \/ DeleteServer
senderNext == Loop \/ Take \/ Begin \/ Publish \/ Note

Next == userNext \/ Stop \/ serverNext \/ senderNext \/ publishInterrupt

Spec == Init /\ [][Next]_vars

\* The scheduler runs every task; the user need not stop the publisher.
userTask == userNext \/ (user = "stop" /\ Stop)
FairSpec == Spec /\ WF_vars(userTask) /\ WF_vars(serverNext) /\ WF_vars(senderNext)

TypeOK ==
    /\ user \in {"stopped", "spawn sender", "spawn server", "started", "stop",
                 "wait server", "wait sender"}
    /\ serverPc \in {"none", "new", "nodes", "configure", "add callback", "enable", "run", "remove callback",
                     "wait sender", "delete", "ended"}
    /\ senderPc \in {"none", "loop", "take", "begin", "publish", "note", "ended"}
    /\ {tsnTask, serverTask} \subseteq {"null", "error", "id"}
    /\ {running, tsnClockId, pubCallback, values, crashed} \subseteq BOOLEAN
    /\ msgSendSem \in {"none", "empty", "full"} /\ timer \in {"free", "allocated", "enabled"}
    /\ server \in {"none", "new", "nodes"}
    /\ cycle \in 0 .. MaxCycles /\ starts \in 0 .. MaxStarts

\* Whatever fails during Start and whenever Stop comes, the sender publishes only with
\* a callback, a server and the values it reads (429, 174-198, 534-573), and the server's
\* nodes have their values while it runs.
PublishesWhatIsThere == ~crashed /\ (serverPc = "run" => values /\ server = "nodes")

\* After Stop nothing is left: no task, no semaphore, no callback, no values, and no timer
\* but one whose interrupt could not be rerouted.
StopsCompletely ==
    user = "stopped" => /\ serverPc \in {"none", "ended"} /\ senderPc \in {"none", "ended"}
                        /\ msgSendSem = "none"
                        /\ timer \in {"free"} \cup IF "reroute" \in Faults THEN {"allocated"} ELSE {}
                        /\ ~pubCallback /\ ~values /\ server = "none"

\* All of it in every state.
Inv == TypeOK /\ PublishesWhatIsThere /\ StopsCompletely
=============================================================================
