--------------------------- MODULE ExamplesProofs ---------------------------
(***************************************************************************)
(* Five of the examples keep what they should, for every number of starts, *)
(* ticks and accidents, and for every set of servers, offers, ids and      *)
(* sessions: the configuration in a file, the publisher in a timer         *)
(* interrupt, the tasks of the VxWorks publisher, the servers that         *)
(* register at a discovery server, and the asynchronous methods. Each has  *)
(* an inductive invariant that says what there is at each place of the     *)
(* program; it holds at the start, every step keeps it, and it implies     *)
(* what the run checks.                                                    *)
(***************************************************************************)
EXTENDS MCExamples, TLAPS, FiniteSetTheorems, SequenceTheorems, WellFoundedInduction

\* What the assumption says of the bounds.
LEMMA Bounds == /\ Length \in Nat /\ Length # 0 /\ MaxAccidents \in Nat
                /\ Starts \in Nat /\ Starts # 0
                /\ Measurements \in Nat /\ Measurements # 0
BY ExamplesAssumption

-----------------------------------------------------------------------------
(* The publisher in a timer interrupt.                                     *)

\* The steps of main() before the callback, and those with the timer's value.
Before == {"configure", "timer_create", "timer_settime", "sentinel"}
WithSource == {"timer_create", "timer_settime", "sentinel", "run", "free"}

\* Where main() stands says what there is.
TimerPlaced ==
    /\ timer = "armed" => pc \in {"sentinel", "run", "free", "timer_delete"}
    /\ timer = "created" => pc = "timer_settime"
    /\ pubCallback => pc \in {"run", "free", "timer_delete", "clear"}
    /\ timer = "armed" /\ ~pubCallback => pc = "sentinel"
    /\ staticValueSource = "live" <=> pc \in WithSource
    /\ server <=> pc # "ended"

\* A crash happened where the handler finds no callback, or no value.
CrashPlaced ==
    /\ crashed = "callback" => pc = "sentinel"
    /\ crashed = "source" /\ failures = 0 => pc = "timer_delete"

\* Nothing has been measured before the callback is set.
MeasuredAfter == pc \in Before => publisherMeasurementsCounter = 0

InterruptInv == I!TypeOK /\ I!LoggedOnce /\ TimerPlaced /\ CrashPlaced /\ MeasuredAfter

LEMMA InterruptInit == I!Init => InterruptInv
<1> SUFFICES ASSUME I!Init PROVE InterruptInv
  OBVIOUS
<1> USE Bounds DEF I!Init
<1>1. I!TypeOK
  <2>1. pubCallback \in BOOLEAN
    OBVIOUS
  <2>2. server \in BOOLEAN
    OBVIOUS
  <2>3. running \in BOOLEAN
    OBVIOUS
  <2>4. /\ publisherMeasurementsCounter \in 0 .. Measurements /\ logged \in Nat
        /\ failures \in 0 .. MaxAccidents
    OBVIOUS
  <2> QED BY <2>1, <2>2, <2>3, <2>4 DEF I!TypeOK
<1>2. I!LoggedOnce
  BY DEF I!LoggedOnce
<1>3. TimerPlaced /\ CrashPlaced /\ MeasuredAfter
  BY DEF TimerPlaced, CrashPlaced, MeasuredAfter, Before, WithSource
<1> QED BY <1>1, <1>2, <1>3 DEF InterruptInv

LEMMA InterruptStep == InterruptInv /\ I!Next => InterruptInv'
<1> SUFFICES ASSUME InterruptInv, I!Next PROVE InterruptInv'
  OBVIOUS
<1> USE Bounds
    DEF InterruptInv, I!TypeOK, I!LoggedOnce, TimerPlaced, CrashPlaced, MeasuredAfter,
        Before, WithSource, I!At, I!MayFail, I!publisher
<1>1. CASE I!addPubSubConfiguration
  BY <1>1 DEF I!addPubSubConfiguration
<1>2. CASE I!CreateTimer
  BY <1>2 DEF I!CreateTimer
<1>3. CASE I!ArmTimer
  BY <1>3 DEF I!ArmTimer
<1>4. CASE I!SetCallback
  BY <1>4 DEF I!SetCallback
<1>5. CASE I!RunReturns
  BY <1>5 DEF I!RunReturns
<1>6. CASE I!FreeSource
  BY <1>6 DEF I!FreeSource
<1>7. CASE I!removePubSubApplicationCallback
  BY <1>7 DEF I!removePubSubApplicationCallback
<1>8. CASE I!DeleteServer
  BY <1>8 DEF I!DeleteServer
<1>9. CASE I!publishInterrupt
  BY <1>9 DEF I!publishInterrupt
<1>10. CASE I!changePubSubApplicationCallback
  BY <1>10 DEF I!changePubSubApplicationCallback
<1>11. CASE I!stopHandler
  BY <1>11 DEF I!stopHandler
<1>12. CASE I!Done
  BY <1>12 DEF I!Done, I!vars
<1> QED BY <1>1, <1>2, <1>3, <1>4, <1>5, <1>6, <1>7, <1>8, <1>9, <1>10, <1>11, <1>12
        DEF I!Next, I!main

LEMMA InterruptMeans == InterruptInv => I!Inv
BY DEF InterruptInv, I!Inv, I!CrashesInTwoPlaces, I!TimerGoes, TimerPlaced, CrashPlaced, I!TypeOK

-----------------------------------------------------------------------------
(* The configuration in a file.                                            *)

Stages == {"load", "configure", "run", "encode", "open", "write", "ended"}

\* The first m bytes of an encoded configuration.
Bytes(m, c) == [i \in 1 .. m |-> c]

Filled(bytes) == \E m \in 0 .. Length : \E c \in Configurations \cup {Nothing} : bytes = Bytes(m, c)
Whole(bytes) == \E c \in Configurations : bytes = Bytes(Length, c)

ConfigTypes ==
    /\ pc \in Stages /\ Filled(file) /\ Filled(contents)
    /\ config \in Configurations \cup {Nothing} /\ last \in Configurations
    /\ written \in 0 .. Length /\ accidents \in 0 .. MaxAccidents

\* While it is written the file is the beginning of what the server has.
BeingWritten ==
    /\ pc \in {"encode", "open"} => written = 0
    /\ pc = "write" => file = Bytes(written, config)

\* With no accident so far every stage has the last configuration chosen.
NoAccident ==
    accidents = 0 =>
        /\ where = {}
        /\ pc = "load" => file = Bytes(Length, last)
        /\ pc = "ended" => file = Bytes(Length, last)
        /\ pc = "configure" => contents = Bytes(Length, last)
        /\ pc \in {"run", "encode", "open", "write"} => config = last

\* With none while it is loaded, configured or written, every stage has a whole one.
NoneWhileWriting ==
    where \cap {"load", "configure", "write"} = {} =>
        /\ pc # "write" => Whole(file)
        /\ pc = "configure" => Whole(contents)
        /\ pc \in {"run", "encode", "open", "write"} => config \in Configurations

ConfigInv == ConfigTypes /\ BeingWritten /\ NoAccident /\ NoneWhileWriting

LEMMA BytesFacts ==
    ASSUME NEW m \in Nat, NEW c
    PROVE  /\ Len(Bytes(m, c)) = m
           /\ SubSeq(Bytes(m, c), 1, m) \o <<c>> \o SubSeq(Bytes(m, c), m + 2, m) = Bytes(m + 1, c)
BY DEF Bytes

LEMMA NoBytes == Filled(<<>>) /\ \A c : Bytes(0, c) = <<>>
BY Bounds DEF Filled, Bytes

LEMMA ConfigInit == C!Init => ConfigInv
<1> SUFFICES ASSUME C!Init PROVE ConfigInv
  OBVIOUS
<1>1. last \in Configurations /\ file = Bytes(Length, last)
  BY DEF C!Init, C!Encoded, Bytes
<1>2. Length \in Nat /\ 0 \in 0 .. Length /\ Length \in 0 .. Length /\ 0 \in 0 .. MaxAccidents
  BY Bounds
<1>3. Filled(file) /\ Whole(file)
  BY <1>1, <1>2 DEF Filled, Whole
<1>4. ConfigTypes
  BY <1>1, <1>2, <1>3, NoBytes, Zenon DEF C!Init, ConfigTypes, Stages
<1>5. BeingWritten
  BY DEF C!Init, BeingWritten
<1>6. NoAccident
  BY <1>1 DEF C!Init, NoAccident
<1>7. NoneWhileWriting
  BY <1>3 DEF C!Init, NoneWhileWriting
<1> QED BY <1>4, <1>5, <1>6, <1>7 DEF ConfigInv

LEMMA ConfigStep == ConfigInv /\ C!Next => ConfigInv'
<1> SUFFICES ASSUME ConfigInv, C!Next PROVE ConfigInv'
  OBVIOUS
<1> USE Bounds
    DEF ConfigInv, ConfigTypes, BeingWritten, NoAccident, NoneWhileWriting, Stages,
        C!Accident, C!Fine
<1>1. CASE C!loadFile
  BY <1>1, NoBytes DEF C!loadFile
<1>2. CASE C!main_configure
  <2> DEFINE d == IF \E c \in Configurations : contents = C!Encoded(c) THEN contents[1] ELSE Nothing
  <2>1. \A c : C!Encoded(c) = Bytes(Length, c) /\ Bytes(Length, c)[1] = c
    BY DEF C!Encoded, Bytes
  <2>2. d \in Configurations \cup {Nothing}
    BY <2>1
  <2>3. \A c \in Configurations : contents = Bytes(Length, c) => d = c
    BY <2>1
  <2>4. Whole(contents) => d \in Configurations
    BY <2>3 DEF Whole
  <2>5. /\ pc = "configure" /\ pc' = "run"
        /\ (config' = d /\ C!Fine) \/ (config' = Nothing /\ C!Accident)
        /\ UNCHANGED <<file, contents, written, last>>
    BY <1>2 DEF C!main_configure
  <2> HIDE DEF d
  <2>6. ConfigTypes' /\ BeingWritten'
    BY <2>2, <2>5
  <2>7. NoAccident'
    <3>1. accidents' = 0 => accidents = 0 /\ config' = d /\ where' = where
      BY <2>5
    <3>2. last \in Configurations /\ (contents = Bytes(Length, last) => d = last)
      BY <2>3
    <3> QED BY <2>5, <3>1, <3>2
  <2>8. NoneWhileWriting'
    BY <2>4, <2>5
  <2> QED BY <2>6, <2>7, <2>8
<1>3. CASE C!Reconfigure
  BY <1>3 DEF C!Reconfigure
<1>4. CASE C!main_stopped
  BY <1>4 DEF C!main_stopped
<1>5. CASE C!main_save
  BY <1>5 DEF C!main_save
<1>6. CASE C!writeFile_open
  BY <1>6, NoBytes DEF C!writeFile_open
<1>7. CASE C!writeFile_put
  <2>1. CASE pc' = "ended"
    BY <1>7, <2>1 DEF C!writeFile_put
  <2>2. CASE pc' = pc
    <3>1. written < Length /\ written + 1 \in 0 .. Length /\ written \in Nat
      BY <1>7 DEF C!writeFile_put
    <3>2. file = Bytes(written, config) /\ Len(file) = written
      BY <1>7, <3>1, BytesFacts DEF C!writeFile_put
    <3>3. file' = Bytes(written + 1, config) /\ written' = written + 1
      BY <1>7, <2>2, <3>1, <3>2, BytesFacts DEF C!writeFile_put
    <3>4. Filled(file')
      BY <3>1, <3>3 DEF Filled
    <3> QED BY <1>7, <2>2, <3>1, <3>3, <3>4 DEF C!writeFile_put
  <2> QED BY <1>7, <2>1, <2>2 DEF C!writeFile_put
<1>8. CASE C!writeFile_close
  BY <1>8 DEF C!writeFile_close, Whole
<1>9. CASE C!Crash
  BY <1>9 DEF C!Crash
<1>10. CASE C!Restart
  BY <1>10, NoBytes DEF C!Restart
<1> QED BY <1>1, <1>2, <1>3, <1>4, <1>5, <1>6, <1>7, <1>8, <1>9, <1>10 DEF C!Next

LEMMA ConfigMeans == ConfigInv => C!Inv
<1> SUFFICES ASSUME ConfigInv PROVE C!Inv
  OBVIOUS
<1> USE Bounds DEF ConfigInv, ConfigTypes
<1>1. ASSUME NEW bytes, Filled(bytes)
      PROVE  bytes \in C!BoundedSeq(Configurations \cup {Nothing}, Length)
  BY <1>1 DEF Filled, Bytes, C!BoundedSeq, C!SeqOf
<1>2. C!TypeOK
  BY <1>1 DEF C!TypeOK, Stages
<1>3. C!OneConfiguration
  BY DEF C!OneConfiguration, Filled, Bytes
<1>4. C!FindsTheLast
  BY DEF C!FindsTheLast, NoAccident
<1>5. C!WholeUnlessWriting
  BY DEF C!WholeUnlessWriting, NoneWhileWriting, Whole, Bytes, C!Encoded
<1> QED BY <1>2, <1>3, <1>4, <1>5 DEF C!Inv
-----------------------------------------------------------------------------
(* The publisher of the VxWorks target.                                    *)

Idle(task) == task \in {"none", "ended"}

\* While the server runs the user has not come to the wait for the sender.
UserAndTasks ==
    /\ ~Idle(serverPc) => user \in {"started", "stop", "wait server"}
    /\ user = "spawn sender" => tsnTask = "null"
    /\ user = "spawn server" => tsnTask = "id"
    /\ user \in {"stopped", "spawn sender"} => Idle(senderPc) /\ tsnTask = "null"
    /\ user \in {"wait server", "wait sender"} => ~running
    /\ user = "stopped" => msgSendSem = "none"
    /\ ~Idle(senderPc) => tsnTask = "id"
    /\ ~Idle(serverPc) /\ serverPc # "delete" => tsnTask = "id"
    /\ tsnTask = "id" /\ senderPc = "ended" => ~running

\* The timer is there with its callback, the values and the nodes with the
\* server's progress.
ServerPlaced ==
    /\ tsnClockId => pubCallback /\ timer # "free"
    /\ timer = "enabled" => tsnClockId
    /\ timer = "allocated" /\ ~tsnClockId => "reroute" \in Faults
    /\ serverPc = "enable" => tsnClockId
    /\ pubCallback => serverPc \in {"enable", "run", "remove callback", "wait sender"}
    /\ serverPc \in {"add callback", "enable", "run", "remove callback", "wait sender"} => values
    /\ serverPc \in {"configure", "add callback", "enable", "run", "remove callback",
                    "wait sender", "delete"} => server = "nodes"
    /\ Idle(serverPc) \/ serverPc = "new" => server = "none"
    /\ user \in {"stopped", "spawn sender", "spawn server"} => ~values

\* Who has the semaphore while the publisher runs, and who is past it, has a callback.
SenderPlaced ==
    /\ msgSendSem = "full" /\ running => pubCallback
    /\ senderPc \in {"begin", "publish"} => pubCallback
    /\ ~crashed

VxWorksInv == V!TypeOK /\ UserAndTasks /\ ServerPlaced /\ SenderPlaced

LEMMA VxWorksInit == V!Init => VxWorksInv
<1> SUFFICES ASSUME V!Init PROVE VxWorksInv
  OBVIOUS
<1> USE Bounds DEF V!Init
<1>1. V!TypeOK
  <2>1. {running, tsnClockId, pubCallback, values, crashed} \subseteq BOOLEAN
    OBVIOUS
  <2>2. cycle \in 0 .. Measurements /\ starts \in 0 .. Starts
    OBVIOUS
  <2> QED BY <2>1, <2>2 DEF V!TypeOK
<1>2. UserAndTasks /\ ServerPlaced /\ SenderPlaced
  BY DEF UserAndTasks, ServerPlaced, SenderPlaced, Idle
<1> QED BY <1>1, <1>2 DEF VxWorksInv

LEMMA VxWorksStep == VxWorksInv /\ V!Next => VxWorksInv'
<1> SUFFICES ASSUME VxWorksInv, V!Next PROVE VxWorksInv'
  OBVIOUS
<1>a. starts \in 0 .. Starts /\ cycle \in 0 .. Measurements
  BY DEF VxWorksInv, V!TypeOK
<1>b. V!Start => starts' \in 0 .. Starts
  <2>1. V!Start => starts < Starts /\ starts' = starts + 1
    BY DEF V!Start
  <2> QED BY <1>a, <2>1, Bounds
<1>c. V!publishInterrupt => cycle' \in 0 .. Measurements
  BY <1>a, Bounds DEF V!publishInterrupt
<1>d. V!NewServer => /\ server' \in {"none", "new", "nodes"}
                      /\ serverPc' \in {"nodes", "ended"}
  BY DEF V!NewServer, V!Try, VxWorksInv, V!TypeOK
<1> USE Bounds
    DEF VxWorksInv, V!TypeOK, UserAndTasks, ServerPlaced, SenderPlaced, Idle, V!Given, V!Try,
        V!tasks, V!clock, V!times
<1>1. CASE V!Start
  <2>1. V!TypeOK'
    <3>1. starts' \in 0 .. Starts
      BY <1>1, <1>b
    <3>2. running' \in BOOLEAN
      BY <1>1 DEF V!Start
    <3> QED BY <1>1, <3>1, <3>2 DEF V!Start
  <2>2. UserAndTasks'
    BY <1>1 DEF V!Start
  <2>3. ServerPlaced'
    BY <1>1 DEF V!Start
  <2>4. SenderPlaced'
    BY <1>1 DEF V!Start
  <2> QED BY <2>1, <2>2, <2>3, <2>4 DEF VxWorksInv
<1>2. CASE V!initTSNTask
  <2>1. V!TypeOK'
    BY <1>2 DEF V!initTSNTask
  <2>2. UserAndTasks'
    BY <1>2 DEF V!initTSNTask
  <2>3. ServerPlaced'
    BY <1>2 DEF V!initTSNTask
  <2>4. SenderPlaced'
    BY <1>2 DEF V!initTSNTask
  <2> QED BY <2>1, <2>2, <2>3, <2>4 DEF VxWorksInv
<1>3. CASE V!initServerTask
  <2>1. V!TypeOK'
    BY <1>3 DEF V!initServerTask
  <2>2. UserAndTasks'
    BY <1>3 DEF V!initServerTask
  <2>3. ServerPlaced'
    BY <1>3 DEF V!initServerTask
  <2>4. SenderPlaced'
    BY <1>3 DEF V!initServerTask
  <2> QED BY <2>1, <2>2, <2>3, <2>4 DEF VxWorksInv
<1>4. CASE V!WaitServer
  <2>1. V!TypeOK'
    BY <1>4 DEF V!WaitServer
  <2>2. UserAndTasks'
    BY <1>4 DEF V!WaitServer
  <2>3. ServerPlaced'
    BY <1>4 DEF V!WaitServer
  <2>4. SenderPlaced'
    BY <1>4 DEF V!WaitServer
  <2> QED BY <2>1, <2>2, <2>3, <2>4 DEF VxWorksInv
<1>5. CASE V!WaitSender
  <2>1. V!TypeOK'
    BY <1>5 DEF V!WaitSender
  <2>2. UserAndTasks'
    BY <1>5 DEF V!WaitSender
  <2>3. ServerPlaced'
    BY <1>5 DEF V!WaitSender
  <2>4. SenderPlaced'
    BY <1>5 DEF V!WaitSender
  <2> QED BY <2>1, <2>2, <2>3, <2>4 DEF VxWorksInv
<1>6. CASE V!Stop
  <2>1. V!TypeOK'
    <3>1. running' \in BOOLEAN /\ user' = "wait server"
      BY <1>6, Zenon DEF V!Stop
    <3>2. UNCHANGED <<serverPc, senderPc, tsnTask, serverTask, msgSendSem, timer, tsnClockId,
                      pubCallback, values, server, cycle, starts, crashed>>
      BY <1>6, Zenon DEF V!Stop
    <3> QED BY <3>1, <3>2, ZenonT(60)
  <2>2. UserAndTasks'
    BY <1>6, Zenon DEF V!Stop
  <2>3. ServerPlaced'
    BY <1>6, Zenon DEF V!Stop
  <2>4. SenderPlaced'
    BY <1>6, Zenon DEF V!Stop
  <2> QED BY <2>1, <2>2, <2>3, <2>4, Zenon DEF VxWorksInv
<1>7. CASE V!NewServer
  <2>1. V!TypeOK'
    <3>1. server' \in {"none", "new", "nodes"} /\ serverPc' \in {"nodes", "ended"}
      BY <1>7, <1>d
    <3> QED BY <1>7, <3>1 DEF V!NewServer
  <2>2. UserAndTasks'
    BY <1>7 DEF V!NewServer
  <2>3. ServerPlaced'
    BY <1>7 DEF V!NewServer
  <2>4. SenderPlaced'
    BY <1>7 DEF V!NewServer
  <2> QED BY <2>1, <2>2, <2>3, <2>4 DEF VxWorksInv
<1>8. CASE V!addServerNodes
  <2>1. V!TypeOK'
    BY <1>8 DEF V!addServerNodes
  <2>2. UserAndTasks'
    BY <1>8 DEF V!addServerNodes
  <2>3. ServerPlaced'
    BY <1>8 DEF V!addServerNodes
  <2>4. SenderPlaced'
    BY <1>8 DEF V!addServerNodes
  <2> QED BY <2>1, <2>2, <2>3, <2>4 DEF VxWorksInv
<1>9. CASE V!addPubSubConfiguration
  <2>1. V!TypeOK'
    BY <1>9 DEF V!addPubSubConfiguration
  <2>2. UserAndTasks'
    BY <1>9 DEF V!addPubSubConfiguration
  <2>3. ServerPlaced'
    BY <1>9 DEF V!addPubSubConfiguration
  <2>4. SenderPlaced'
    BY <1>9 DEF V!addPubSubConfiguration
  <2> QED BY <2>1, <2>2, <2>3, <2>4 DEF VxWorksInv
<1>10. CASE V!addApplicationCallback
  <2>1. V!TypeOK'
    BY <1>10 DEF V!addApplicationCallback, V!initTsnTimer
  <2>2. UserAndTasks'
    BY <1>10 DEF V!addApplicationCallback, V!initTsnTimer
  <2>3. ServerPlaced'
    BY <1>10 DEF V!addApplicationCallback, V!initTsnTimer
  <2>4. SenderPlaced'
    BY <1>10 DEF V!addApplicationCallback, V!initTsnTimer
  <2> QED BY <2>1, <2>2, <2>3, <2>4 DEF VxWorksInv
<1>11. CASE V!EnableTimer
  <2>1. V!TypeOK'
    BY <1>11 DEF V!EnableTimer
  <2>2. UserAndTasks'
    BY <1>11 DEF V!EnableTimer
  <2>3. ServerPlaced'
    BY <1>11 DEF V!EnableTimer
  <2>4. SenderPlaced'
    BY <1>11 DEF V!EnableTimer
  <2> QED BY <2>1, <2>2, <2>3, <2>4 DEF VxWorksInv
<1>12. CASE V!RunServer
  <2>1. V!TypeOK'
    BY <1>12 DEF V!RunServer
  <2>2. UserAndTasks'
    BY <1>12 DEF V!RunServer
  <2>3. ServerPlaced'
    BY <1>12 DEF V!RunServer
  <2>4. SenderPlaced'
    BY <1>12 DEF V!RunServer
  <2> QED BY <2>1, <2>2, <2>3, <2>4 DEF VxWorksInv
<1>13. CASE V!removeApplicationPubSubCallback
  <2>1. V!TypeOK'
    BY <1>13 DEF V!removeApplicationPubSubCallback
  <2>2. UserAndTasks'
    BY <1>13 DEF V!removeApplicationPubSubCallback
  <2>3. ServerPlaced'
    BY <1>13 DEF V!removeApplicationPubSubCallback
  <2>4. SenderPlaced'
    BY <1>13 DEF V!removeApplicationPubSubCallback
  <2> QED BY <2>1, <2>2, <2>3, <2>4 DEF VxWorksInv
<1>14. CASE V!ReleaseTimer
  <2>1. V!TypeOK'
    BY <1>14 DEF V!ReleaseTimer
  <2>2. UserAndTasks'
    BY <1>14 DEF V!ReleaseTimer
  <2>3. ServerPlaced'
    BY <1>14 DEF V!ReleaseTimer
  <2>4. SenderPlaced'
    BY <1>14 DEF V!ReleaseTimer
  <2> QED BY <2>1, <2>2, <2>3, <2>4 DEF VxWorksInv
<1>15. CASE V!DeleteServer
  <2>1. V!TypeOK'
    BY <1>15 DEF V!DeleteServer
  <2>2. UserAndTasks'
    BY <1>15 DEF V!DeleteServer
  <2>3. ServerPlaced'
    BY <1>15 DEF V!DeleteServer
  <2>4. SenderPlaced'
    BY <1>15 DEF V!DeleteServer
  <2> QED BY <2>1, <2>2, <2>3, <2>4 DEF VxWorksInv
<1>16. CASE V!Loop
  <2>1. V!TypeOK'
    BY <1>16 DEF V!Loop, V!sender, V!others
  <2>2. UserAndTasks'
    BY <1>16 DEF V!Loop, V!sender, V!others
  <2>3. ServerPlaced'
    BY <1>16 DEF V!Loop, V!sender, V!others
  <2>4. SenderPlaced'
    BY <1>16 DEF V!Loop, V!sender, V!others
  <2> QED BY <2>1, <2>2, <2>3, <2>4 DEF VxWorksInv
<1>17. CASE V!Take
  <2>1. V!TypeOK'
    BY <1>17 DEF V!Take, V!sender, V!others
  <2>2. UserAndTasks'
    BY <1>17 DEF V!Take, V!sender, V!others
  <2>3. ServerPlaced'
    BY <1>17 DEF V!Take, V!sender, V!others
  <2>4. SenderPlaced'
    BY <1>17 DEF V!Take, V!sender, V!others
  <2> QED BY <2>1, <2>2, <2>3, <2>4 DEF VxWorksInv
<1>18. CASE V!Begin
  <2>1. V!TypeOK'
    BY <1>18 DEF V!Begin, V!sender, V!others
  <2>2. UserAndTasks'
    BY <1>18 DEF V!Begin, V!sender, V!others
  <2>3. ServerPlaced'
    BY <1>18 DEF V!Begin, V!sender, V!others
  <2>4. SenderPlaced'
    BY <1>18 DEF V!Begin, V!sender, V!others
  <2> QED BY <2>1, <2>2, <2>3, <2>4 DEF VxWorksInv
<1>19. CASE V!Publish
  <2>1. V!TypeOK'
    BY <1>19 DEF V!Publish, V!sender, V!others
  <2>2. UserAndTasks'
    BY <1>19 DEF V!Publish, V!sender, V!others
  <2>3. ServerPlaced'
    BY <1>19 DEF V!Publish, V!sender, V!others
  <2>4. SenderPlaced'
    BY <1>19 DEF V!Publish, V!sender, V!others
  <2> QED BY <2>1, <2>2, <2>3, <2>4 DEF VxWorksInv
<1>20. CASE V!Note
  <2>1. V!TypeOK'
    BY <1>20 DEF V!Note, V!sender, V!others
  <2>2. UserAndTasks'
    BY <1>20 DEF V!Note, V!sender, V!others
  <2>3. ServerPlaced'
    BY <1>20 DEF V!Note, V!sender, V!others
  <2>4. SenderPlaced'
    BY <1>20 DEF V!Note, V!sender, V!others
  <2> QED BY <2>1, <2>2, <2>3, <2>4 DEF VxWorksInv
<1>21. CASE V!publishInterrupt
  <2>1. V!TypeOK'
    <3>1. cycle' \in 0 .. Measurements
      BY <1>21, <1>c
    <3> QED BY <1>21, <3>1 DEF V!publishInterrupt
  <2>2. UserAndTasks'
    BY <1>21 DEF V!publishInterrupt
  <2>3. ServerPlaced'
    BY <1>21 DEF V!publishInterrupt
  <2>4. SenderPlaced'
    BY <1>21 DEF V!publishInterrupt
  <2> QED BY <2>1, <2>2, <2>3, <2>4 DEF VxWorksInv
<1> QED BY <1>1, <1>2, <1>3, <1>4, <1>5, <1>6, <1>7, <1>8, <1>9, <1>10, <1>11, <1>12, <1>13, <1>14, <1>15, <1>16, <1>17, <1>18, <1>19, <1>20, <1>21
        DEF V!Next, V!userNext, V!serverNext, V!senderNext

LEMMA VxWorksMeans == VxWorksInv => V!Inv
BY DEF VxWorksInv, V!Inv, V!PublishesWhatIsThere, V!StopsCompletely, UserAndTasks, ServerPlaced,
       SenderPlaced, Idle, V!TypeOK

-----------------------------------------------------------------------------
(* The theorems. A behaviour runs one example and leaves the others alone. *)

\* What an action of another kind leaves alone keeps its types.
LEMMA VxWorksStutters ==
    ASSUME V!TypeOK, UNCHANGED V!vars
    PROVE  V!TypeOK'
<1>1. UNCHANGED <<user, serverPc, senderPc, tsnTask, serverTask, running, msgSendSem, timer,
                  tsnClockId, pubCallback, values, server, cycle, starts, crashed>>
  BY DEF V!vars
<1>2. /\ user \in {"stopped", "spawn sender", "spawn server", "started", "stop",
                  "wait server", "wait sender"}
      /\ serverPc \in {"none", "new", "nodes", "configure", "add callback", "enable", "run",
                      "remove callback", "wait sender", "delete", "ended"}
      /\ senderPc \in {"none", "loop", "take", "begin", "publish", "note", "ended"}
      /\ {tsnTask, serverTask} \subseteq {"null", "error", "id"}
      /\ msgSendSem \in {"none", "empty", "full"}
      /\ timer \in {"free", "allocated", "enabled"}
      /\ server \in {"none", "new", "nodes"}
      /\ cycle \in 0 .. Measurements /\ starts \in 0 .. Starts
  BY DEF V!TypeOK
<1>3. {running, tsnClockId, pubCallback, values, crashed} \subseteq BOOLEAN
  BY Zenon DEF V!TypeOK
<1>4. ({running, tsnClockId, pubCallback, values, crashed} \subseteq BOOLEAN)'
  BY <1>1, <1>3, Zenon
<1>5. user' \in {"stopped", "spawn sender", "spawn server", "started", "stop",
                "wait server", "wait sender"}
  BY <1>1, <1>2
<1>6. serverPc' \in {"none", "new", "nodes", "configure", "add callback", "enable", "run",
                    "remove callback", "wait sender", "delete", "ended"}
  BY <1>1, <1>2
<1>7. senderPc' \in {"none", "loop", "take", "begin", "publish", "note", "ended"}
  BY <1>1, <1>2
<1>8. ({tsnTask, serverTask} \subseteq {"null", "error", "id"})'
  BY <1>1, <1>2, Zenon
<1>9. /\ msgSendSem' \in {"none", "empty", "full"} /\ timer' \in {"free", "allocated", "enabled"}
      /\ server' \in {"none", "new", "nodes"}
      /\ cycle' \in 0 .. Measurements /\ starts' \in 0 .. Starts
  BY <1>1, <1>2
<1> QED BY <1>4, <1>5, <1>6, <1>7, <1>8, <1>9, Zenon DEF V!TypeOK

-----------------------------------------------------------------------------
(* Discovery. The values of the loop over the endpoints are a function of  *)
(* the index; that there is one, and what it has at the end, is shown with *)
(* the least index for which it would fail.                                *)

Mode == {"Invalid", "None", "Sign", "SignAndEncrypt"}

LEMMA Ranks ==
    /\ D!Rank("Invalid") = 1 /\ D!Rank("None") = 2 /\ D!Rank("Sign") = 3
    /\ D!Rank("SignAndEncrypt") = 4
    /\ D!Range(D!Modes) = Mode
BY DEF D!Rank, D!Modes, D!Range, Mode

Less == {p \in Nat \X Nat : p[1] < p[2]}

LEMMA LessWellFounded == IsWellFoundedOn(Less, Nat)
<1>1. OpToRel(<, Nat) = Less
  BY DEF OpToRel, Less
<1> QED BY <1>1, NatLessThanWellFounded

\* A set of numbers with a member has a least one.
LEMMA Least ==
    ASSUME NEW S \in SUBSET Nat, S # {}
    PROVE  \E n \in S : \A m \in S : n <= m
<1>1. PICK n \in S : \A m \in S : <<m, n>> \notin Less
  BY LessWellFounded, WFMin
<1>2. ASSUME NEW m \in S PROVE n <= m
  <2>1. <<m, n>> \in Nat \X Nat
    OBVIOUS
  <2>2. ~(m < n)
    BY <2>1, <1>1 DEF Less
  <2> QED BY <2>2
<1> QED BY <1>2

\* What the loop makes of the best mode so far and the next endpoint.
Better(best, e) ==
    IF e.policy \in D!Known /\ (best = "null" \/ D!Rank(best) < D!Rank(e.mode))
    THEN e.mode ELSE best

\* A loop over o that has come to n: its values from the first on.
Loops(f, o, n) ==
    f = [i \in 0 .. n |-> IF i = 0 THEN "null" ELSE Better(f[i - 1], o[i])]

LEMMA LoopsOn ==
    ASSUME NEW o, NEW n \in Nat, NEW f, Loops(f, o, n)
    PROVE  \E g : Loops(g, o, n + 1)
<1> DEFINE g == [i \in 0 .. n + 1 |-> IF i = n + 1 THEN Better(f[n], o[n + 1]) ELSE f[i]]
<1>1. DOMAIN f = 0 .. n /\ \A i \in 0 .. n : f[i] = IF i = 0 THEN "null" ELSE Better(f[i - 1], o[i])
  BY DEF Loops
<1>2. ASSUME NEW i \in 0 .. n + 1
      PROVE  g[i] = IF i = 0 THEN "null" ELSE Better(g[i - 1], o[i])
  <2>1. CASE i = n + 1
    BY <2>1
  <2>2. CASE i # n + 1
    <3>1. i \in 0 .. n /\ (i # 0 => i - 1 \in 0 .. n)
      BY <2>2
    <3> QED BY <1>1, <3>1, <2>2
  <2> QED BY <2>1, <2>2
<1>3. g = [i \in 0 .. n + 1 |-> IF i = 0 THEN "null" ELSE Better(g[i - 1], o[i])]
  BY <1>2
<1> QED BY <1>3 DEF Loops

LEMMA LoopsAlways ==
    ASSUME NEW o, NEW n \in Nat
    PROVE  \E f : Loops(f, o, n)
<1> DEFINE Without == {i \in Nat : ~ \E f : Loops(f, o, i)}
<1>1. SUFFICES ASSUME Without # {} PROVE FALSE
  OBVIOUS
<1>2. PICK i \in Without : \A k \in Without : i <= k
  BY <1>1, Least
<1>3. CASE i = 0
  <2>1. Loops([k \in 0 .. 0 |-> "null"], o, 0)
    BY DEF Loops
  <2> QED BY <1>2, <1>3, <2>1
<1>4. CASE i # 0
  <2>1. i - 1 \in Nat /\ i - 1 \notin Without /\ i = (i - 1) + 1
    BY <1>2, <1>4
  <2>2. \E f : Loops(f, o, i - 1)
    BY <2>1
  <2>3. \E g : Loops(g, o, (i - 1) + 1)
    BY <2>1, <2>2, LoopsOn
  <2> QED BY <1>2, <2>1, <2>3
<1> QED BY <1>3, <1>4

\* The endpoint that is kept is of the highest mode of those whose policy is known.
LEMMA BestIsHighest ==
    ASSUME NEW o \in Offered
    PROVE  /\ D!Best(o) \in {"null"} \cup Mode
           /\ D!Best(o) # "null" => \A i \in DOMAIN o : o[i].policy \in D!Known
                                        => D!Rank(o[i].mode) <= D!Rank(D!Best(o))
<1> DEFINE Highest(best, n) ==
        /\ best \in {"null"} \cup Mode
        /\ \A i \in 1 .. n : o[i].policy \in D!Known
                               => best # "null" /\ D!Rank(o[i].mode) <= D!Rank(best)
<1>1. Len(o) \in Nat /\ DOMAIN o = 1 .. Len(o) /\ \A i \in 1 .. Len(o) : o[i].mode \in Mode
  BY ExamplesAssumption DEF Mode
<1>2. PICK f : Loops(f, o, Len(o)) /\ D!Best(o) = f[Len(o)]
  <2> DEFINE after == CHOOSE f : f = [i \in 0 .. Len(o) |->
                 IF i = 0 THEN "null"
                 ELSE IF o[i].policy \in D!Known
                         /\ (f[i - 1] = "null" \/ D!Rank(f[i - 1]) < D!Rank(o[i].mode))
                      THEN o[i].mode
                      ELSE f[i - 1]]
  <2>1. \E f : f = [i \in 0 .. Len(o) |->
                 IF i = 0 THEN "null"
                 ELSE IF o[i].policy \in D!Known
                         /\ (f[i - 1] = "null" \/ D!Rank(f[i - 1]) < D!Rank(o[i].mode))
                      THEN o[i].mode
                      ELSE f[i - 1]]
    <3>1. \E f : Loops(f, o, Len(o))
      BY <1>1, LoopsAlways
    <3> QED BY <3>1, Zenon DEF Loops, Better
  <2>2. Loops(after, o, Len(o))
    BY <2>1, Zenon DEF Loops, Better
  <2>3. D!Best(o) = after[Len(o)]
    BY DEF D!Best
  <2> QED BY <2>2, <2>3
<1>3. DOMAIN f = 0 .. Len(o)
      /\ \A i \in 0 .. Len(o) : f[i] = IF i = 0 THEN "null" ELSE Better(f[i - 1], o[i])
  BY <1>2 DEF Loops
<1> DEFINE Slips == {n \in 0 .. Len(o) : ~Highest(f[n], n)}
<1>4. Slips = {}
  <2> SUFFICES ASSUME Slips # {} PROVE FALSE
    OBVIOUS
  <2>1. PICK n \in Slips : \A k \in Slips : n <= k
    <3>1. Slips \in SUBSET Nat
      BY <1>1
    <3> HIDE DEF Slips
    <3> QED BY <3>1, Least
  <2>2. n # 0
    <3>1. Highest(f[0], 0)
      BY <1>3, <1>1
    <3> QED BY <3>1
  <2>3. n - 1 \in 0 .. Len(o) /\ n - 1 \notin Slips /\ n \in 1 .. Len(o)
    BY <1>1, <2>1, <2>2
  <2>4. Highest(f[n - 1], n - 1)
    BY <2>3
  <2>5. f[n] = Better(f[n - 1], o[n]) /\ o[n].mode \in Mode
    BY <1>1, <1>3, <2>3
  <2>6. f[n] \in {"null"} \cup Mode
        /\ (o[n].policy \in D!Known => f[n] # "null" /\ D!Rank(o[n].mode) <= D!Rank(f[n]))
        /\ (f[n - 1] # "null" => f[n] # "null" /\ D!Rank(f[n - 1]) <= D!Rank(f[n]))
    BY <2>4, <2>5, Ranks DEF Better, Mode
  <2>7. ASSUME NEW i \in 1 .. n, o[i].policy \in D!Known
        PROVE  f[n] # "null" /\ D!Rank(o[i].mode) <= D!Rank(f[n])
    <3>1. CASE i = n
      BY <2>6, <2>7, <3>1
    <3>2. CASE i # n
      <4>1. i \in 1 .. n - 1 /\ i \in 1 .. Len(o)
        BY <1>1, <2>3, <3>2
      <4>2. f[n - 1] # "null" /\ D!Rank(o[i].mode) <= D!Rank(f[n - 1])
        BY <2>4, <2>7, <4>1
      <4>3. D!Rank(o[i].mode) \in Nat /\ D!Rank(f[n - 1]) \in Nat /\ D!Rank(f[n]) \in Nat
        BY <1>1, <2>4, <2>6, <4>1, <4>2, Ranks DEF Mode
      <4> QED BY <2>6, <4>2, <4>3
    <3> QED BY <3>1, <3>2
  <2> QED BY <2>1, <2>6, <2>7
<1>5. Highest(f[Len(o)], Len(o))
  BY <1>1, <1>4
<1> QED BY <1>1, <1>2, <1>5

\* Where a server that runs stands says what it has.
ServerTypes ==
    /\ offer \in Offered /\ list \subseteq D!Servers /\ failed \subseteq D!Servers
    /\ starts \in 0 .. Starts
    /\ pc \in [D!Servers -> {"start", "wait", "endpoint", "client", "register", "serve",
                             "deregister"}]
    /\ url \in [D!Servers -> {"null", "there", "freed"}]
    /\ exit \in [D!Servers -> {"no", "success", "failure", "killed"}]
    /\ endpoint \in [D!Servers -> {"null"} \cup Mode]
    /\ said \in [D!Servers -> {"null"} \cup Mode]

AddressPlaced ==
    \A s \in D!Servers : exit[s] = "no" =>
        IF s \in Multicasts
        THEN /\ pc[s] = "start" => url[s] = "null"
             /\ pc[s] = "wait" => url[s] \in {"null", "there"}
             /\ pc[s] = "endpoint" => url[s] # "null"
             /\ pc[s] \in {"client", "register", "serve", "deregister"} => url[s] = "freed"
        ELSE url[s] = "null" /\ pc[s] \in {"start", "register", "serve", "deregister"}

EndpointPlaced == \A s \in D!Servers : endpoint[s] # "null" => url[s] = "freed"

\* The endpoint that is kept, and what was said with it, is the best on offer.
BestKept ==
    \A s \in D!Servers :
        /\ endpoint[s] \in {"null", D!Best(offer)}
        /\ s \in Multicasts => said[s] \in {"null", D!Best(offer)}
        /\ s \in Multicasts /\ pc[s] \in {"client", "register"} /\ exit[s] = "no"
               => endpoint[s] # "null"
        /\ exit[s] = "no" => endpoint[s] # "Invalid"
        /\ s \in Multicasts => said[s] # "Invalid"

ListedWhenServing ==
    \A s \in D!Servers :
        exit[s] = "no" /\ pc[s] \notin {"serve", "deregister"} => s \notin list

ServerInv == /\ ServerTypes /\ AddressPlaced /\ EndpointPlaced /\ BestKept
             /\ ListedWhenServing /\ D!NothingLeft /\ D!SuccessIsUnlisted

ClientInv ==
    /\ tried \cup todo \subseteq found /\ found \subseteq D!Servers
    /\ asking \in {"network", "find"} => found = {}
    /\ asking = "ask" => found \ Bare \subseteq tried \cup todo
    /\ D!AsksWhoAnswers

DiscoveryInv == ServerInv /\ ClientInv

LEMMA DiscoveryInit == D!Init => DiscoveryInv
<1> SUFFICES ASSUME D!Init PROVE DiscoveryInv
  OBVIOUS
<1> USE DEF D!Init
<1>1. ServerTypes
  BY ExamplesAssumption DEF ServerTypes
<1>2. AddressPlaced /\ EndpointPlaced
  BY DEF AddressPlaced, EndpointPlaced
<1>3. BestKept
  BY DEF BestKept
<1>4. ListedWhenServing /\ D!NothingLeft /\ D!SuccessIsUnlisted
  BY DEF ListedWhenServing, D!NothingLeft, D!SuccessIsUnlisted
<1>5. ClientInv
  BY DEF ClientInv, D!AsksWhoAnswers
<1> QED BY <1>1, <1>2, <1>3, <1>4, <1>5 DEF DiscoveryInv, ServerInv

LEMMA ServerStays == ServerInv /\ UNCHANGED <<D!ldsVars, D!serverVars>> => ServerInv'
<1> SUFFICES ASSUME ServerInv, UNCHANGED <<D!ldsVars, D!serverVars>> PROVE ServerInv'
  OBVIOUS
<1>1. UNCHANGED <<starts, list, offer, pc, url, endpoint, said, failed, exit>>
  BY DEF D!ldsVars, D!serverVars
<1>2. ServerTypes' /\ AddressPlaced' /\ EndpointPlaced'
  BY <1>1 DEF ServerInv, ServerTypes, AddressPlaced, EndpointPlaced
<1>3. BestKept' /\ ListedWhenServing'
  BY <1>1 DEF ServerInv, BestKept, ListedWhenServing
<1>4. D!NothingLeft' /\ D!SuccessIsUnlisted'
  BY <1>1 DEF ServerInv, D!NothingLeft, D!SuccessIsUnlisted
<1> QED BY <1>2, <1>3, <1>4 DEF ServerInv

LEMMA ClientStays == ClientInv /\ UNCHANGED D!clientVars => ClientInv'
BY DEF D!clientVars, ClientInv, D!AsksWhoAnswers

LEMMA ClientStep ==
    ASSUME DiscoveryInv,
           \/ D!FindOnNetwork \/ D!FindServers \/ D!AskedAll
           \/ \E s \in D!Servers : D!Ask(s)
    PROVE  DiscoveryInv'
<1>1. UNCHANGED <<D!ldsVars, D!serverVars>>
  BY Zenon DEF D!FindOnNetwork, D!FindServers, D!AskedAll, D!Ask
<1>2. ServerInv'
  BY <1>1, ServerStays DEF DiscoveryInv
<1>3. list \subseteq D!Servers
  BY DEF DiscoveryInv, ServerInv, ServerTypes
<1>4. CASE D!FindOnNetwork
  BY <1>4, <1>2 DEF D!FindOnNetwork, DiscoveryInv, ClientInv, D!AsksWhoAnswers
<1>5. CASE D!FindServers
  BY <1>5, <1>2, <1>3 DEF D!FindServers, DiscoveryInv, ClientInv, D!AsksWhoAnswers
<1>6. CASE D!AskedAll
  BY <1>6, <1>2 DEF D!AskedAll, DiscoveryInv, ClientInv, D!AsksWhoAnswers
<1>7. ASSUME NEW s \in D!Servers, D!Ask(s) PROVE DiscoveryInv'
  BY <1>7, <1>2, Zenon DEF D!Ask, DiscoveryInv, ClientInv, D!AsksWhoAnswers
<1> QED BY <1>4, <1>5, <1>6, <1>7

LEMMA ServerStep ==
    ASSUME DiscoveryInv, D!LdsStart \/ D!LdsStop \/ \E s \in D!Servers :
               D!Step(s) \/ D!Hear(s) \/ D!Sigint(s) \/ D!Kill(s) \/ D!Cleanup(s)
    PROVE  DiscoveryInv'
<1>a. /\ ServerTypes /\ AddressPlaced /\ EndpointPlaced /\ BestKept /\ ListedWhenServing
      /\ D!NothingLeft /\ D!SuccessIsUnlisted
  BY DEF DiscoveryInv, ServerInv
<1>b. D!Best(offer) \in {"null"} \cup Mode
  BY <1>a, BestIsHighest DEF ServerTypes
<1>c. UNCHANGED D!clientVars
  BY DEF D!LdsStart, D!LdsStop, D!Step, D!Start, D!Waited, D!Lookup, D!Client, D!Register,
         D!Stop, D!Deregister, D!Hear, D!Sigint, D!Kill, D!Cleanup
<1>d. SUFFICES ServerInv'
  BY <1>c, ClientStays DEF DiscoveryInv
<1> USE DEF D!ldsVars, D!serverVars
<1>1. CASE D!LdsStart
  <2>1. ServerTypes'
    BY <1>a, <1>1, ExamplesAssumption DEF ServerTypes, D!LdsStart
  <2>2. AddressPlaced'
    BY <1>a, <1>1 DEF AddressPlaced, ServerTypes, D!LdsStart
  <2>3. EndpointPlaced'
    BY <1>a, <1>1 DEF EndpointPlaced, AddressPlaced, ServerTypes, D!LdsStart
  <2>4. BestKept'
    BY <1>a, <1>1 DEF BestKept, AddressPlaced, ServerTypes, D!LdsStart
  <2>5. ListedWhenServing'
    BY <1>a, <1>1 DEF ListedWhenServing, ServerTypes, D!LdsStart
  <2>6. D!NothingLeft'
    BY <1>a, <1>1 DEF D!NothingLeft, AddressPlaced, ServerTypes, D!LdsStart
  <2>7. D!SuccessIsUnlisted'
    BY <1>a, <1>1 DEF D!SuccessIsUnlisted, ListedWhenServing, ServerTypes, D!Servers, D!LdsStart
  <2> QED BY <2>1, <2>2, <2>3, <2>4, <2>5, <2>6, <2>7 DEF ServerInv
<1>2. CASE D!LdsStop
  <2>1. ServerTypes'
    BY <1>a, <1>2 DEF ServerTypes, D!LdsStop
  <2>2. AddressPlaced'
    BY <1>a, <1>2 DEF AddressPlaced, ServerTypes, D!LdsStop
  <2>3. EndpointPlaced'
    BY <1>a, <1>2 DEF EndpointPlaced, AddressPlaced, ServerTypes, D!LdsStop
  <2>4. BestKept'
    BY <1>a, <1>2 DEF BestKept, AddressPlaced, ServerTypes, D!LdsStop
  <2>5. ListedWhenServing'
    BY <1>a, <1>2 DEF ListedWhenServing, ServerTypes, D!LdsStop
  <2>6. D!NothingLeft'
    BY <1>a, <1>2 DEF D!NothingLeft, AddressPlaced, ServerTypes, D!LdsStop
  <2>7. D!SuccessIsUnlisted'
    BY <1>a, <1>2 DEF D!SuccessIsUnlisted, ListedWhenServing, ServerTypes, D!Servers, D!LdsStop
  <2> QED BY <2>1, <2>2, <2>3, <2>4, <2>5, <2>6, <2>7 DEF ServerInv
<1>3. ASSUME NEW s \in D!Servers, D!Cleanup(s) PROVE ServerInv'
  <2>1. ServerTypes'
    BY <1>a, <1>3 DEF ServerTypes, D!Cleanup
  <2>2. AddressPlaced'
    BY <1>a, <1>3 DEF AddressPlaced, ServerTypes, D!Cleanup
  <2>3. EndpointPlaced'
    BY <1>a, <1>3 DEF EndpointPlaced, AddressPlaced, ServerTypes, D!Cleanup
  <2>4. BestKept'
    BY <1>a, <1>3 DEF BestKept, AddressPlaced, ServerTypes, D!Cleanup
  <2>5. ListedWhenServing'
    BY <1>a, <1>3 DEF ListedWhenServing, ServerTypes, D!Cleanup
  <2>6. D!NothingLeft'
    BY <1>a, <1>3 DEF D!NothingLeft, AddressPlaced, ServerTypes, D!Cleanup
  <2>7. D!SuccessIsUnlisted'
    BY <1>a, <1>3 DEF D!SuccessIsUnlisted, ListedWhenServing, ServerTypes, D!Servers, D!Cleanup
  <2> QED BY <2>1, <2>2, <2>3, <2>4, <2>5, <2>6, <2>7 DEF ServerInv
<1>4. ASSUME NEW s \in D!Servers, D!Hear(s) PROVE ServerInv'
  <2>1. ServerTypes'
    BY <1>a, <1>4 DEF ServerTypes, D!Hear, D!At
  <2>2. AddressPlaced'
    BY <1>a, <1>4 DEF AddressPlaced, ServerTypes, D!Hear, D!At
  <2>3. EndpointPlaced'
    BY <1>a, <1>4 DEF EndpointPlaced, AddressPlaced, ServerTypes, D!Hear, D!At
  <2>4. BestKept'
    BY <1>a, <1>4 DEF BestKept, AddressPlaced, ServerTypes, D!Hear, D!At
  <2>5. ListedWhenServing'
    BY <1>a, <1>4 DEF ListedWhenServing, ServerTypes, D!Hear, D!At
  <2>6. D!NothingLeft'
    BY <1>a, <1>4 DEF D!NothingLeft, AddressPlaced, ServerTypes, D!Hear, D!At
  <2>7. D!SuccessIsUnlisted'
    BY <1>a, <1>4 DEF D!SuccessIsUnlisted, ListedWhenServing, ServerTypes, D!Servers, D!Hear, D!At
  <2> QED BY <2>1, <2>2, <2>3, <2>4, <2>5, <2>6, <2>7 DEF ServerInv
<1>5. ASSUME NEW s \in D!Servers, D!Sigint(s) PROVE ServerInv'
  <2>1. ServerTypes'
    BY <1>a, <1>5 DEF ServerTypes, D!Sigint
  <2>2. AddressPlaced'
    BY <1>a, <1>5 DEF AddressPlaced, ServerTypes, D!Sigint
  <2>3. EndpointPlaced'
    BY <1>a, <1>5 DEF EndpointPlaced, AddressPlaced, ServerTypes, D!Sigint
  <2>4. BestKept'
    BY <1>a, <1>5 DEF BestKept, AddressPlaced, ServerTypes, D!Sigint
  <2>5. ListedWhenServing'
    BY <1>a, <1>5 DEF ListedWhenServing, ServerTypes, D!Sigint
  <2>6. D!NothingLeft'
    BY <1>a, <1>5 DEF D!NothingLeft, AddressPlaced, ServerTypes, D!Sigint
  <2>7. D!SuccessIsUnlisted'
    BY <1>a, <1>5 DEF D!SuccessIsUnlisted, ListedWhenServing, ServerTypes, D!Servers, D!Sigint
  <2> QED BY <2>1, <2>2, <2>3, <2>4, <2>5, <2>6, <2>7 DEF ServerInv
<1>6. ASSUME NEW s \in D!Servers, D!Kill(s) PROVE ServerInv'
  <2>1. ServerTypes'
    BY <1>a, <1>6 DEF ServerTypes, D!Kill
  <2>2. AddressPlaced'
    BY <1>a, <1>6 DEF AddressPlaced, ServerTypes, D!Kill
  <2>3. EndpointPlaced'
    BY <1>a, <1>6 DEF EndpointPlaced, AddressPlaced, ServerTypes, D!Kill
  <2>4. BestKept'
    BY <1>a, <1>6 DEF BestKept, AddressPlaced, ServerTypes, D!Kill
  <2>5. ListedWhenServing'
    BY <1>a, <1>6 DEF ListedWhenServing, ServerTypes, D!Kill
  <2>6. D!NothingLeft'
    BY <1>a, <1>6 DEF D!NothingLeft, AddressPlaced, ServerTypes, D!Kill
  <2>7. D!SuccessIsUnlisted'
    BY <1>a, <1>6 DEF D!SuccessIsUnlisted, ListedWhenServing, ServerTypes, D!Servers, D!Kill
  <2> QED BY <2>1, <2>2, <2>3, <2>4, <2>5, <2>6, <2>7 DEF ServerInv
<1>7. ASSUME NEW s \in D!Servers, D!Start(s) PROVE ServerInv'
  <2>1. ServerTypes'
    BY <1>a, <1>7 DEF ServerTypes, D!Start, D!At, D!Goto, D!Leave, D!Failing
  <2>2. AddressPlaced'
    BY <1>a, <1>7 DEF AddressPlaced, ServerTypes, D!Start, D!At, D!Goto, D!Leave, D!Failing
  <2>3. EndpointPlaced'
    BY <1>a, <1>7 DEF EndpointPlaced, AddressPlaced, ServerTypes, D!Start, D!At, D!Goto, D!Leave, D!Failing
  <2>4. BestKept'
    BY <1>a, <1>7 DEF BestKept, AddressPlaced, ServerTypes, D!Start, D!At, D!Goto, D!Leave, D!Failing
  <2>5. ListedWhenServing'
    BY <1>a, <1>7 DEF ListedWhenServing, ServerTypes, D!Start, D!At, D!Goto, D!Leave, D!Failing
  <2>6. D!NothingLeft'
    BY <1>a, <1>7 DEF D!NothingLeft, AddressPlaced, ServerTypes, D!Start, D!At, D!Goto, D!Leave, D!Failing
  <2>7. D!SuccessIsUnlisted'
    BY <1>a, <1>7 DEF D!SuccessIsUnlisted, ListedWhenServing, ServerTypes, D!Servers, D!Start, D!At, D!Goto, D!Leave, D!Failing
  <2> QED BY <2>1, <2>2, <2>3, <2>4, <2>5, <2>6, <2>7 DEF ServerInv
<1>8. ASSUME NEW s \in D!Servers, D!Waited(s) PROVE ServerInv'
  <2>1. ServerTypes'
    BY <1>a, <1>8 DEF ServerTypes, D!Waited, D!At, D!Goto, D!Leave
  <2>2. AddressPlaced'
    BY <1>a, <1>8 DEF AddressPlaced, ServerTypes, D!Waited, D!At, D!Goto, D!Leave
  <2>3. EndpointPlaced'
    BY <1>a, <1>8 DEF EndpointPlaced, AddressPlaced, ServerTypes, D!Waited, D!At, D!Goto, D!Leave
  <2>4. BestKept'
    BY <1>a, <1>8 DEF BestKept, AddressPlaced, ServerTypes, D!Waited, D!At, D!Goto, D!Leave
  <2>5. ListedWhenServing'
    BY <1>a, <1>8 DEF ListedWhenServing, ServerTypes, D!Waited, D!At, D!Goto, D!Leave
  <2>6. D!NothingLeft'
    BY <1>a, <1>8 DEF D!NothingLeft, AddressPlaced, ServerTypes, D!Waited, D!At, D!Goto, D!Leave
  <2>7. D!SuccessIsUnlisted'
    BY <1>a, <1>8 DEF D!SuccessIsUnlisted, ListedWhenServing, ServerTypes, D!Servers, D!Waited, D!At, D!Goto, D!Leave
  <2> QED BY <2>1, <2>2, <2>3, <2>4, <2>5, <2>6, <2>7 DEF ServerInv
<1>9. ASSUME NEW s \in D!Servers, D!Lookup(s) PROVE ServerInv'
  <2>1. ServerTypes'
    BY <1>a, <1>9, <1>b DEF ServerTypes, D!Lookup, D!At, D!Goto, D!Leave
  <2>2. AddressPlaced'
    BY <1>a, <1>9 DEF AddressPlaced, ServerTypes, D!Lookup, D!At, D!Goto, D!Leave
  <2>3. EndpointPlaced'
    BY <1>a, <1>9 DEF EndpointPlaced, AddressPlaced, ServerTypes, D!Lookup, D!At, D!Goto, D!Leave
  <2>4. BestKept'
    BY <1>a, <1>9, <1>b DEF BestKept, AddressPlaced, ServerTypes, D!Lookup, D!At, D!Goto, D!Leave
  <2>5. ListedWhenServing'
    BY <1>a, <1>9 DEF ListedWhenServing, ServerTypes, D!Lookup, D!At, D!Goto, D!Leave
  <2>6. D!NothingLeft'
    BY <1>a, <1>9 DEF D!NothingLeft, AddressPlaced, ServerTypes, D!Lookup, D!At, D!Goto, D!Leave
  <2>7. D!SuccessIsUnlisted'
    BY <1>a, <1>9 DEF D!SuccessIsUnlisted, ListedWhenServing, ServerTypes, D!Servers, D!Lookup, D!At, D!Goto, D!Leave
  <2> QED BY <2>1, <2>2, <2>3, <2>4, <2>5, <2>6, <2>7 DEF ServerInv
<1>10. ASSUME NEW s \in D!Servers, D!Client(s) PROVE ServerInv'
  <2>1. ServerTypes'
    BY <1>a, <1>10 DEF ServerTypes, D!Client, D!At, D!Goto, D!Leave
  <2>2. AddressPlaced'
    BY <1>a, <1>10 DEF AddressPlaced, ServerTypes, D!Client, D!At, D!Goto, D!Leave
  <2>3. EndpointPlaced'
    BY <1>a, <1>10 DEF EndpointPlaced, AddressPlaced, ServerTypes, D!Client, D!At, D!Goto, D!Leave
  <2>4. BestKept'
    BY <1>a, <1>10 DEF BestKept, AddressPlaced, ServerTypes, D!Client, D!At, D!Goto, D!Leave
  <2>5. ListedWhenServing'
    BY <1>a, <1>10 DEF ListedWhenServing, ServerTypes, D!Client, D!At, D!Goto, D!Leave
  <2>6. D!NothingLeft'
    BY <1>a, <1>10 DEF D!NothingLeft, AddressPlaced, ServerTypes, D!Client, D!At, D!Goto, D!Leave
  <2>7. D!SuccessIsUnlisted'
    BY <1>a, <1>10 DEF D!SuccessIsUnlisted, ListedWhenServing, ServerTypes, D!Servers, D!Client, D!At, D!Goto, D!Leave
  <2> QED BY <2>1, <2>2, <2>3, <2>4, <2>5, <2>6, <2>7 DEF ServerInv
<1>11. ASSUME NEW s \in D!Servers, D!Register(s) PROVE ServerInv'
  <2>1. ServerTypes'
    <3> USE <1>a, <1>11 DEF ServerTypes, D!Register, D!At, D!Goto, D!Leave, D!Failing
    <3>1. UNCHANGED <<starts, offer, url>>
      OBVIOUS
    <3>2. list' \subseteq D!Servers /\ failed' \subseteq D!Servers
      OBVIOUS
    <3>3. pc' \in [D!Servers -> {"start", "wait", "endpoint", "client", "register", "serve",
                                "deregister"}]
      OBVIOUS
    <3>4. exit' \in [D!Servers -> {"no", "success", "failure", "killed"}]
      OBVIOUS
    <3>5. endpoint' \in [D!Servers -> {"null"} \cup Mode]
      OBVIOUS
    <3>6. said' \in [D!Servers -> {"null"} \cup Mode]
      BY DEF Mode
    <3> QED BY <3>1, <3>2, <3>3, <3>4, <3>5, <3>6
  <2>2. AddressPlaced'
    BY <1>a, <1>11 DEF AddressPlaced, ServerTypes, D!Register, D!At, D!Goto, D!Leave, D!Failing
  <2>3. EndpointPlaced'
    BY <1>a, <1>11 DEF EndpointPlaced, AddressPlaced, ServerTypes, D!Register, D!At, D!Goto, D!Leave, D!Failing
  <2>4. BestKept'
    BY <1>a, <1>11 DEF BestKept, AddressPlaced, ServerTypes, D!Register, D!At, D!Goto, D!Leave, D!Failing
  <2>5. ListedWhenServing'
    BY <1>a, <1>11 DEF ListedWhenServing, ServerTypes, D!Register, D!At, D!Goto, D!Leave, D!Failing
  <2>6. D!NothingLeft'
    BY <1>a, <1>11 DEF D!NothingLeft, AddressPlaced, ServerTypes, D!Register, D!At, D!Goto, D!Leave, D!Failing
  <2>7. D!SuccessIsUnlisted'
    BY <1>a, <1>11 DEF D!SuccessIsUnlisted, ListedWhenServing, ServerTypes, D!Servers, D!Register, D!At, D!Goto, D!Leave, D!Failing
  <2> QED BY <2>1, <2>2, <2>3, <2>4, <2>5, <2>6, <2>7 DEF ServerInv
<1>12. ASSUME NEW s \in D!Servers, D!Stop(s) PROVE ServerInv'
  <2>1. ServerTypes'
    BY <1>a, <1>12 DEF ServerTypes, D!Stop, D!At, D!Goto
  <2>2. AddressPlaced'
    BY <1>a, <1>12 DEF AddressPlaced, ServerTypes, D!Stop, D!At, D!Goto
  <2>3. EndpointPlaced'
    BY <1>a, <1>12 DEF EndpointPlaced, AddressPlaced, ServerTypes, D!Stop, D!At, D!Goto
  <2>4. BestKept'
    BY <1>a, <1>12 DEF BestKept, AddressPlaced, ServerTypes, D!Stop, D!At, D!Goto
  <2>5. ListedWhenServing'
    BY <1>a, <1>12 DEF ListedWhenServing, ServerTypes, D!Stop, D!At, D!Goto
  <2>6. D!NothingLeft'
    BY <1>a, <1>12 DEF D!NothingLeft, AddressPlaced, ServerTypes, D!Stop, D!At, D!Goto
  <2>7. D!SuccessIsUnlisted'
    BY <1>a, <1>12 DEF D!SuccessIsUnlisted, ListedWhenServing, ServerTypes, D!Servers, D!Stop, D!At, D!Goto
  <2> QED BY <2>1, <2>2, <2>3, <2>4, <2>5, <2>6, <2>7 DEF ServerInv
<1>13. ASSUME NEW s \in D!Servers, D!Deregister(s) PROVE ServerInv'
  <2>1. ServerTypes'
    BY <1>a, <1>13 DEF ServerTypes, D!Deregister, D!At, D!Leave, D!Failing
  <2>2. AddressPlaced'
    BY <1>a, <1>13 DEF AddressPlaced, ServerTypes, D!Deregister, D!At, D!Leave, D!Failing
  <2>3. EndpointPlaced'
    BY <1>a, <1>13 DEF EndpointPlaced, AddressPlaced, ServerTypes, D!Deregister, D!At, D!Leave, D!Failing
  <2>4. BestKept'
    BY <1>a, <1>13 DEF BestKept, AddressPlaced, ServerTypes, D!Deregister, D!At, D!Leave, D!Failing
  <2>5. ListedWhenServing'
    BY <1>a, <1>13 DEF ListedWhenServing, ServerTypes, D!Deregister, D!At, D!Leave, D!Failing
  <2>6. D!NothingLeft'
    BY <1>a, <1>13 DEF D!NothingLeft, AddressPlaced, ServerTypes, D!Deregister, D!At, D!Leave, D!Failing
  <2>7. D!SuccessIsUnlisted'
    BY <1>a, <1>13 DEF D!SuccessIsUnlisted, ListedWhenServing, ServerTypes, D!Servers, D!Deregister, D!At, D!Leave, D!Failing
  <2> QED BY <2>1, <2>2, <2>3, <2>4, <2>5, <2>6, <2>7 DEF ServerInv
<1> QED BY <1>1, <1>2, <1>3, <1>4, <1>5, <1>6, <1>7, <1>8, <1>9, <1>10, <1>11, <1>12, <1>13 DEF D!Step

LEMMA DiscoveryStep == DiscoveryInv /\ D!Next => DiscoveryInv'
BY ServerStep, ClientStep DEF D!Next

LEMMA DiscoveryMeans == DiscoveryInv => D!Inv
<1> SUFFICES ASSUME DiscoveryInv PROVE D!Inv
  OBVIOUS
<1>1. D!TypeOK
  BY Ranks DEF D!TypeOK, DiscoveryInv, ServerInv, ServerTypes, EndpointPlaced, ClientInv, Mode
<1>2. D!NoFallback
  BY BestIsHighest DEF D!NoFallback, DiscoveryInv, ServerInv, ServerTypes, BestKept, D!Servers
<1> QED BY <1>1, <1>2 DEF D!Inv, DiscoveryInv, ServerInv, ClientInv

LEMMA OneRuns ==
    ASSUME [Next]_all
    PROVE  /\ system' = system
           /\ system = "config" => C!Next \/ UNCHANGED C!vars
           /\ system = "interrupt" => I!Next \/ UNCHANGED I!vars
           /\ system = "vxworks" => V!Next \/ UNCHANGED V!vars
           /\ system = "discovery" => D!Next \/ UNCHANGED D!vars
BY DEF Next, all, asyncOnly, configOnly, interruptOnly, vxWorksOnly, discoveryOnly, shared,
       OnlyAsync, OnlyConfig, OnlyInterrupt, OnlyVxWorks, OnlyDiscovery, C!vars, I!vars, V!vars,
       D!vars, D!ldsVars, D!serverVars, D!clientVars

\* Whatever is interrupted and however often: the file is never a mixture, a whole
\* configuration is there unless a run ended while it loaded or wrote it, and with no
\* accident the last one chosen is found, for any configurations, of any length.
THEOREM ConfigurationAlwaysKept == Spec => []ConfigurationKept
<1> DEFINE Always == system = "config" => ConfigInv
<1>1. Init => Always
  BY ConfigInit DEF Init
<1>2. Always /\ [Next]_all => Always'
  <2> SUFFICES ASSUME Always, [Next]_all, system = "config" PROVE ConfigInv'
    BY OneRuns
  <2>1. CASE C!Next
    BY <2>1, ConfigStep
  <2>2. CASE UNCHANGED C!vars
    BY <2>2 DEF C!vars, ConfigInv, ConfigTypes, BeingWritten, NoAccident,
           NoneWhileWriting
  <2> QED BY <2>1, <2>2, OneRuns
<1>3. Always => ConfigurationKept
  BY ConfigMeans DEF ConfigurationKept
<1> QED BY <1>1, <1>2, <1>3, PTL DEF Spec

\* The timer's handler goes wrong in its two windows and nowhere else, finds its server
\* and logs once, wherever it interrupts main() and whatever fails.
THEOREM InterruptAlwaysContained == Spec => []InterruptContained
<1> DEFINE Always == system = "interrupt" => InterruptInv
<1>1. Init => Always
  BY InterruptInit DEF Init
<1>2. Always /\ [Next]_all => Always'
  <2> SUFFICES ASSUME Always, [Next]_all, system = "interrupt" PROVE InterruptInv'
    BY OneRuns
  <2>1. CASE I!Next
    BY <2>1, InterruptStep
  <2>2. CASE UNCHANGED I!vars
    BY <2>2 DEF I!vars, InterruptInv, I!TypeOK, I!LoggedOnce, TimerPlaced,
           CrashPlaced, MeasuredAfter
  <2> QED BY <2>1, <2>2, OneRuns
<1>3. Always => InterruptContained
  BY InterruptMeans DEF InterruptContained
<1> QED BY <1>1, <1>2, <1>3, PTL DEF Spec

\* However the three tasks and the interrupt interleave and whatever fails, for any number
\* of starts: the sender publishes only what is there, and Stop leaves nothing.
THEOREM AlwaysStopsCompletely == Spec => []StopsCompletely
<1> DEFINE Always == system = "vxworks" => VxWorksInv
<1>1. Init => Always
  BY VxWorksInit DEF Init
<1>2. Always /\ [Next]_all => Always'
  <2> SUFFICES ASSUME Always, [Next]_all, system = "vxworks" PROVE VxWorksInv'
    BY OneRuns
  <2>1. CASE V!Next
    BY <2>1, VxWorksStep
  <2>2. CASE UNCHANGED V!vars
    <3>1. V!TypeOK'
      BY <2>2, VxWorksStutters DEF VxWorksInv
    <3>2. UNCHANGED <<user, serverPc, senderPc, tsnTask, serverTask, running, msgSendSem, timer,
                      tsnClockId, pubCallback, values, server, crashed>>
      BY <2>2 DEF V!vars
    <3>3. UserAndTasks'
      BY <3>2, Zenon DEF VxWorksInv, UserAndTasks, Idle
    <3>4. ServerPlaced'
      BY <3>2, Zenon DEF VxWorksInv, ServerPlaced, Idle
    <3>5. SenderPlaced'
      BY <3>2 DEF VxWorksInv, SenderPlaced
    <3> QED BY <3>1, <3>3, <3>4, <3>5 DEF VxWorksInv
  <2> QED BY <2>1, <2>2, OneRuns
<1>3. Always => StopsCompletely
  BY VxWorksMeans DEF StopsCompletely
<1> QED BY <1>1, <1>2, <1>3, PTL DEF Spec

\* For any servers and any endpoints on offer, whatever call fails, whoever is interrupted
\* or killed and however often the discovery server starts anew: a server registers over
\* the highest mode it can speak or not at all, leaves nothing, and is unlisted when it
\* ends with a success; and the client asks each server that has an address.
THEOREM DiscoveryAlwaysSound == Spec => []DiscoverySound
<1> DEFINE Always == system = "discovery" => DiscoveryInv
<1>1. Init => Always
  BY DiscoveryInit DEF Init
<1>2. Always /\ [Next]_all => Always'
  <2> SUFFICES ASSUME Always, [Next]_all, system = "discovery" PROVE DiscoveryInv'
    BY OneRuns
  <2>1. CASE D!Next
    BY <2>1, DiscoveryStep
  <2>2. CASE UNCHANGED D!vars
    BY <2>2, ServerStays, ClientStays DEF D!vars, DiscoveryInv
  <2> QED BY <2>1, <2>2, OneRuns
<1>3. Always => DiscoverySound
  BY DiscoveryMeans DEF DiscoverySound
<1> QED BY <1>1, <1>2, <1>3, PTL DEF Spec

-----------------------------------------------------------------------------
(* The asynchronous methods. The invariant says where an id may be at a    *)
(* time: a call under way has it to itself, then its operations do, all of *)
(* them, until they are answered together; the client may have forgotten   *)
(* it long before. That is why an answer never meets a call it does not    *)
(* belong to.                                                              *)

\* The lists of items the client ever sends, and the calls with one of them.
Bodies == {A!Single(A!Hello1, "World 1"), A!Single(A!Hello2, "World 2"), A!Multi}
Call(id, b) == [id |-> id, items |-> b]
OpsOf(id) == {op \in DOMAIN results : op.id = id}

AsyncTypes ==
    /\ running \in BOOLEAN /\ alive \in BOOLEAN /\ session \in BOOLEAN
    /\ methods \subseteq A!Methods
    /\ request \in A!Operations \cup {A!None}
    /\ queue \in Seq(A!Operations)
    /\ DOMAIN results \subseteq A!Operations
    /\ \A op \in DOMAIN results : results[op] \in {A!Pending, A!Bad, A!HelloWorld(op)}
    /\ DOMAIN calls \subseteq A!Ids
    /\ \A i \in DOMAIN calls : calls[i] \in Bodies

\* Where the threads stand: the worker has a request while it calls, and the server is
\* deleted when it has ended.
ThreadsPlaced ==
    /\ main = "start" => worker = "new"
    /\ request # A!None => worker = "call"
    /\ main \in {"delete", "done"} => worker = "ended"
    /\ ~alive => main = "done"

\* What is queued waits for a result; A!NothingForgotten says the converse.
QueuedPending == \A op \in A!ToSet(queue) : op \in DOMAIN results /\ results[op] = A!Pending

\* A call under way has its id to itself, but for the client that waits for it.
WireApart ==
    /\ \A c \in wire : \E id \in A!Ids, b \in Bodies : c = Call(id, b)
    /\ \A c, d \in wire : c.id = d.id => c = d
    /\ \A c \in wire : OpsOf(c.id) = {}
    /\ \A c \in wire : request # A!None => request.id # c.id
    /\ \A c \in wire : \A r \in back : r.id # c.id
    /\ \A c \in wire : c.id \in DOMAIN calls => calls[c.id] = c.items

\* A call the server has is there with all of its operations, and not answered.
ResultsWhole ==
    \A op \in DOMAIN results :
        /\ \A r \in back : r.id # op.id
        /\ \E b \in Bodies : /\ OpsOf(op.id) = A!Ops(Call(op.id, b))
                             /\ op.id \in DOMAIN calls => calls[op.id] = b

\* Nothing is waited for outside a session.
SessionCounts ==
    /\ ~session => DOMAIN calls = {}
    /\ client = "connect" => ~session /\ starts = 0
    /\ starts \in 0 .. Starts /\ ended \in Nat

AsyncInv == /\ AsyncTypes /\ ThreadsPlaced /\ A!NothingForgotten /\ QueuedPending
            /\ WireApart /\ ResultsWhole /\ A!OwnResults
            /\ SessionCounts /\ A!ChainsAccounted

-----------------------------------------------------------------------------
(* Lists of items, operations and queues.                                  *)

\* Each list has one item or two, of the two methods and the three inputs.
LEMMA BodyForm ==
  \A b \in Bodies : /\ b \in Seq([method : A!Methods, input : A!Inputs])
                    /\ DOMAIN b \in {{1}, {1, 2}} /\ DOMAIN b = 1 .. Len(b)
                    /\ Len(b) \in Nat
                    /\ \A i \in DOMAIN b : b[i].method \in A!Methods /\ b[i].input \in A!Inputs
<1> DEFINE Item == [method : A!Methods, input : A!Inputs]
<1>1. ASSUME NEW h \in A!Methods, NEW text \in A!Inputs
      PROVE  A!Single(h, text) \in Seq(Item) /\ Len(A!Single(h, text)) = 1
  <2>1. [method |-> h, input |-> text] \in Item
    BY <1>1
  <2> HIDE DEF Item
  <2> QED BY <2>1 DEF A!Single
<1>2. A!Hello1 \in A!Methods /\ A!Hello2 \in A!Methods
  BY DEF A!Methods
<1>3. "World 1" \in A!Inputs /\ "World 2" \in A!Inputs /\ "World 3 (multi)" \in A!Inputs
  BY DEF A!Inputs
<1> HIDE DEF Item
<1>4. A!Multi \in Seq(Item) /\ Len(A!Multi) = 2
  <2>1. \A s, t \in Seq(Item) : s \o t \in Seq(Item) /\ Len(s \o t) = Len(s) + Len(t)
    OBVIOUS
  <2>2. A!Single(A!Hello2, "World 3 (multi)") \in Seq(Item)
    /\ Len(A!Single(A!Hello2, "World 3 (multi)")) = 1
    BY <1>1, <1>2, <1>3, Zenon
  <2>3. A!Single(A!Hello1, "World 3 (multi)") \in Seq(Item)
    /\ Len(A!Single(A!Hello1, "World 3 (multi)")) = 1
    BY <1>1, <1>2, <1>3, Zenon
  <2>4. A!Multi = A!Single(A!Hello2, "World 3 (multi)") \o A!Single(A!Hello1, "World 3 (multi)")
    BY DEF A!Multi
  <2>5. A!Multi \in Seq(Item)
    BY <2>1, <2>2, <2>3, <2>4, Zenon
  <2>6. Len(A!Multi) = 1 + 1
    BY <2>1, <2>2, <2>3, <2>4, Zenon
  <2> QED BY <2>5, <2>6
<1>5. ASSUME NEW b \in Bodies PROVE b \in Seq(Item) /\ Len(b) \in {1, 2}
  BY <1>1, <1>2, <1>3, <1>4, Zenon DEF Bodies
<1>6. ASSUME NEW b \in Bodies PROVE DOMAIN b \in {{1}, {1, 2}} /\ DOMAIN b = 1 .. Len(b)
  <2>1. DOMAIN b = 1 .. Len(b)
    BY <1>5
  <2>2. 1 .. 1 = {1} /\ 1 .. 2 = {1, 2}
    OBVIOUS
  <2> QED BY <1>5, <2>1, <2>2
<1>7. ASSUME NEW b \in Bodies, NEW i \in DOMAIN b PROVE b[i] \in Item
  BY <1>5, <1>6, ElementOfSeq
<1>8. \A x \in Item : x.method \in A!Methods /\ x.input \in A!Inputs
  BY DEF Item
<1>9. ASSUME NEW b \in Bodies PROVE Len(b) \in Nat
  BY <1>5
<1> QED BY <1>5, <1>6, <1>7, <1>8, <1>9, Zenon DEF Item

\* The operations of a call: one for each of its items, which it names.
LEMMA OperationsOfCall ==
  ASSUME NEW id \in A!Ids, NEW b \in Bodies
  PROVE  /\ A!Items(Call(id, b)) = DOMAIN b
         /\ A!Ops(Call(id, b)) = {A!Op(Call(id, b), i) : i \in DOMAIN b}
         /\ \A i \in DOMAIN b :
              LET op == A!Op(Call(id, b), i)
              IN  /\ op \in A!Operations /\ op.id = id /\ op.item = i
                  /\ op.method = b[i].method /\ op.input = b[i].input
<1>1. A!Items(Call(id, b)) = DOMAIN b
  BY DEF A!Items, Call
<1>2. A!Ops(Call(id, b)) = {A!Op(Call(id, b), i) : i \in DOMAIN b}
  BY <1>1 DEF A!Ops
<1>3. ASSUME NEW i \in DOMAIN b
      PROVE  LET op == A!Op(Call(id, b), i)
             IN  /\ op \in A!Operations /\ op.id = id /\ op.item = i
                 /\ op.method = b[i].method /\ op.input = b[i].input
  <2>1. i \in {1, 2}
    BY BodyForm
  <2>2. b[i].method \in A!Methods /\ b[i].input \in A!Inputs
    BY BodyForm, Zenon
  <2> QED BY <2>1, <2>2 DEF A!Op, Call, A!Operations
<1> QED BY <1>1, <1>2, <1>3

\* A part of a sequence.
LEMMA PartGives ==
  ASSUME NEW S, NEW q \in Seq(S), NEW m \in Int, NEW n \in Int,
         m >= 1, n <= Len(q), m <= n + 1
  PROVE  /\ SubSeq(q, m, n) \in Seq(S) /\ Len(SubSeq(q, m, n)) = n + 1 - m
         /\ \A i \in 1 .. n + 1 - m : SubSeq(q, m, n)[i] = q[m + i - 1]
OBVIOUS

\* What is left of a sequence when the element at k is taken out.
LEMMA RemoveAtElements ==
  ASSUME NEW S, NEW q \in Seq(S), NEW k \in 1 .. Len(q)
  PROVE  /\ A!RemoveAt(q, k) \in Seq(S) /\ Len(A!RemoveAt(q, k)) = Len(q) - 1
         /\ \A j \in 1 .. Len(q) - 1 :
               A!RemoveAt(q, k)[j] = IF j < k THEN q[j] ELSE q[j + 1]
<1> DEFINE n == Len(q)
           s == SubSeq(q, 1, k - 1)
           t == SubSeq(q, k + 1, n)
<1>1. n \in Nat /\ k \in Int /\ k - 1 \in Int /\ k + 1 \in Int /\ n \in Int /\ k >= 1 /\ k <= n
  OBVIOUS
<1>2. s \in Seq(S) /\ Len(s) = k - 1 /\ \A i \in 1 .. k - 1 : s[i] = q[i]
  <2>1. /\ s \in Seq(S) /\ Len(s) = (k - 1) + 1 - 1
        /\ \A i \in 1 .. (k - 1) + 1 - 1 : s[i] = q[1 + i - 1]
    BY <1>1, PartGives
  <2> HIDE DEF s
  <2> QED BY <1>1, <2>1
<1>3. t \in Seq(S) /\ Len(t) = n - k /\ \A i \in 1 .. n - k : t[i] = q[k + i]
  <2>1. /\ t \in Seq(S) /\ Len(t) = n + 1 - (k + 1)
        /\ \A i \in 1 .. n + 1 - (k + 1) : t[i] = q[(k + 1) + i - 1]
    BY <1>1, PartGives
  <2> HIDE DEF t, n
  <2> QED BY <1>1, <2>1
<1>4. A!RemoveAt(q, k) = s \o t
  BY Zenon DEF A!RemoveAt
<1> HIDE DEF s, t, n
<1>5. s \o t \in Seq(S) /\ Len(s \o t) = Len(s) + Len(t)
      /\ \A j \in 1 .. Len(s) + Len(t) : (s \o t)[j] = IF j <= Len(s) THEN s[j] ELSE t[j - Len(s)]
  BY <1>2, <1>3, ConcatProperties
<1>6. PICK r : r = s \o t
  OBVIOUS
<1>7. /\ Len(s) + Len(t) = n - 1
      /\ \A j \in 1 .. n - 1 : r[j] = IF j <= k - 1 THEN s[j] ELSE t[j - (k - 1)]
  BY <1>1, <1>2, <1>3, <1>5, <1>6
<1>8. ASSUME NEW j \in 1 .. n - 1 PROVE r[j] = IF j < k THEN q[j] ELSE q[j + 1]
  <2>1. CASE j < k
    <3>1. j \in 1 .. k - 1 /\ j <= k - 1
      BY <1>1, <2>1
    <3> QED BY <1>2, <1>7, <2>1, <3>1
  <2>2. CASE ~(j < k)
    <3>1. j - (k - 1) \in 1 .. n - k /\ ~(j <= k - 1) /\ k + (j - (k - 1)) = j + 1
      BY <1>1, <2>2
    <3>2. r[j] = t[j - (k - 1)]
      BY <1>7, <3>1
    <3>3. t[j - (k - 1)] = q[j + 1]
      BY <1>3, <3>1
    <3> QED BY <2>2, <3>2, <3>3
  <2> QED BY <2>1, <2>2
<1> QED BY <1>4, <1>5, <1>6, <1>7, <1>8 DEF n

\* The same of a queue whose elements are all different.
LEMMA RemoveAtGives ==
  ASSUME NEW S, NEW q \in Seq(S), A!IsInjective(q), NEW k \in DOMAIN q
  PROVE  /\ A!RemoveAt(q, k) \in Seq(S)
         /\ A!ToSet(A!RemoveAt(q, k)) = A!ToSet(q) \ {q[k]}
         /\ A!IsInjective(A!RemoveAt(q, k))
<1> DEFINE r == A!RemoveAt(q, k)
           at(j) == IF j < k THEN j ELSE j + 1
<1>1. DOMAIN q = 1 .. Len(q) /\ Len(q) \in Nat /\ k \in 1 .. Len(q)
  OBVIOUS
<1> HIDE DEF r
<1>a. /\ r \in Seq(S) /\ Len(r) = Len(q) - 1
      /\ \A j \in 1 .. Len(q) - 1 : r[j] = IF j < k THEN q[j] ELSE q[j + 1]
  BY <1>1, RemoveAtElements, Zenon DEF r
<1>2. DOMAIN r = 1 .. Len(q) - 1
  BY <1>a
<1>3. ASSUME NEW j \in DOMAIN r PROVE at(j) \in DOMAIN q \ {k} /\ r[j] = q[at(j)]
  BY <1>a, <1>1, <1>2
<1>4. ASSUME NEW i \in DOMAIN q, i # k PROVE \E j \in DOMAIN r : at(j) = i
  <2>1. CASE i < k
    BY <2>1, <1>1, <1>2
  <2>2. CASE i > k
    <3>1. i - 1 \in DOMAIN r /\ at(i - 1) = i
      BY <2>2, <1>1, <1>2
    <3> QED BY <3>1
  <2> QED BY <2>1, <2>2, <1>1, <1>4
<1>5. A!ToSet(r) = A!ToSet(q) \ {q[k]}
  <2>1. ASSUME NEW x \in A!ToSet(r) PROVE x \in A!ToSet(q) \ {q[k]}
    <3>1. PICK j \in DOMAIN r : x = r[j]
      BY <2>1 DEF A!ToSet
    <3> QED BY <3>1, <1>3 DEF A!ToSet, A!IsInjective
  <2>2. ASSUME NEW x \in A!ToSet(q), x # q[k] PROVE x \in A!ToSet(r)
    <3>1. PICK i \in DOMAIN q : x = q[i]
      BY <2>2 DEF A!ToSet
    <3>2. PICK j \in DOMAIN r : at(j) = i
      BY <3>1, <2>2, <1>4
    <3> QED BY <3>1, <3>2, <1>3 DEF A!ToSet
  <2> QED BY <2>1, <2>2
<1>6. ASSUME NEW i \in DOMAIN r, NEW j \in DOMAIN r, r[i] = r[j] PROVE i = j
  <2>1. at(i) = at(j)
    BY <1>3, <1>6 DEF A!IsInjective
  <2> QED BY <2>1, <1>1, <1>2
<1>7. A!IsInjective(r)
  BY <1>6 DEF A!IsInjective
<1> QED BY <1>a, <1>5, <1>7 DEF r

\* And of what follows its head.
LEMMA TailGives ==
  ASSUME NEW S, NEW q \in Seq(S), A!IsInjective(q), q # <<>>
  PROVE  /\ Tail(q) \in Seq(S) /\ Head(q) \in A!ToSet(q)
         /\ A!ToSet(Tail(q)) = A!ToSet(q) \ {Head(q)}
         /\ A!IsInjective(Tail(q))
<1>1. 1 \in DOMAIN q /\ Head(q) = q[1] /\ Len(q) \in Nat \ {0} /\ DOMAIN q = 1 .. Len(q)
  OBVIOUS
<1>2. A!RemoveAt(q, 1) = Tail(q)
  <2>1. /\ Tail(q) \in Seq(S) /\ Len(Tail(q)) = Len(q) - 1
        /\ \A j \in 1 .. Len(q) - 1 : Tail(q)[j] = q[j + 1]
    BY <1>1
  <2>2. /\ A!RemoveAt(q, 1) \in Seq(S) /\ Len(A!RemoveAt(q, 1)) = Len(q) - 1
        /\ \A j \in 1 .. Len(q) - 1 :
              A!RemoveAt(q, 1)[j] = IF j < 1 THEN q[j] ELSE q[j + 1]
    <3>1. 1 \in 1 .. Len(q)
      BY <1>1
    <3> QED BY <3>1, RemoveAtElements, Zenon
  <2>3. \A j \in 1 .. Len(q) - 1 : ~(j < 1)
    BY <1>1
  <2>4. \A u, v \in Seq(S) :
          Len(u) = Len(v) /\ (\A j \in 1 .. Len(u) : u[j] = v[j]) => u = v
    BY SeqEqual
  <2>5. \A j \in 1 .. Len(q) - 1 : A!RemoveAt(q, 1)[j] = Tail(q)[j]
    BY <2>1, <2>2, <2>3, Zenon
  <2> QED BY <2>1, <2>2, <2>4, <2>5, Zenon
<1>3. 1 \in DOMAIN q /\ q[1] \in A!ToSet(q)
  BY <1>1 DEF A!ToSet
<1>4. /\ A!RemoveAt(q, 1) \in Seq(S)
      /\ A!ToSet(A!RemoveAt(q, 1)) = A!ToSet(q) \ {q[1]}
      /\ A!IsInjective(A!RemoveAt(q, 1))
  BY <1>3, RemoveAtGives
<1> QED BY <1>1, <1>2, <1>3, <1>4, Zenon

-----------------------------------------------------------------------------
(* Sending.                                                                *)

\* An id that is free is in nobody's memory.
LEMMA FreeIsFree ==
  ASSUME NEW i \in A!Free
  PROVE  /\ i \in A!Ids /\ i \notin DOMAIN calls /\ OpsOf(i) = {}
         /\ \A c \in wire : c.id # i
         /\ \A r \in back : r.id # i
         /\ request # A!None => request.id # i
BY DEF A!Free, OpsOf

\* The instance counts as we do.
LEMMA SameCardinality == \A S : A!Cardinality(S) = Cardinality(S)
BY Zenon DEF A!Cardinality, Cardinality

\* What Send does: its lists get free ids, all different.
LEMMA SendGives ==
  ASSUME NEW kept, NEW lists, NEW gone, A!Send(kept, lists, gone)
  PROVE  \E id \in [DOMAIN lists -> A!Free] :
            /\ \A j, k \in DOMAIN lists : id[j] = id[k] => j = k
            /\ calls' = [i \in kept \cup {id[k] : k \in gone} |->
                           IF i \in kept THEN calls[i]
                           ELSE lists[CHOOSE k \in gone : id[k] = i]]
            /\ wire' = wire \cup {[id |-> id[k], items |-> lists[k]] : k \in gone}
            /\ ended' = ended + Cardinality(DOMAIN lists \ gone)
<1> DEFINE fresh == {f \in [DOMAIN lists -> A!Free] : A!IsInjective(f)}
           id == CHOOSE f \in fresh : TRUE
<1>1. fresh # {}
  BY DEF A!Send
<1>2. id \in fresh
  BY <1>1
<1>3. \A j, k \in DOMAIN lists : id[j] = id[k] => j = k
  <2>1. id \in [DOMAIN lists -> A!Free] /\ A!IsInjective(id)
    BY <1>2
  <2> HIDE DEF id
  <2> QED BY <2>1 DEF A!IsInjective
<1>4. id \in [DOMAIN lists -> A!Free]
  BY <1>2
<1>5. /\ calls' = [i \in kept \cup {id[k] : k \in gone} |->
                     IF i \in kept THEN calls[i] ELSE lists[CHOOSE k \in gone : id[k] = i]]
      /\ wire' = wire \cup {[id |-> id[k], items |-> lists[k]] : k \in gone}
      /\ ended' = ended + Cardinality(DOMAIN lists \ gone)
  BY SameCardinality, Zenon DEF A!Send
<1> HIDE DEF id
<1> QED BY <1>3, <1>4, <1>5, Zenon

\* A set has as many elements as its image under a function that tells them apart.
LEMMA ImageCounts ==
  ASSUME NEW S, IsFiniteSet(S), NEW f, \A j, k \in S : f[j] = f[k] => j = k
  PROVE  IsFiniteSet({f[k] : k \in S}) /\ Cardinality({f[k] : k \in S}) = Cardinality(S)
<1> DEFINE T == {f[k] : k \in S}
           g == [k \in S |-> f[k]]
<1>1. g \in Bijection(S, T)
  <2>1. g \in [S -> T] /\ \A t \in T : \E s \in S : g[s] = t
    OBVIOUS
  <2>2. \A a, b \in S : g[a] = g[b] => a = b
    OBVIOUS
  <2> QED BY <2>1, <2>2 DEF Bijection, Injection, Surjection, IsInjective
<1>2. ExistsBijection(S, T)
  BY <1>1 DEF ExistsBijection
<1> QED BY <1>2, FS_Bijection

LEMMA IdsFinite == IsFiniteSet(A!Ids)
BY ExamplesAssumption, FS_Interval DEF A!Ids

\* Each list that was sent is one more call, each that was not is one more chain ended.
LEMMA SendCounts ==
  ASSUME NEW kept, kept \subseteq A!Ids, kept \subseteq DOMAIN calls,
         NEW lists, IsFiniteSet(DOMAIN lists),
         NEW gone, gone \subseteq DOMAIN lists, ended \in Nat,
         A!Send(kept, lists, gone)
  PROVE  /\ ended' \in Nat
         /\ Cardinality(DOMAIN calls') + ended'
              = Cardinality(kept) + ended + Cardinality(DOMAIN lists)
<1>1. PICK id \in [DOMAIN lists -> A!Free] :
            /\ \A j, k \in DOMAIN lists : id[j] = id[k] => j = k
            /\ calls' = [i \in kept \cup {id[k] : k \in gone} |->
                           IF i \in kept THEN calls[i]
                           ELSE lists[CHOOSE k \in gone : id[k] = i]]
            /\ wire' = wire \cup {[id |-> id[k], items |-> lists[k]] : k \in gone}
            /\ ended' = ended + Cardinality(DOMAIN lists \ gone)
  BY SendGives
<1> DEFINE new == {id[k] : k \in gone}
<1>2. DOMAIN calls' = kept \cup new
  BY <1>1
<1>3. kept \cap new = {}
  <2>1. ASSUME NEW k \in gone PROVE id[k] \notin kept
    BY <1>1, FreeIsFree
  <2> QED BY <2>1
<1>4. /\ IsFiniteSet(kept) /\ IsFiniteSet(gone) /\ IsFiniteSet(DOMAIN lists \ gone)
      /\ gone \cap (DOMAIN lists \ gone) = {} /\ gone \cup (DOMAIN lists \ gone) = DOMAIN lists
  BY IdsFinite, FS_Subset, FS_Difference
<1>5. Cardinality(DOMAIN lists) = Cardinality(gone) + Cardinality(DOMAIN lists \ gone)
  <2>1. /\ Cardinality(gone) \in Nat /\ Cardinality(DOMAIN lists \ gone) \in Nat
        /\ Cardinality({}) = 0
    BY <1>4, FS_CardinalityType, FS_EmptySet
  <2> DEFINE left == DOMAIN lists \ gone
  <2> HIDE DEF left
  <2>2. Cardinality(gone \cup left) = Cardinality(gone) + Cardinality(left) - Cardinality({})
    BY <1>4, FS_Union DEF left
  <2>3. gone \cup left = DOMAIN lists
    BY <1>4 DEF left
  <2> QED BY <2>1, <2>2, <2>3 DEF left
<1>6. IsFiniteSet(new) /\ Cardinality(new) = Cardinality(gone)
  BY <1>1, <1>4, ImageCounts
<1>7. Cardinality(kept \cup new) = Cardinality(kept) + Cardinality(gone)
  <2>1. /\ Cardinality(kept) \in Nat /\ Cardinality(gone) \in Nat /\ Cardinality({}) = 0
    BY <1>4, FS_CardinalityType, FS_EmptySet
  <2> HIDE DEF new
  <2>2. Cardinality(kept \cup new) = Cardinality(kept) + Cardinality(new) - Cardinality({})
    BY <1>3, <1>4, <1>6, FS_Union
  <2> QED BY <2>1, <2>2, <1>6
<1> HIDE DEF new
<1>8. /\ Cardinality(kept) \in Nat /\ Cardinality(gone) \in Nat
      /\ Cardinality(DOMAIN lists \ gone) \in Nat
  BY <1>4, FS_CardinalityType
<1>9. ended' = ended + Cardinality(DOMAIN lists \ gone)
  BY <1>1
<1> QED BY <1>2, <1>5, <1>7, <1>8, <1>9

-----------------------------------------------------------------------------
(* The start, and the steps of the server's threads.                       *)

LEMMA NoneIsNoOperation == A!None \notin A!Operations
BY DEF A!None, A!Operations, A!Ids

LEMMA AsyncInit == A!Init => AsyncInv
<1> SUFFICES ASSUME A!Init PROVE AsyncInv
  OBVIOUS
<1> USE ExamplesAssumption DEF A!Init
<1>1. AsyncTypes
  <2>1. running \in BOOLEAN
    OBVIOUS
  <2>2. alive \in BOOLEAN
    OBVIOUS
  <2>3. session \in BOOLEAN
    OBVIOUS
  <2>4. methods \subseteq A!Methods /\ request \in A!Operations \cup {A!None}
    OBVIOUS
  <2>5. queue \in Seq(A!Operations) /\ DOMAIN results = {} /\ DOMAIN calls = {}
    OBVIOUS
  <2> QED BY <2>1, <2>2, <2>3, <2>4, <2>5, Zenon DEF AsyncTypes
<1>2. ThreadsPlaced
  BY DEF ThreadsPlaced
<1>3. DOMAIN queue = {} /\ DOMAIN results = {}
  OBVIOUS
<1>4. A!NothingForgotten
  BY <1>3, Zenon DEF A!NothingForgotten, A!IsInjective, A!ToSet
<1>5. QueuedPending
  BY <1>3, Zenon DEF QueuedPending, A!ToSet
<1>6. WireApart
  BY DEF WireApart
<1>7. ResultsWhole
  BY <1>3, Zenon DEF ResultsWhole
<1>8. A!OwnResults
  BY DEF A!OwnResults
<1>9. DOMAIN calls = {}
  OBVIOUS
<1>10. SessionCounts
  BY <1>9 DEF SessionCounts
<1>11. A!ChainsAccounted
  <2>1. Cardinality(DOMAIN calls) = 0
    BY <1>9, FS_EmptySet
  <2> QED BY <2>1, SameCardinality DEF A!ChainsAccounted
<1> QED BY <1>1, <1>2, <1>4, <1>5, <1>6, <1>7, <1>8, <1>10, <1>11 DEF AsyncInv

\* What the threads' steps between the queue's leave alone.
LEMMA QuietKeeps ==
  ASSUME AsyncInv,
         UNCHANGED <<request, queue, results, wire, back, client, session, calls, starts, ended>>
  PROVE  /\ A!NothingForgotten' /\ QueuedPending' /\ WireApart' /\ ResultsWhole'
         /\ A!OwnResults' /\ SessionCounts' /\ A!ChainsAccounted'
<1> USE DEF AsyncInv
<1>1. A!NothingForgotten'
  BY DEF A!NothingForgotten
<1>2. QueuedPending'
  BY DEF QueuedPending
<1>3. WireApart'
  BY DEF WireApart, OpsOf
<1>4. ResultsWhole'
  BY DEF ResultsWhole, OpsOf
<1>5. A!OwnResults'
  BY DEF A!OwnResults, A!Waiting
<1>6. SessionCounts'
  BY DEF SessionCounts
<1>7. A!ChainsAccounted'
  BY DEF A!ChainsAccounted
<1> QED BY <1>1, <1>2, <1>3, <1>4, <1>5, <1>6, <1>7

\* The steps of main() and of the worker that touch neither queue nor results.
LEMMA ThreadSteps ==
  ASSUME AsyncInv,
         \/ A!StartWorker \/ A!AddHelloWorldMethod1 \/ A!AddHelloWorldMethod2
         \/ A!Interrupt \/ A!ClearRunning \/ A!Join \/ A!CheckRunning \/ A!GetNothing,
         UNCHANGED <<wire, back, client, session, calls, starts, ended>>
  PROVE  AsyncInv'
<1>1. UNCHANGED <<request, queue, results, alive>>
  BY DEF A!StartWorker, A!AddHelloWorldMethod1, A!AddHelloWorldMethod2, A!Interrupt,
         A!ClearRunning, A!Join, A!CheckRunning, A!GetNothing
<1>2. AsyncTypes'
  <2>1. running' \in BOOLEAN
    BY DEF AsyncInv, AsyncTypes, A!StartWorker, A!AddHelloWorldMethod1,
           A!AddHelloWorldMethod2, A!Interrupt, A!ClearRunning, A!Join, A!CheckRunning,
           A!GetNothing
  <2>2. methods' \subseteq A!Methods
    BY DEF AsyncInv, AsyncTypes, A!StartWorker, A!AddHelloWorldMethod1,
           A!AddHelloWorldMethod2, A!Interrupt, A!ClearRunning, A!Join, A!CheckRunning,
           A!GetNothing, A!Methods
  <2> QED BY <2>1, <2>2, <1>1, Zenon DEF AsyncInv, AsyncTypes
<1>3. ThreadsPlaced'
  BY <1>1 DEF AsyncInv, ThreadsPlaced, A!StartWorker, A!AddHelloWorldMethod1,
              A!AddHelloWorldMethod2, A!Interrupt, A!ClearRunning, A!Join, A!Joined,
              A!CheckRunning, A!GetNothing
<1>4. /\ A!NothingForgotten' /\ QueuedPending' /\ WireApart' /\ ResultsWhole'
      /\ A!OwnResults' /\ SessionCounts' /\ A!ChainsAccounted'
  BY <1>1, QuietKeeps
<1> QED BY <1>2, <1>3, <1>4 DEF AsyncInv

\* When no call goes under way or is answered, and no new operation comes.
LEMMA ClientKeeps ==
  ASSUME AsyncInv, UNCHANGED <<wire, back, client, session, calls, starts, ended>>
  PROVE  A!OwnResults' /\ SessionCounts' /\ A!ChainsAccounted'
<1> USE DEF AsyncInv
<1>1. A!OwnResults'
  BY DEF A!OwnResults, A!Waiting
<1>2. SessionCounts'
  BY DEF SessionCounts
<1>3. A!ChainsAccounted'
  BY DEF A!ChainsAccounted
<1> QED BY <1>1, <1>2, <1>3

LEMMA DeleteStep ==
  ASSUME AsyncInv, A!DeleteServer,
         UNCHANGED <<wire, back, client, session, calls, starts, ended>>
  PROVE  AsyncInv'
<1> USE DEF A!DeleteServer
<1>1. DOMAIN queue' = {} /\ DOMAIN results' = {} /\ queue' \in Seq(A!Operations)
  OBVIOUS
<1>2. AsyncTypes'
  <2>1. alive' \in BOOLEAN
    OBVIOUS
  <2> QED BY <2>1, <1>1, Zenon DEF AsyncInv, AsyncTypes
<1>3. ThreadsPlaced'
  BY DEF AsyncInv, ThreadsPlaced
<1>4. A!NothingForgotten'
  BY <1>1, Zenon DEF A!NothingForgotten, A!IsInjective, A!ToSet
<1>5. QueuedPending'
  BY <1>1, Zenon DEF QueuedPending, A!ToSet
<1>6. WireApart'
  <2>1. \A id : OpsOf(id)' = {}
    BY <1>1, Zenon DEF OpsOf
  <2> QED BY <2>1, Zenon DEF AsyncInv, WireApart
<1>7. ResultsWhole'
  BY <1>1, Zenon DEF ResultsWhole
<1> QED BY <1>2, <1>3, <1>4, <1>5, <1>6, <1>7, ClientKeeps DEF AsyncInv

LEMMA GetStep ==
  ASSUME AsyncInv, A!GetAsyncOperation,
         UNCHANGED <<wire, back, client, session, calls, starts, ended>>
  PROVE  AsyncInv'
<1> USE DEF A!GetAsyncOperation
<1>1. /\ Tail(queue) \in Seq(A!Operations) /\ Head(queue) \in A!ToSet(queue)
      /\ A!ToSet(Tail(queue)) = A!ToSet(queue) \ {Head(queue)}
      /\ A!IsInjective(Tail(queue))
  BY TailGives DEF AsyncInv, AsyncTypes, A!NothingForgotten
<1>2. Head(queue) \in DOMAIN results /\ Head(queue) \in A!Operations
  BY <1>1 DEF AsyncInv, AsyncTypes, QueuedPending
<1>3. request = A!None
  BY DEF AsyncInv, ThreadsPlaced
<1>4. UNCHANGED <<main, running, methods, alive, results>> /\ queue' = Tail(queue)
      /\ request' = Head(queue) /\ worker' = "call" /\ worker = "get"
  OBVIOUS
<1>5. A!ToSet(queue)' = A!ToSet(queue) \ {Head(queue)}
  BY <1>1, <1>4 DEF A!ToSet
<1>6. A!IsInjective(queue)'
  BY <1>1, <1>4 DEF A!IsInjective
<1> USE <1>4
<1>7. AsyncTypes'
  BY <1>1, <1>2 DEF AsyncInv, AsyncTypes
<1>8. ThreadsPlaced'
  BY DEF AsyncInv, ThreadsPlaced
<1>9. A!NothingForgotten'
  BY <1>3, <1>5, <1>6, NoneIsNoOperation DEF AsyncInv, AsyncTypes, A!NothingForgotten
<1>10. QueuedPending'
  BY <1>5 DEF AsyncInv, QueuedPending
<1>11. WireApart'
  BY <1>2 DEF AsyncInv, WireApart, OpsOf
<1>12. ResultsWhole'
  BY DEF AsyncInv, ResultsWhole, OpsOf
<1> QED BY <1>7, <1>8, <1>9, <1>10, <1>11, <1>12, ClientKeeps DEF AsyncInv

-----------------------------------------------------------------------------
(* The steps of the library.                                               *)

\* A result for one operation leaves every call whole.
LEMMA SettleGives ==
  ASSUME AsyncInv, NEW op, NEW r, results' = A!Settle(op, r), r # A!Pending,
         op \in DOMAIN results => r \in {A!Bad, A!HelloWorld(op)},
         UNCHANGED <<wire, back, calls>>
  PROVE  /\ DOMAIN results' = DOMAIN results
         /\ \A o \in DOMAIN results : o # op => results'[o] = results[o]
         /\ op \in DOMAIN results => results'[op] # A!Pending
         /\ \A o \in DOMAIN results : results'[o] \in {A!Pending, A!Bad, A!HelloWorld(o)}
         /\ ResultsWhole' /\ (UNCHANGED request => WireApart')
         /\ (request' = A!None => WireApart')
<1>1. DOMAIN results' = DOMAIN results
  BY DEF A!Settle
<1>2. /\ \A o \in DOMAIN results : o # op => results'[o] = results[o]
      /\ op \in DOMAIN results => results'[op] \in {r, results[op]} /\ results'[op] # A!Pending
  BY DEF A!Settle
<1>3. \A o \in DOMAIN results : results'[o] \in {A!Pending, A!Bad, A!HelloWorld(o)}
  BY <1>2 DEF AsyncInv, AsyncTypes
<1>4. ResultsWhole'
  BY <1>1 DEF AsyncInv, ResultsWhole, OpsOf
<1>5. UNCHANGED request => WireApart'
  BY <1>1 DEF AsyncInv, WireApart, OpsOf
<1>6. request' = A!None => WireApart'
  BY <1>1 DEF AsyncInv, WireApart, OpsOf
<1> QED BY <1>1, <1>2, <1>3, <1>4, <1>5, <1>6

LEMMA AnswersDiffer == \A op : A!HelloWorld(op) # A!Pending /\ A!Bad # A!Pending
BY DEF A!HelloWorld, A!HelloWorldMethod1, A!HelloWorldMethod2, A!Pending, A!Bad

LEMMA SetResultStep ==
  ASSUME AsyncInv, A!SetAsyncOperationResult,
         UNCHANGED <<wire, back, client, session, calls, starts, ended>>
  PROVE  AsyncInv'
<1>1. /\ UNCHANGED <<main, running, methods, alive, queue>>
      /\ request' = A!None /\ worker = "call" /\ worker' = "loop"
      /\ results' = A!Settle(request, A!HelloWorld(request))
  BY DEF A!SetAsyncOperationResult
<1>2. /\ DOMAIN results' = DOMAIN results
      /\ \A o \in DOMAIN results : o # request => results'[o] = results[o]
      /\ request \in DOMAIN results => results'[request] # A!Pending
      /\ \A o \in DOMAIN results : results'[o] \in {A!Pending, A!Bad, A!HelloWorld(o)}
      /\ ResultsWhole' /\ WireApart'
  BY <1>1, SettleGives, AnswersDiffer
<1>3. AsyncTypes'
  BY <1>1, <1>2 DEF AsyncInv, AsyncTypes
<1>4. ThreadsPlaced'
  BY <1>1 DEF AsyncInv, ThreadsPlaced
<1>5. A!ToSet(queue)' = A!ToSet(queue) /\ A!IsInjective(queue)' = A!IsInjective(queue)
  BY <1>1 DEF A!ToSet, A!IsInjective
<1>6. A!ToSet(queue) \subseteq A!Operations
  BY DEF AsyncInv, AsyncTypes, A!ToSet
<1>7. A!NothingForgotten'
  BY <1>1, <1>2, <1>5, <1>6, NoneIsNoOperation DEF AsyncInv, A!NothingForgotten
<1>8. QueuedPending'
  BY <1>2, <1>5 DEF AsyncInv, QueuedPending, A!NothingForgotten
<1> QED BY <1>2, <1>3, <1>4, <1>7, <1>8, ClientKeeps DEF AsyncInv

LEMMA GiveUpStep ==
  ASSUME AsyncInv, NEW op \in DOMAIN results, A!GiveUp(op)
  PROVE  AsyncInv'
<1>1. /\ UNCHANGED <<main, running, methods, worker, request, alive>>
      /\ UNCHANGED <<wire, back, client, session, calls, starts, ended>>
      /\ results' = A!Settle(op, A!Bad)
  BY DEF A!GiveUp, A!clientVars
<1>2. /\ DOMAIN results' = DOMAIN results
      /\ \A o \in DOMAIN results : o # op => results'[o] = results[o]
      /\ results'[op] # A!Pending
      /\ \A o \in DOMAIN results : results'[o] \in {A!Pending, A!Bad, A!HelloWorld(o)}
      /\ ResultsWhole' /\ WireApart'
  BY <1>1, SettleGives, AnswersDiffer
<1>3. /\ queue' \in Seq(A!Operations) /\ A!IsInjective(queue)'
      /\ A!ToSet(queue)' = A!ToSet(queue) \ {op}
  <2>1. CASE op \notin A!ToSet(queue) /\ UNCHANGED queue
    BY <2>1 DEF AsyncInv, AsyncTypes, A!NothingForgotten, A!ToSet, A!IsInjective
  <2>2. CASE \E i \in DOMAIN queue : queue[i] = op /\ queue' = A!RemoveAt(queue, i)
    <3>1. PICK i \in DOMAIN queue : queue[i] = op /\ queue' = A!RemoveAt(queue, i)
      BY <2>2
    <3>2. /\ A!RemoveAt(queue, i) \in Seq(A!Operations)
          /\ A!ToSet(A!RemoveAt(queue, i)) = A!ToSet(queue) \ {queue[i]}
          /\ A!IsInjective(A!RemoveAt(queue, i))
      BY RemoveAtGives DEF AsyncInv, AsyncTypes, A!NothingForgotten
    <3>3. A!ToSet(queue)' = A!ToSet(A!RemoveAt(queue, i))
      BY <3>1 DEF A!ToSet
    <3>4. A!IsInjective(queue)' = A!IsInjective(A!RemoveAt(queue, i))
      BY <3>1 DEF A!IsInjective
    <3> QED BY <3>1, <3>2, <3>3, <3>4
  <2> QED BY <2>1, <2>2 DEF A!GiveUp
<1>4. AsyncTypes'
  BY <1>1, <1>2, <1>3 DEF AsyncInv, AsyncTypes
<1>5. ThreadsPlaced'
  BY <1>1 DEF AsyncInv, ThreadsPlaced
<1>6. A!NothingForgotten'
  BY <1>1, <1>2, <1>3 DEF AsyncInv, A!NothingForgotten
<1>7. QueuedPending'
  BY <1>2, <1>3 DEF AsyncInv, QueuedPending
<1> QED BY <1>1, <1>2, <1>4, <1>5, <1>6, <1>7, ClientKeeps DEF AsyncInv

LEMMA AcceptStep ==
  ASSUME AsyncInv, NEW c \in wire, A!Accept(c)
  PROVE  AsyncInv'
<1>1. PICK id \in A!Ids, b \in Bodies : c = Call(id, b)
  BY DEF AsyncInv, WireApart
<1>2. /\ UNCHANGED <<main, running, methods, worker, request, alive>>
      /\ UNCHANGED <<back, client, session, calls, starts, ended>>
      /\ wire' = wire \ {c}
  BY DEF A!Accept, A!clientVars
<1>3. c.id = id /\ c.items = b
  BY <1>1 DEF Call
<1> DEFINE ops == A!Ops(Call(id, b))
           more == [i \in DOMAIN b |-> A!Op(Call(id, b), i)]
<1>4. /\ results' = [op \in DOMAIN results \cup ops |->
                       IF op \in ops THEN A!Pending ELSE results[op]]
      /\ queue' = queue \o more
  BY <1>1, OperationsOfCall DEF A!Accept
<1>5. /\ ops \subseteq A!Operations /\ \A op \in ops : op.id = id
      /\ \A i \in DOMAIN b : more[i] \in ops
      /\ \A op \in ops : \E i \in DOMAIN b : op = more[i]
      /\ \A i, j \in DOMAIN b : more[i] = more[j] => i = j
  BY OperationsOfCall
<1>6. DOMAIN b = 1 .. Len(b) /\ Len(b) \in Nat
  BY BodyForm
<1>7. more \in Seq(ops) /\ DOMAIN more = DOMAIN b
  BY <1>5, <1>6
<1>8. OpsOf(id) = {}
  BY <1>3 DEF AsyncInv, WireApart
<1> HIDE DEF more, ops
<1>9. ops \cap DOMAIN results = {}
  BY <1>5, <1>8 DEF OpsOf
<1>10. /\ queue' \in Seq(A!Operations)
       /\ A!ToSet(queue)' = A!ToSet(queue) \cup ops
       /\ A!IsInjective(queue)'
  <2>1. /\ queue \in Seq(A!Operations) /\ more \in Seq(A!Operations)
        /\ A!ToSet(queue) \subseteq DOMAIN results
        /\ \A i, j \in DOMAIN queue : queue[i] = queue[j] => i = j
    <3>1. \A i, j \in DOMAIN queue : queue[i] = queue[j] => i = j
      BY DEF AsyncInv, A!NothingForgotten, A!IsInjective
    <3>2. A!ToSet(queue) \subseteq DOMAIN results
      BY DEF AsyncInv, QueuedPending
    <3> QED BY <3>1, <3>2, <1>5, <1>7 DEF AsyncInv, AsyncTypes
  <2>2. /\ queue' \in Seq(A!Operations) /\ DOMAIN queue' = 1 .. Len(queue) + Len(more)
        /\ \A i \in DOMAIN queue' : queue'[i] = IF i <= Len(queue) THEN queue[i]
                                                ELSE more[i - Len(queue)]
    BY <1>4, <2>1, ConcatProperties
  <2>3. /\ DOMAIN queue = 1 .. Len(queue) /\ DOMAIN more = 1 .. Len(more)
        /\ Len(queue) \in Nat /\ Len(more) \in Nat
    BY <2>1
  <2>4. \A i \in DOMAIN queue : i \in DOMAIN queue' /\ queue'[i] = queue[i]
    BY <2>2, <2>3
  <2>5. \A i \in DOMAIN more :
           i + Len(queue) \in DOMAIN queue' /\ queue'[i + Len(queue)] = more[i]
    BY <2>2, <2>3
  <2>6. \A i \in DOMAIN queue' \ DOMAIN queue :
           i - Len(queue) \in DOMAIN more /\ queue'[i] = more[i - Len(queue)]
    BY <2>2, <2>3
  <2>7. A!ToSet(queue)' = A!ToSet(queue) \cup ops
    <3>1. ASSUME NEW i \in DOMAIN queue' PROVE queue'[i] \in A!ToSet(queue) \cup ops
      BY <2>4, <2>6, <1>5, <1>7 DEF A!ToSet
    <3>2. ASSUME NEW op \in A!ToSet(queue) PROVE \E i \in DOMAIN queue' : queue'[i] = op
      BY <2>4 DEF A!ToSet
    <3>3. ASSUME NEW op \in ops PROVE \E i \in DOMAIN queue' : queue'[i] = op
      BY <2>5, <1>5, <1>7
    <3> QED BY <3>1, <3>2, <3>3 DEF A!ToSet
  <2>8. ASSUME NEW i \in DOMAIN queue', NEW j \in DOMAIN queue', queue'[i] = queue'[j]
        PROVE  i = j
    <3>1. CASE i \in DOMAIN queue /\ j \in DOMAIN queue
      BY <3>1, <2>1, <2>4, <2>8
    <3>2. CASE i \notin DOMAIN queue /\ j \notin DOMAIN queue
      <4>1. i - Len(queue) = j - Len(queue)
        BY <3>2, <2>6, <2>8, <1>5, <1>7
      <4> QED BY <4>1, <2>2, <2>3
    <3>3. \A k \in DOMAIN queue, l \in DOMAIN queue' \ DOMAIN queue : queue'[k] # queue'[l]
      <4>1. \A k \in DOMAIN queue : queue'[k] \in DOMAIN results
        BY <2>1, <2>4 DEF A!ToSet
      <4>2. \A l \in DOMAIN queue' \ DOMAIN queue : queue'[l] \in ops
        BY <2>6, <1>5, <1>7
      <4> QED BY <4>1, <4>2, <1>9
    <3> QED BY <3>1, <3>2, <3>3, <2>8
  <2> QED BY <2>2, <2>7, <2>8 DEF A!IsInjective
<1>11. /\ DOMAIN results' = DOMAIN results \cup ops
       /\ \A op \in ops : results'[op] = A!Pending
       /\ \A op \in DOMAIN results : results'[op] = results[op]
  BY <1>4, <1>9
<1>12. AsyncTypes'
  BY <1>2, <1>5, <1>10, <1>11 DEF AsyncInv, AsyncTypes
<1>13. ThreadsPlaced'
  BY <1>2 DEF AsyncInv, ThreadsPlaced
<1>14. request \notin ops
  <2>1. request # A!None => request.id # id
    BY <1>3 DEF AsyncInv, WireApart
  <2> QED BY <2>1, <1>5, NoneIsNoOperation
<1>15. A!NothingForgotten'
  BY <1>2, <1>10, <1>11, <1>14 DEF AsyncInv, A!NothingForgotten
<1>16. QueuedPending'
  BY <1>10, <1>11 DEF AsyncInv, QueuedPending
<1>17. /\ \A i : i # id => OpsOf(i)' = OpsOf(i)
       /\ OpsOf(id)' = ops
  BY <1>5, <1>8, <1>11 DEF OpsOf
<1>18. WireApart'
  BY <1>2, <1>3, <1>17 DEF AsyncInv, WireApart
<1>19. ResultsWhole'
  <2>1. ASSUME NEW op \in DOMAIN results
        PROVE  /\ \A r \in back' : r.id # op.id
               /\ \E d \in Bodies : /\ OpsOf(op.id)' = A!Ops(Call(op.id, d))
                                    /\ op.id \in DOMAIN calls' => calls'[op.id] = d
    <3>1. op.id # id
      BY <1>8 DEF OpsOf
    <3> QED BY <3>1, <1>2, <1>17 DEF AsyncInv, ResultsWhole
  <2>2. ASSUME NEW op \in ops
        PROVE  /\ \A r \in back' : r.id # op.id
               /\ \E d \in Bodies : /\ OpsOf(op.id)' = A!Ops(Call(op.id, d))
                                    /\ op.id \in DOMAIN calls' => calls'[op.id] = d
    <3>1. op.id = id /\ OpsOf(id)' = A!Ops(Call(id, b))
      BY <1>5, <1>17 DEF ops
    <3>2. \A r \in back' : r.id # id
      BY <1>2, <1>3 DEF AsyncInv, WireApart
    <3>3. id \in DOMAIN calls' => calls'[id] = b
      BY <1>2, <1>3 DEF AsyncInv, WireApart
    <3> QED BY <3>1, <3>2, <3>3
  <2> QED BY <2>1, <2>2, <1>11 DEF ResultsWhole
<1>20. A!OwnResults' /\ SessionCounts' /\ A!ChainsAccounted'
  <2>1. A!OwnResults'
    BY <1>2 DEF AsyncInv, A!OwnResults, A!Waiting
  <2>2. SessionCounts'
    BY <1>2 DEF AsyncInv, SessionCounts
  <2>3. A!ChainsAccounted'
    BY <1>2 DEF AsyncInv, A!ChainsAccounted
  <2> QED BY <2>1, <2>2, <2>3
<1> QED BY <1>12, <1>13, <1>15, <1>16, <1>18, <1>19, <1>20 DEF AsyncInv

LEMMA AnswerStep ==
  ASSUME AsyncInv, NEW id \in A!Ids, A!Answer(id)
  PROVE  AsyncInv'
<1> DEFINE result(i) == results[CHOOSE op \in OpsOf(id) : op.item = i]
           answer == [id |-> id, results |-> [i \in {op.item : op \in OpsOf(id)} |-> result(i)]]
<1>1. /\ UNCHANGED <<main, running, methods, worker, request, alive, queue, wire>>
      /\ UNCHANGED <<client, session, calls, starts, ended>>
      /\ OpsOf(id) # {} /\ \A op \in OpsOf(id) : results[op] # A!Pending
      /\ results' = [op \in DOMAIN results \ OpsOf(id) |-> results[op]]
  BY DEF A!Answer, A!clientVars, OpsOf
<1>2. back' = back \cup {answer}
  BY Zenon DEF A!Answer, OpsOf
<1>3. PICK b \in Bodies : /\ OpsOf(id) = A!Ops(Call(id, b))
                          /\ id \in DOMAIN calls => calls[id] = b
  <2>1. PICK op \in OpsOf(id) : TRUE
    BY <1>1
  <2>2. op.id = id /\ op \in DOMAIN results
    BY DEF OpsOf
  <2> QED BY <2>2 DEF AsyncInv, ResultsWhole
<1>4. /\ DOMAIN b = 1 .. Len(b) /\ Len(b) \in Nat
      /\ \A i \in DOMAIN b : b[i].method \in A!Methods
  BY BodyForm, Zenon
<1>5. ASSUME NEW i \in DOMAIN b
      PROVE  \/ result(i) = A!Bad
             \/ result(i).by = b[i].method /\ result(i).of = b[i].input
  <2> DEFINE op == CHOOSE o \in OpsOf(id) : o.item = i
  <2>1. op \in OpsOf(id) /\ op.item = i
    <3>1. \E o \in OpsOf(id) : o.item = i
      BY <1>3, OperationsOfCall
    <3> QED BY <3>1
  <2>2. result(i) = results[op]
    OBVIOUS
  <2> HIDE DEF op, result
  <2>3. op.method = b[i].method /\ op.input = b[i].input
    BY <2>1, <1>3, OperationsOfCall
  <2>4. results[op] \in {A!Bad, A!HelloWorld(op)}
    BY <2>1, <1>1 DEF OpsOf, AsyncInv, AsyncTypes
  <2>5. b[i].method \in A!Methods
    BY <1>4
  <2>6. A!HelloWorld(op).by = op.method /\ A!HelloWorld(op).of = op.input
    BY <2>3, <2>5 DEF A!HelloWorld, A!HelloWorldMethod1, A!HelloWorldMethod2, A!Methods
  <2> QED BY <2>2, <2>3, <2>4, <2>6
<1>6. {op.item : op \in OpsOf(id)} = DOMAIN b
  <2>1. ASSUME NEW op \in OpsOf(id) PROVE op.item \in DOMAIN b
    BY <1>3, OperationsOfCall
  <2>2. ASSUME NEW i \in DOMAIN b PROVE \E op \in OpsOf(id) : i = op.item
    BY <1>3, OperationsOfCall
  <2> QED BY <2>1, <2>2
<1>7. /\ answer.id = id /\ Len(answer.results) = Len(b)
      /\ \A i \in DOMAIN b : answer.results[i] = result(i)
  <2>1. answer.id = id /\ answer.results = [i \in DOMAIN b |-> result(i)]
    BY <1>6
  <2> HIDE DEF answer, result
  <2> QED BY <2>1, <1>4
<1> HIDE DEF answer, result
<1>8. /\ DOMAIN results' = DOMAIN results \ OpsOf(id)
      /\ \A op \in DOMAIN results' : results'[op] = results[op]
  BY <1>1
<1>9. AsyncTypes'
  BY <1>1, <1>8 DEF AsyncInv, AsyncTypes
<1>10. ThreadsPlaced'
  BY <1>1 DEF AsyncInv, ThreadsPlaced
<1>11. A!ToSet(queue)' = A!ToSet(queue) /\ A!IsInjective(queue)' = A!IsInjective(queue)
  BY <1>1 DEF A!ToSet, A!IsInjective
<1>12. A!NothingForgotten'
  BY <1>1, <1>8, <1>11 DEF AsyncInv, A!NothingForgotten
<1>13. QueuedPending'
  BY <1>1, <1>8, <1>11 DEF AsyncInv, QueuedPending
<1>14. /\ \A i : i # id => OpsOf(i)' = OpsOf(i)
       /\ OpsOf(id)' = {}
  BY <1>8 DEF OpsOf
<1>15. WireApart'
  <2>1. \A c \in wire : c.id # id
    BY <1>1 DEF AsyncInv, WireApart
  <2> QED BY <2>1, <1>1, <1>2, <1>7, <1>14 DEF AsyncInv, WireApart
<1>16. ResultsWhole'
  <2>1. ASSUME NEW op \in DOMAIN results' PROVE op \in DOMAIN results /\ op.id # id
    BY <1>8 DEF OpsOf
  <2> QED BY <2>1, <1>1, <1>2, <1>7, <1>14 DEF AsyncInv, ResultsWhole
<1>17. A!OwnResults'
  <2> SUFFICES ASSUME NEW r \in back', NEW i \in DOMAIN calls, r.id = i
               PROVE  /\ Len(r.results) = Len(calls[i])
                      /\ \A k \in DOMAIN calls[i] :
                            \/ r.results[k] = A!Bad
                            \/ /\ r.results[k].by = calls[i][k].method
                               /\ r.results[k].of = calls[i][k].input
    BY <1>1 DEF A!OwnResults, A!Waiting, A!Items
  <2>1. CASE r \in back
    <3> DEFINE c == [id |-> i, items |-> calls[i]]
    <3>1. c \in A!Waiting /\ c.id = r.id /\ c.items = calls[i]
      BY DEF A!Waiting
    <3> HIDE DEF c
    <3>2. /\ Len(r.results) = Len(c.items)
          /\ \A k \in DOMAIN c.items :
                \/ r.results[k] = A!Bad
                \/ /\ r.results[k].by = c.items[k].method
                   /\ r.results[k].of = c.items[k].input
      BY <2>1, <3>1 DEF AsyncInv, A!OwnResults, A!Items
    <3> QED BY <3>1, <3>2
  <2>2. CASE r = answer
    BY <2>2, <1>3, <1>5, <1>7
  <2> QED BY <2>1, <2>2, <1>2
<1>18. SessionCounts'
  BY <1>1 DEF AsyncInv, SessionCounts
<1>19. A!ChainsAccounted'
  BY <1>1 DEF AsyncInv, A!ChainsAccounted
<1> QED BY <1>9, <1>10, <1>12, <1>13, <1>15, <1>16, <1>17, <1>18, <1>19 DEF AsyncInv

-----------------------------------------------------------------------------
(* The steps of the client.                                                *)

\* What the client's steps leave alone.
LEMMA ServerKeeps ==
  ASSUME AsyncInv, UNCHANGED A!serverVars, session' \in BOOLEAN, DOMAIN calls' \subseteq A!Ids,
         \A i \in DOMAIN calls' : calls'[i] \in Bodies
  PROVE  AsyncTypes' /\ ThreadsPlaced' /\ A!NothingForgotten' /\ QueuedPending'
<1> USE DEF A!serverVars
<1>1. AsyncTypes'
  BY Zenon DEF AsyncInv, AsyncTypes
<1>2. ThreadsPlaced'
  BY DEF AsyncInv, ThreadsPlaced
<1>3. A!NothingForgotten'
  BY DEF AsyncInv, A!NothingForgotten
<1>4. QueuedPending'
  BY DEF AsyncInv, QueuedPending
<1> QED BY <1>1, <1>2, <1>3, <1>4

\* Less under way and less to wait for disturbs nothing.
LEMMA DropKeeps ==
  ASSUME AsyncInv, UNCHANGED <<request, results>>,
         wire' \subseteq wire, back' \subseteq back, DOMAIN calls' \subseteq DOMAIN calls,
         \A i \in DOMAIN calls' : calls'[i] = calls[i]
  PROVE  /\ WireApart' /\ ResultsWhole' /\ A!OwnResults' /\ DOMAIN calls' \subseteq A!Ids
         /\ \A i \in DOMAIN calls' : calls'[i] \in Bodies
<1>1. \A i : OpsOf(i)' = OpsOf(i)
  BY DEF OpsOf
<1>2. WireApart'
  BY <1>1 DEF AsyncInv, WireApart
<1>3. ResultsWhole'
  BY <1>1 DEF AsyncInv, ResultsWhole
<1>4. A!OwnResults'
  BY DEF AsyncInv, A!OwnResults, A!Waiting, A!Items
<1>5. /\ DOMAIN calls' \subseteq A!Ids
      /\ \A i \in DOMAIN calls' : calls'[i] \in Bodies
  BY DEF AsyncInv, AsyncTypes
<1> QED BY <1>2, <1>3, <1>4, <1>5

\* Calls under free ids disturb nothing.
LEMMA SendKeeps ==
  ASSUME AsyncInv, UNCHANGED <<request, results>>, back' \subseteq back,
         NEW kept, kept \subseteq DOMAIN calls,
         NEW lists, \A k \in DOMAIN lists : lists[k] \in Bodies,
         NEW gone, gone \subseteq DOMAIN lists, A!Send(kept, lists, gone)
  PROVE  /\ WireApart' /\ ResultsWhole' /\ A!OwnResults' /\ DOMAIN calls' \subseteq A!Ids
         /\ \A i \in DOMAIN calls' : calls'[i] \in Bodies
<1>1. PICK id \in [DOMAIN lists -> A!Free] :
            /\ \A j, k \in DOMAIN lists : id[j] = id[k] => j = k
            /\ calls' = [i \in kept \cup {id[k] : k \in gone} |->
                           IF i \in kept THEN calls[i]
                           ELSE lists[CHOOSE k \in gone : id[k] = i]]
            /\ wire' = wire \cup {[id |-> id[k], items |-> lists[k]] : k \in gone}
            /\ ended' = ended + Cardinality(DOMAIN lists \ gone)
  BY SendGives
<1>2. ASSUME NEW k \in gone
      PROVE  /\ id[k] \in A!Ids /\ id[k] \notin DOMAIN calls /\ OpsOf(id[k]) = {}
             /\ \A c \in wire : c.id # id[k]
             /\ \A r \in back : r.id # id[k]
             /\ request # A!None => request.id # id[k]
  <2>1. id[k] \in A!Free
    BY <1>1
  <2> QED BY <2>1, FreeIsFree
<1>3. ASSUME NEW k \in gone PROVE id[k] \in DOMAIN calls' /\ calls'[id[k]] = lists[k]
  <2>1. (CHOOSE j \in gone : id[j] = id[k]) = k
    BY <1>1
  <2>2. id[k] \notin kept
    BY <1>2
  <2> QED BY <2>1, <2>2, <1>1
<1>4. \A i \in kept : i \in DOMAIN calls' /\ calls'[i] = calls[i]
  BY <1>1
<1>5. DOMAIN calls' = kept \cup {id[k] : k \in gone}
  BY <1>1
<1>6. wire' = wire \cup {Call(id[k], lists[k]) : k \in gone}
  BY <1>1 DEF Call
<1>7. \A i : OpsOf(i)' = OpsOf(i)
  BY DEF OpsOf
<1>8. /\ DOMAIN calls' \subseteq A!Ids
      /\ \A i \in DOMAIN calls' : calls'[i] \in Bodies
  BY <1>2, <1>3, <1>4, <1>5 DEF AsyncInv, AsyncTypes
<1>9. \A k \in gone : Call(id[k], lists[k]).id = id[k] /\ Call(id[k], lists[k]).items = lists[k]
  BY DEF Call
<1>10. WireApart'
  <2>1. \A c \in wire' : \E i \in A!Ids, b \in Bodies : c = Call(i, b)
    BY <1>2, <1>6 DEF AsyncInv, WireApart
  <2>2. \A c, d \in wire' : c.id = d.id => c = d
    <3>1. \A c, d \in wire : c.id = d.id => c = d
      BY DEF AsyncInv, WireApart
    <3>2. \A c \in wire, k \in gone : c.id # Call(id[k], lists[k]).id
      BY <1>2, <1>9
    <3>3. \A j, k \in gone : Call(id[j], lists[j]).id = Call(id[k], lists[k]).id => j = k
      BY <1>1, <1>9
    <3> QED BY <3>1, <3>2, <3>3, <1>6
  <2>3. \A c \in wire' : /\ OpsOf(c.id)' = {}
                         /\ request' # A!None => request'.id # c.id
                         /\ \A r \in back' : r.id # c.id
    <3>1. ASSUME NEW c \in wire
          PROVE  /\ OpsOf(c.id)' = {}
                 /\ request' # A!None => request'.id # c.id
                 /\ \A r \in back' : r.id # c.id
      BY <1>7 DEF AsyncInv, WireApart
    <3>2. ASSUME NEW k \in gone
          PROVE  /\ OpsOf(id[k])' = {}
                 /\ request' # A!None => request'.id # id[k]
                 /\ \A r \in back' : r.id # id[k]
      BY <1>2, <1>7
    <3> QED BY <3>1, <3>2, <1>6, <1>9, Zenon
  <2>4. \A c \in wire' : c.id \in DOMAIN calls' => calls'[c.id] = c.items
    <3>1. ASSUME NEW c \in wire, c.id \in DOMAIN calls' PROVE calls'[c.id] = c.items
      <4>1. c.id \in kept
        BY <3>1, <1>2, <1>5
      <4> QED BY <4>1, <1>4 DEF AsyncInv, WireApart
    <3> QED BY <3>1, <1>3, <1>6, <1>9
  <2> QED BY <2>1, <2>2, <2>3, <2>4 DEF WireApart
<1>11. ResultsWhole'
  <2>1. ASSUME NEW op \in DOMAIN results, op.id \in DOMAIN calls'
        PROVE  op.id \in DOMAIN calls /\ calls'[op.id] = calls[op.id]
    <3>1. op \in OpsOf(op.id)
      BY DEF OpsOf
    <3>2. op.id \in kept
      BY <3>1, <2>1, <1>2, <1>5
    <3> QED BY <3>2, <1>4
  <2> QED BY <2>1, <1>7 DEF AsyncInv, ResultsWhole
<1>12. A!OwnResults'
  <2>1. ASSUME NEW r \in back, NEW i \in DOMAIN calls', r.id = i
        PROVE  i \in DOMAIN calls /\ calls'[i] = calls[i]
    BY <2>1, <1>2, <1>4, <1>5
  <2>2. \A c \in A!Waiting', r \in back' : c.id = r.id => c \in A!Waiting
    BY <2>1 DEF A!Waiting
  <2> QED BY <2>2 DEF AsyncInv, A!OwnResults
<1> QED BY <1>8, <1>10, <1>11, <1>12

\* A session that is activated starts two chains.
LEMMA ActivationStep ==
  ASSUME AsyncInv, ~session, starts < Starts, client' = "loop",
         UNCHANGED <<A!serverVars, back>>,
         NEW subscribed \in BOOLEAN, A!StateCallback(subscribed)
  PROVE  AsyncInv'
<1>1. session' = TRUE /\ starts' = starts + 1 /\ UNCHANGED <<request, results, back>>
  BY Zenon DEF A!StateCallback, A!serverVars
<1>2. /\ DOMAIN calls = {} /\ starts \in Nat /\ starts' \in 0 .. Starts
      /\ ended \in Nat /\ ended = 2 * starts
  <2>1. DOMAIN calls = {} /\ starts \in Nat /\ starts' \in 0 .. Starts /\ ended \in Nat
    BY <1>1, ExamplesAssumption DEF AsyncInv, SessionCounts
  <2>2. Cardinality(DOMAIN calls) = 0
    BY <2>1, FS_EmptySet
  <2> QED BY <2>1, <2>2, SameCardinality DEF AsyncInv, A!ChainsAccounted
<1>3. /\ WireApart' /\ ResultsWhole' /\ A!OwnResults' /\ DOMAIN calls' \subseteq A!Ids
      /\ \A i \in DOMAIN calls' : calls'[i] \in Bodies
      /\ ended' \in Nat /\ Cardinality(DOMAIN calls') + ended' = ended + 2
  <2>1. CASE subscribed
    <3> DEFINE lists == <<A!Single(A!Hello1, "World 1"), A!Single(A!Hello2, "World 2")>>
    <3>1. PICK gone \in SUBSET {1, 2} : A!Send({}, lists, gone)
      BY <2>1, Zenon DEF A!StateCallback
    <3>2. DOMAIN lists = {1, 2} /\ \A k \in DOMAIN lists : lists[k] \in Bodies
      <4>1. DOMAIN lists = {1, 2}
        OBVIOUS
      <4>2. lists[1] \in Bodies /\ lists[2] \in Bodies
        BY Zenon DEF Bodies
      <4> QED BY <4>1, <4>2, Zenon
    <3> HIDE DEF lists
    <3>3. /\ WireApart' /\ ResultsWhole' /\ A!OwnResults' /\ DOMAIN calls' \subseteq A!Ids
          /\ \A i \in DOMAIN calls' : calls'[i] \in Bodies
      BY <1>1, <3>1, <3>2, SendKeeps
    <3>4. IsFiniteSet({1, 2}) /\ Cardinality({1, 2}) = 2 /\ Cardinality({}) = 0
      <4>1. IsFiniteSet({1}) /\ Cardinality({1}) = 1
        BY FS_Singleton
      <4>2. {1} \cup {2} = {1, 2} /\ 2 \notin {1}
        OBVIOUS
      <4>3. IsFiniteSet({1} \cup {2}) /\ Cardinality({1} \cup {2}) = 1 + 1
        BY <4>1, <4>2, FS_AddElement
      <4> QED BY <4>2, <4>3, FS_EmptySet
    <3>5. /\ ended' \in Nat
          /\ Cardinality(DOMAIN calls') + ended' = Cardinality({}) + ended + 2
      <4>1. {} \subseteq A!Ids /\ {} \subseteq DOMAIN calls /\ gone \subseteq DOMAIN lists
        BY <3>2
      <4>2. /\ ended' \in Nat
            /\ Cardinality(DOMAIN calls') + ended'
                 = Cardinality({}) + ended + Cardinality(DOMAIN lists)
        BY <4>1, <1>2, <3>1, <3>2, <3>4, SendCounts, Zenon
      <4> QED BY <4>2, <3>2, <3>4
    <3> QED BY <1>2, <3>3, <3>4, <3>5
  <2>2. CASE ~subscribed
    <3>1. UNCHANGED <<calls, wire>> /\ ended' = ended + 2
      BY <2>2 DEF A!StateCallback
    <3>2. Cardinality(DOMAIN calls') = 0
      BY <3>1, <1>2, FS_EmptySet
    <3> QED BY <1>1, <1>2, <3>1, <3>2, DropKeeps
  <2> QED BY <2>1, <2>2
<1>4. AsyncTypes' /\ ThreadsPlaced' /\ A!NothingForgotten' /\ QueuedPending'
  <2>1. UNCHANGED A!serverVars /\ session' \in BOOLEAN
    BY <1>1 DEF A!serverVars
  <2> QED BY <2>1, <1>3, ServerKeeps
<1>5. SessionCounts'
  BY <1>1, <1>2, <1>3 DEF SessionCounts
<1>6. A!ChainsAccounted'
  <2>1. Cardinality(DOMAIN calls') + ended' = 2 * starts'
    BY <1>1, <1>2, <1>3
  <2> QED BY <2>1, SameCardinality DEF A!ChainsAccounted
<1> QED BY <1>3, <1>4, <1>5, <1>6 DEF AsyncInv

\* A call that is no longer waited for is one less, and one more has ended.
LEMMA CallEnds ==
  ASSUME AsyncInv, NEW id \in DOMAIN calls
  PROVE  /\ Cardinality(DOMAIN calls \ {id}) = Cardinality(DOMAIN calls) - 1
         /\ Cardinality(DOMAIN calls) \in Nat /\ Cardinality(DOMAIN calls \ {id}) \in Nat
         /\ ended \in Nat /\ starts \in Nat /\ Cardinality(DOMAIN calls) + ended = 2 * starts
<1>1. IsFiniteSet(DOMAIN calls)
  BY IdsFinite, FS_Subset DEF AsyncInv, AsyncTypes
<1>2. ended \in Nat /\ starts \in Nat
  BY ExamplesAssumption DEF AsyncInv, SessionCounts
<1>3. Cardinality(DOMAIN calls) + ended = 2 * starts
  BY SameCardinality DEF AsyncInv, A!ChainsAccounted
<1>4. IsFiniteSet(DOMAIN calls \ {id})
  BY <1>1, FS_RemoveElement
<1> QED BY <1>1, <1>2, <1>3, <1>4, FS_RemoveElement, FS_CardinalityType

\* The answer of a call starts the next one, or ends its chain.
LEMMA ReceiveStep ==
  ASSUME AsyncInv, NEW r \in back, A!Receive(r)
  PROVE  AsyncInv'
<1>1. /\ UNCHANGED <<A!serverVars, client, session, starts>> /\ client = "loop"
      /\ back' = back \ {r}
  BY DEF A!Receive
<1>2. UNCHANGED <<request, results>>
  BY <1>1 DEF A!serverVars
<1>3. /\ WireApart' /\ ResultsWhole' /\ A!OwnResults' /\ DOMAIN calls' \subseteq A!Ids
      /\ \A i \in DOMAIN calls' : calls'[i] \in Bodies
      /\ ended' \in Nat /\ Cardinality(DOMAIN calls') + ended' = 2 * starts
      /\ ~session => DOMAIN calls' = {}
  <2>1. CASE session /\ r.id \in DOMAIN calls
    <3> DEFINE kept == DOMAIN calls \ {r.id}
               lists == A!NextCall(r.results)
    <3>1. PICK gone \in SUBSET DOMAIN lists : A!Send(kept, lists, gone)
      BY <2>1 DEF A!Receive, A!MethodCalled
    <3>2. DOMAIN lists = {1} /\ \A k \in DOMAIN lists : lists[k] \in Bodies
      <4>1. DOMAIN lists = {1} /\ lists[1] = A!Multi
        BY DEF A!NextCall
      <4> QED BY <4>1, Zenon DEF Bodies
    <3>3. kept \subseteq DOMAIN calls /\ kept \subseteq A!Ids
      BY DEF AsyncInv, AsyncTypes
    <3>4. IsFiniteSet({1}) /\ Cardinality({1}) = 1
      BY FS_Singleton
    <3>5. Cardinality(kept) = Cardinality(DOMAIN calls) - 1 /\ Cardinality(kept) \in Nat
      BY <2>1, CallEnds
    <3> HIDE DEF lists, kept
    <3>6. /\ WireApart' /\ ResultsWhole' /\ A!OwnResults' /\ DOMAIN calls' \subseteq A!Ids
          /\ \A i \in DOMAIN calls' : calls'[i] \in Bodies
      <4>1. back' \subseteq back
        BY <1>1
      <4> QED BY <4>1, <1>2, <3>1, <3>2, <3>3, SendKeeps
    <3>7. /\ ended' \in Nat
          /\ Cardinality(DOMAIN calls') + ended' = Cardinality(kept) + ended + 1
      <4>1. ended \in Nat
        BY <2>1, CallEnds
      <4> QED BY <4>1, <3>1, <3>2, <3>3, <3>4, SendCounts
    <3>8. Cardinality(kept) + ended + 1 = 2 * starts
      <4>1. /\ Cardinality(DOMAIN calls) \in Nat /\ ended \in Nat /\ starts \in Nat
            /\ Cardinality(DOMAIN calls) + ended = 2 * starts
        BY <2>1, CallEnds
      <4> QED BY <3>5, <4>1
    <3> QED BY <2>1, <3>6, <3>7, <3>8
  <2>2. CASE ~(session /\ r.id \in DOMAIN calls)
    <3>1. UNCHANGED <<calls, ended, wire>>
      BY <2>2 DEF A!Receive
    <3>2. /\ ended' \in Nat /\ Cardinality(DOMAIN calls') + ended' = 2 * starts
          /\ ~session => DOMAIN calls' = {}
      BY <3>1, SameCardinality DEF AsyncInv, SessionCounts, A!ChainsAccounted
    <3> QED BY <1>1, <1>2, <3>1, <3>2, DropKeeps
  <2> QED BY <2>1, <2>2
<1>4. AsyncTypes' /\ ThreadsPlaced' /\ A!NothingForgotten' /\ QueuedPending'
  <2>1. session' \in BOOLEAN
    BY <1>1 DEF AsyncInv, AsyncTypes
  <2> QED BY <2>1, <1>1, <1>3, ServerKeeps
<1>5. SessionCounts'
  BY <1>1, <1>3 DEF AsyncInv, SessionCounts
<1>6. A!ChainsAccounted'
  BY <1>1, <1>3, SameCardinality DEF A!ChainsAccounted
<1> QED BY <1>3, <1>4, <1>5, <1>6 DEF AsyncInv

LEMMA TimeoutStep ==
  ASSUME AsyncInv, NEW id \in DOMAIN calls, A!Timeout(id)
  PROVE  AsyncInv'
<1>1. /\ UNCHANGED <<A!serverVars, back, client, session, starts, wire>> /\ client = "loop"
      /\ calls' = [i \in DOMAIN calls \ {id} |-> calls[i]] /\ ended' = ended + 1
  BY DEF A!Timeout, A!MethodCalled
<1>2. UNCHANGED <<request, results>>
  BY <1>1 DEF A!serverVars
<1>3. /\ DOMAIN calls' = DOMAIN calls \ {id} /\ \A i \in DOMAIN calls' : calls'[i] = calls[i]
  BY <1>1
<1>4. /\ WireApart' /\ ResultsWhole' /\ A!OwnResults' /\ DOMAIN calls' \subseteq A!Ids
      /\ \A i \in DOMAIN calls' : calls'[i] \in Bodies
  BY <1>1, <1>2, <1>3, DropKeeps
<1>5. AsyncTypes' /\ ThreadsPlaced' /\ A!NothingForgotten' /\ QueuedPending'
  <2>1. session' \in BOOLEAN
    BY <1>1 DEF AsyncInv, AsyncTypes
  <2> QED BY <2>1, <1>1, <1>4, ServerKeeps
<1>6. SessionCounts'
  BY <1>1, <1>3 DEF AsyncInv, SessionCounts
<1>7. A!ChainsAccounted'
  <2>1. Cardinality(DOMAIN calls') + ended' = 2 * starts'
    BY <1>1, <1>3, CallEnds
  <2> QED BY <2>1, SameCardinality DEF A!ChainsAccounted
<1> QED BY <1>4, <1>5, <1>6, <1>7 DEF AsyncInv

\* A session that is lost or closed ends every chain.
LEMMA EndStep ==
  ASSUME AsyncInv, A!LoseSession \/ A!Stop
  PROVE  AsyncInv'
<1>1. /\ UNCHANGED <<A!serverVars, starts>> /\ client' \in {"loop", "done"} /\ session' = FALSE
      /\ ended' = ended + Cardinality(DOMAIN calls)
      /\ calls' = <<>> /\ wire' = {} /\ back' = {}
  BY SameCardinality DEF A!LoseSession, A!Stop
<1>2. UNCHANGED <<request, results>>
  BY <1>1 DEF A!serverVars
<1>3. DOMAIN calls' = {} /\ Cardinality(DOMAIN calls') = 0
  BY <1>1, FS_EmptySet
<1>4. /\ WireApart' /\ ResultsWhole' /\ A!OwnResults' /\ DOMAIN calls' \subseteq A!Ids
      /\ \A i \in DOMAIN calls' : calls'[i] \in Bodies
  BY <1>1, <1>2, <1>3, DropKeeps
<1>5. AsyncTypes' /\ ThreadsPlaced' /\ A!NothingForgotten' /\ QueuedPending'
  <2>1. session' \in BOOLEAN
    BY <1>1
  <2> QED BY <2>1, <1>1, <1>4, ServerKeeps
<1>6. /\ Cardinality(DOMAIN calls) \in Nat /\ ended \in Nat
      /\ Cardinality(DOMAIN calls) + ended = 2 * starts
  <2>1. IsFiniteSet(DOMAIN calls)
    BY IdsFinite, FS_Subset DEF AsyncInv, AsyncTypes
  <2> QED BY <2>1, FS_CardinalityType, SameCardinality
          DEF AsyncInv, SessionCounts, A!ChainsAccounted
<1>7. SessionCounts'
  BY <1>1, <1>3, <1>6 DEF AsyncInv, SessionCounts
<1>8. A!ChainsAccounted'
  <2>1. Cardinality(DOMAIN calls') + ended' = 2 * starts'
    BY <1>1, <1>3, <1>6
  <2> QED BY <2>1, SameCardinality DEF A!ChainsAccounted
<1> QED BY <1>4, <1>5, <1>7, <1>8 DEF AsyncInv

LEMMA ConnectSteps ==
  ASSUME AsyncInv, A!Connect \/ A!ConnectFails \/ A!Reactivate
  PROVE  AsyncInv'
<1>1. CASE A!Connect
  <2>1. PICK subscribed \in BOOLEAN : A!StateCallback(subscribed)
    BY <1>1 DEF A!Connect
  <2>2. /\ client' = "loop" /\ UNCHANGED <<A!serverVars, back>>
        /\ ~session /\ starts < Starts
    BY <1>1, ExamplesAssumption DEF A!Connect, AsyncInv, SessionCounts
  <2> QED BY <2>1, <2>2, ActivationStep
<1>2. CASE A!ConnectFails
  <2>1. UNCHANGED <<A!serverVars, wire, back, session, calls, starts, ended>> /\ client' = "done"
    BY <1>2 DEF A!ConnectFails
  <2>2. UNCHANGED <<request, results>>
    BY <2>1 DEF A!serverVars
  <2>3. /\ WireApart' /\ ResultsWhole' /\ A!OwnResults' /\ DOMAIN calls' \subseteq A!Ids
        /\ \A i \in DOMAIN calls' : calls'[i] \in Bodies
    BY <2>1, <2>2, DropKeeps
  <2>4. session' \in BOOLEAN
    BY <2>1 DEF AsyncInv, AsyncTypes
  <2>5. AsyncTypes' /\ ThreadsPlaced' /\ A!NothingForgotten' /\ QueuedPending'
    BY <2>1, <2>3, <2>4, ServerKeeps
  <2>6. SessionCounts'
    BY <2>1 DEF AsyncInv, SessionCounts
  <2>7. A!ChainsAccounted'
    BY <2>1 DEF AsyncInv, A!ChainsAccounted
  <2> QED BY <2>3, <2>5, <2>6, <2>7 DEF AsyncInv
<1>3. CASE A!Reactivate
  <2>1. PICK subscribed \in BOOLEAN : A!StateCallback(subscribed)
    BY <1>3 DEF A!Reactivate
  <2>2. /\ client' = "loop" /\ UNCHANGED <<A!serverVars, back>>
        /\ ~session /\ starts < Starts
    BY <1>3 DEF A!Reactivate
  <2> QED BY <2>1, <2>2, ActivationStep
<1> QED BY <1>1, <1>2, <1>3

LEMMA AsyncStep == AsyncInv /\ A!Next => AsyncInv'
<1> SUFFICES ASSUME AsyncInv, A!Next PROVE AsyncInv'
  OBVIOUS
<1>1. CASE (A!Main \/ A!Worker \/ A!Interrupt) /\ UNCHANGED <<A!clientVars, wire, back>>
  <2>1. UNCHANGED <<wire, back, client, session, calls, starts, ended>>
    BY <1>1 DEF A!clientVars
  <2> QED BY <1>1, <2>1, ThreadSteps, DeleteStep, GetStep, SetResultStep DEF A!Main, A!Worker
<1>2. CASE \E c \in wire : A!Accept(c)
  BY <1>2, AcceptStep
<1>3. CASE \E op \in DOMAIN results : A!GiveUp(op)
  BY <1>3, GiveUpStep
<1>4. CASE \E id \in A!Ids : A!Answer(id)
  BY <1>4, AnswerStep
<1>5. CASE A!Connect \/ A!ConnectFails \/ A!Reactivate
  BY <1>5, ConnectSteps
<1>6. CASE A!LoseSession \/ A!Stop
  BY <1>6, EndStep
<1>7. CASE \E r \in back : A!Receive(r)
  BY <1>7, ReceiveStep
<1>8. CASE \E id \in DOMAIN calls : A!Timeout(id)
  BY <1>8, TimeoutStep
<1> QED BY <1>1, <1>2, <1>3, <1>4, <1>5, <1>6, <1>7, <1>8 DEF A!Next

LEMMA AsyncStays == AsyncInv /\ UNCHANGED A!vars => AsyncInv'
<1> SUFFICES ASSUME AsyncInv, UNCHANGED A!vars PROVE AsyncInv'
  OBVIOUS
<1>1. /\ UNCHANGED <<request, queue, results, wire, back, client, session, calls, starts, ended>>
      /\ UNCHANGED <<main, running, methods, worker, alive>>
  BY DEF A!vars, A!serverVars, A!clientVars
<1>2. AsyncTypes'
  BY <1>1, Zenon DEF AsyncInv, AsyncTypes
<1>3. ThreadsPlaced'
  BY <1>1 DEF AsyncInv, ThreadsPlaced
<1> QED BY <1>1, <1>2, <1>3, QuietKeeps DEF AsyncInv

LEMMA AsyncMeans == AsyncInv => A!Inv
<1> SUFFICES ASSUME AsyncInv PROVE A!Inv
  OBVIOUS
<1>1. ended \in 0 .. 2 * Starts
  <2>1. IsFiniteSet(DOMAIN calls)
    BY IdsFinite, FS_Subset DEF AsyncInv, AsyncTypes
  <2>2. Cardinality(DOMAIN calls) \in Nat
    BY <2>1, FS_CardinalityType
  <2>3. Cardinality(DOMAIN calls) + ended = 2 * starts
    BY SameCardinality DEF AsyncInv, A!ChainsAccounted
  <2>4. ended \in Nat /\ starts \in Nat /\ starts <= Starts /\ Starts \in Nat
    BY ExamplesAssumption DEF AsyncInv, SessionCounts
  <2> QED BY <2>2, <2>3, <2>4
<1>2. A!TypeOK
  BY <1>1, Zenon DEF AsyncInv, AsyncTypes, SessionCounts, A!TypeOK
<1>3. A!NoUseAfterDelete
  BY DEF AsyncInv, ThreadsPlaced, A!NoUseAfterDelete
<1> QED BY <1>2, <1>3 DEF AsyncInv, A!Inv

-----------------------------------------------------------------------------
(* The theorem.                                                            *)

LEMMA AsyncRuns ==
    ASSUME [Next]_all
    PROVE  system' = system /\ (system = "async" => A!Next \/ UNCHANGED A!vars)
BY DEF Next, all, asyncOnly, configOnly, shared, OnlyAsync, OnlyConfig, OnlyInterrupt, OnlyVxWorks,
       OnlyDiscovery, A!vars, A!serverVars, A!clientVars

\* For any number of ids and sessions, whatever is lost, late, given up or interrupted: two
\* chains of calls for each session and no more; each call gets the results of its own
\* methods and inputs in their order; an operation without a result is queued or with the
\* worker, once; and the worker touches no server that is deleted.
THEOREM CallsAlwaysAccounted == Spec => []CallsAccounted
<1> DEFINE Always == system = "async" => AsyncInv
<1>1. Init => Always
  BY AsyncInit DEF Init
<1>2. Always /\ [Next]_all => Always'
  <2> SUFFICES ASSUME Always, [Next]_all, system = "async" PROVE AsyncInv'
    BY AsyncRuns
  <2>1. CASE A!Next
    BY <2>1, AsyncStep
  <2>2. CASE UNCHANGED A!vars
    BY <2>2, AsyncStays
  <2> QED BY <2>1, <2>2, AsyncRuns
<1>3. Always => CallsAccounted
  BY AsyncMeans DEF CallsAccounted
<1> QED BY <1>1, <1>2, <1>3, PTL DEF Spec
=============================================================================
