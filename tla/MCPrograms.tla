----------------------------- MODULE MCPrograms -----------------------------
(***************************************************************************)
(* All the programs that Process runs, one of them in each behaviour: what *)
(* each needs of the bounds, and what is asked of all of them.             *)
(***************************************************************************)
EXTENDS Realtime, TpmKeyStore, TLC

Srv == INSTANCE PubSubServers

\* The programs of the PubSub modules.
AllScripts ==
    [publish |-> Pub!tutorial, publishEncrypted |-> Pub!encrypted, publishTpm |-> Pub!tpm,
     subscribe |-> Sub!subscribe, subscribeEncrypted |-> Sub!subscribeEncrypted,
     subscribeTpm |-> Sub!subscribeTpm, standalone |-> Sub!standalone,
     connection |-> Srv!connection, information |-> Srv!information,
     rtPublisher |-> Srv!rtPublisher, rtSubscriber |-> Srv!rtSubscriber, iop |-> Srv!iop,
     mqttPublish |-> Srv!mqttPublish, mqttSubscribe |-> Srv!mqttSubscribe]

\* Compiled with JSON (1) or without (0).
ScriptEffect(name, d) ==
    CASE name = "build" -> {[d EXCEPT !.built = b, !.useJson = b, !.encrypted = e,
                                       !.secured = (1 - b) * e] :
                              b \in {0, 1}, e \in {0, 1}}
      [] name = "toggle" -> {[d EXCEPT !.count = (@ + 1) % 3,
                                       !.toggles = IF d.count = 2 THEN 1 ELSE 0]}
      [] name \in {"fields1", "fields2"} -> {[d EXCEPT ![name] = <<d.field>> \o @]}

ProgramTable == RealtimePrograms @@ AllScripts @@ KeyStorePrograms

EffectOfAll(p, name, d) ==
    IF p \in RealtimeNames THEN RealtimeEffect(p, name, d)
    ELSE IF p \in KeyStores THEN KeyStoreEffect(name, d) ELSE ScriptEffect(name, d)

\* Calls that fail; fewer for the programs that interleave or are long.
Failures(p) == IF p \in RealtimeNames \cup KeyStores THEN 1 ELSE 2
NoFailures(p) == 0

\* Counters and table sizes of the real-time programs.
CountTable == [loopback |-> 2, publisher |-> 2, single |-> 2, multiple |-> 2,
               nodesetPublisher |-> 2, nodesetSubscriber |-> 2]
SizeTable == [loopback |-> 1, publisher |-> 1, single |-> 1, multiple |-> 1,
              nodesetPublisher |-> 1, nodesetSubscriber |-> 1]
NoCountTable == [p \in RealtimeNames |-> IF p \in TwoWay THEN 0 ELSE 1]

\* A token may have objects without end.
EndingTable == [p \in DOMAIN ProgramTable \ KeyStores |-> ProgramTable[p]]

\* TLC keeps the value of a definition, but not that of a substitution.
ProgramsOfAll == ProgramTable
Ending == EndingTable
Counts == CountTable
Sizes == SizeTable
NoCounts == NoCountTable
NoSizes == NoCountTable

\* Of the decrypted files, in bytes.
FileLengths == {16, 32, 48}

-----------------------------------------------------------------------------

\* The token has no such key: decrypt_data returns without data, and says GOOD.
KeyMissing == prog \in KeyStores /\ data.found = 0

\* A thread of TsnSingle or TsnMultiple has come to the call of the subCallback that
\* nothing has set, and no other thread to what brings it down.
CalledUnset ==
    prog \in {"single", "multiple"} /\
    \A t \in DOMAIN pc : pc[t] \in DOMAIN Code(t) /\ Broken(Current(t))
                            => Current(t).touches \ live = {"subCallback"}

\* What is known to bring a program down: a pointer that is not initialised, or not when
\* the token has no key, a join of a thread that was never created, a file not open.
Known == \/ KeyMissing /\ data.unset = 1
         \/ CalledUnset
         \/ prog = "nodesetSubscriber" /\ (data.joining = 1 \/ data.writing = 1)

\* Whatever the threads do in between and whenever SIGINT comes, memory that is not there
\* is touched only if a call has failed before, and by the key stores not even then
\* (every dereference, call and join of the programs), but for what is known.
CrashOnlyAfterFailure ==
    TypeOK /\ (exit = "crashed" => (failures > 0 \/ Known) /\ CrashesExplained)

\* What a call needs has been made when it is made: nothing is asked for in vain unless
\* something has failed before, or the token has no key.
NothingInVain ==
    (failures = 0 /\ ~KeyMissing)
        => \A t \in DOMAIN pc : ~Faces(t, LAMBDA s : s.op = "call" /\ ~(s.needs \subseteq live))

\* The server is being run: its loop goes on until "running" is cleared.
Serving == handler /\ Faces("main", LAMBDA s : s.op \in {"wait", "unless"} /\ s.arg = "running")

\* What the programs that look at their results promise.
Promised ==
    [subscribe |-> {"connection", "readerGroup", "reader", "targets"},
     subscribeEncrypted |-> {"connection", "readerGroup", "reader", "targets"},
     subscribeTpm |-> {"connection", "readerGroup", "reader", "targets"},
     rtSubscriber |-> {"connection", "readerGroup", "reader"},
     mqttPublish |-> {"writerGroup"},
     mqttSubscribe |-> {"connection", "readerGroup", "operational", "reader", "targets"}]

\* Whatever fails, a subscriber that serves has its connection, its reader and the
\* variables that the reader writes to, and the MQTT publisher has its group.
ServesSetUp == (prog \in DOMAIN Promised /\ Serving) => Promised[prog] \subseteq live

\* A reader group works without its keys only if a call has failed
\* (addReaderGroup of the encrypted subscribers).
KeysFirst == (prog \in {"subscribeEncrypted", "subscribeTpm"} /\ "operational" \in live)
                 => ("keys" \in live \/ failures > 0)

\* A publisher does not end with its server still there, whatever has failed.
DeletesServer ==
    (prog \in {"publishEncrypted", "publishTpm", "mqttPublish", "mqttSubscribe", "iop"}
     /\ exit \in {"success", "failure"}) => "server" \notin live

\* "add fields in reverse order, because all fields are added to the beginning of
\* the list" (server_pubsub_publisher_iop.c, line 537): even if some are not added.
FieldsInOrder ==
    prog = "iop" => \A fields \in {data.fields1, data.fields2} :
                        \A i, j \in DOMAIN fields : i < j => fields[i] < fields[j]

\* Fields with fixed offsets are published from a frozen configuration only
\* (the two real-time publishers and the real-time subscriber).
FrozenFirst == (prog \in {"information", "rtPublisher", "rtSubscriber"} /\ "operational" \in live)
                   => ("frozen" \in live \/ failures > 0)

\* What is set up is set up in an order that works, and what could not be is noticed where
\* the code looks: keys and frozen configurations before messages, fields as declared.
SetUpInOrder == NothingInVain /\ ServesSetUp /\ KeysFirst /\ FrozenFirst /\ FieldsInOrder

\* The MQTT publisher that is asked for JSON it is not compiled with, and the nodeset's
\* subscriber that is asked for a file and for help, leave everything; so do the key stores
\* without their key, and nothing releases a certificate.
Spared == CASE prog = "mqttPublish" /\ data.built = 0 /\ data.asked = 1 -> live
            [] prog = "nodesetSubscriber" -> live
            [] prog \in KeyStores -> IF KeyMissing THEN live ELSE {"certificate_out_data.data"}
            [] OTHER -> {}

\* A run in which nothing failed leaves nothing behind that the program releases
\* anywhere, the token's session included, but for what is spared. Five programs delete
\* their server whatever has failed.
NothingLeft == /\ exit = "success" /\ failures = 0 => live \cap Owned[prog] \subseteq Spared
               /\ DeletesServer

\* Each program but the key stores and the four of the Tsn modules ends after SIGINT, and
\* the loopback of two threads after SIGINT and its peer's last message.
StopsWhenTold == StopsAfterSignal /\ StopsWithPeer
=============================================================================
