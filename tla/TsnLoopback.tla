---------------------------- MODULE TsnLoopback ----------------------------
(***************************************************************************)
(* pubsub_TSN_loopback.c with PUBLISHER and SUBSCRIBER: a publisher thread *)
(* that the library's set-operational call starts, and a user thread that  *)
(* passes what is received on to what is published. The program has a      *)
(* subscriber thread too, subscriber(), but hands it to the library        *)
(* nowhere: nothing starts it. Names are the program's; a capital makes of *)
(* a pointer what it points to. The values of the repeated counters, which *)
(* go with the counter, are left out; the elements of their arrays are     *)
(* made together.                                                          *)
(***************************************************************************)
EXTENDS Steps

BaseTime ==
    IfNot("baseTimeCalculated", <<Do("clock_gettime"), Put("baseTimeCalculated", 1)>>)

Counters == {"pubCounterData", "subCounterData",
             "repeatedCounterData", "subRepeatedCounterData"}

\* exit(1) if the scheduler refuses; a thread that cannot be made is logged.
threadCreation(thread) ==
    <<Into("returnValue", Call({}, {}))>> \o If("returnValue", <<Exit("failure")>>)
        \o <<Into("errorSetAffinity", Call({}, {}))>>
        \o If("errorSetAffinity", <<Exit("failure")>>) \o <<Spawn(thread)>>

\* The library calls it from setWriterGroupOperational.
addPubSubApplicationCallback(threadArguments, thread) ==
    <<New(threadArguments), Deref({threadArguments})>> \o threadCreation(thread)

\* The library calls it from UA_Server_delete.
removePubSubApplicationCallback(thread) == <<Join(thread)>>

\* A slip: the counter starts again in every round.
userApplicationResets ==
    ReadsFirst({"runningSub", "runningPub"}, WhileEither("RunningSub", "RunningPub",
        <<Reads(Counters, Do("pass counter")), Put("PubCounter", 0)>>))

userApplicationPubSub ==
    BaseTime \o
    ReadsFirst({"runningSub", "runningPub"}, WhileEither("RunningSub", "RunningPub",
        <<Reads(Counters, Do("pass counter"))>>
        \o If("enableCsvLog", If("SubCounter", <<Do("measure received")>>)
                              \o If("PubCounter", <<Do("measure published")>>))))

\* A slip: the publisher does not stop the server.
publisherForever ==
    <<Deref({"threadArgumentsPub"})>> \o BaseTime \o
    ReadsFirst({"runningPub"}, While("RunningPub", If("signalTerm", <<Put("RunningPub", 0)>>)))
    \o <<Free({"threadArgumentsPub"})>>

publisherETF ==
    <<Deref({"threadArgumentsPub"})>> \o BaseTime \o
    ReadsFirst({"runningPub"}, While("RunningPub",
        If("signalTerm", <<Put("RunningPub", 0)>>)
        \o If("PubCounter", <<Reads({"server", "pubDataValueRT"}, Do("publish"))>>)))
    \o <<Free({"threadArgumentsPub"}), Put("runningServer", 0)>>

-----------------------------------------------------------------------------
(* The set-up of main().                                                   *)

addPubSubConnectionSubscriber == <<Call({"connectionIdentSubscriber"}, {})>>

addReaderGroup == <<Call({"readerGroup"}, {"connectionIdentSubscriber"})>>

Backend(node) == <<Call({}, {node})>>    \* setVariableNode_valueBackend

\* Every failed allocation returns, and loses targetVars.
addSubscribedVariables == Fn(
    Alloc("targetVars") \o Alloc("runningSub") \o <<Put("RunningSub", 1)>>
    \o Alloc("runningSubDataValueRT") \o Backend("runningSubStatusNodeID")
    \o Alloc("subRepeatedCounterData")
    \o Alloc("subRepeatedDataValueRT") \o Backend("subRepeated1") \o Backend("subRepeated2")
    \o Alloc("subCounterData") \o <<Put("SubCounter", 0)>>
    \o Alloc("subDataValueRT") \o Backend("subNodeID")
    \o <<Put("targetVariables", 1)>>)

addDataSetReader ==
    <<New("dataSetReaderMessage"), Reads({"dataSetReaderMessage"}, New("fields")),
      Deref({"fields"})>>
    \o addSubscribedVariables
    \o <<Call({"reader"}, {"readerGroup"})>>
    \o If("targetVariables", <<Free({"targetVars"})>>)
    \o <<Free({"fields"}), Free({"dataSetReaderMessage"})>>

addPubSubConnection == <<Call({"connectionIdent"}, {})>>

addPublishedDataSet == <<Call({"publishedDataSetIdent"}, {})>>

Field(node) == Backend(node) \o <<Call({}, {"publishedDataSetIdent", node})>>

_addDataSetField == Fn(
    Alloc("runningPub") \o <<Put("RunningPub", 1)>>
    \o Alloc("runningPubDataValueRT") \o Field("runningPubStatusNodeID")
    \o Alloc("repeatedCounterData")
    \o Alloc("repeatedDataValueRT") \o Field("pubRepeated1") \o Field("pubRepeated2")
    \o Alloc("pubCounterData") \o <<Put("PubCounter", 0)>>
    \o Alloc("pubDataValueRT") \o Field("pubNodeID"))

\* The group is operational, its thread runs, before it has a writer.
addWriterGroup ==
    <<New("writerGroupMessage"),
      Reads({"writerGroupMessage"}, Call({"writerGroup"}, {"connectionIdent"})),
      Into("refused", Call({}, {"writerGroup"}))>>
    \o IfNot("refused", addPubSubApplicationCallback("threadArgumentsPub", "publisher"))
    \o <<Free({"writerGroupMessage"})>>

addDataSetWriter == <<Call({"writer"}, {"writerGroup", "publishedDataSetIdent"})>>

Node(x) == Call({x}, {"objectId"})

\* Each repeated node's id is kept in the same variable: the last one remains.
addServerNodes ==
    <<Call({"objectId"}, {}), Node("pubNodeID"), Node("subNodeID"),
      Node("pubRepeated1"), Node("pubRepeated2"), Node("runningPubStatusNodeID"),
      Node("subRepeated1"), Node("subRepeated2"), Node("runningSubStatusNodeID")>>

removeServerNodes ==
    <<Free({"pubNodeID"}), Free({"pubRepeated2"}), Free({"runningPubStatusNodeID"}),
      Free({"subNodeID"}), Free({"subRepeated2"}), Free({"runningSubStatusNodeID"})>>

\* The arguments: help and nonsense end it, so does a missing interface.
Options ==
    <<Signal, New("server"), Deref({"server"})>>
    \o Maybe(<<Exit("failure")>>)
    \o Maybe(<<Free({"server"}), Exit("success")>>)
    \o Maybe(<<Put("enableCsvLog", 1)>>)

SetUp ==
    <<Call({}, {"server"})>>
    \o If("enableCsvLog", <<New("fpPublisher"), New("fpSubscriber")>>)
    \o addServerNodes
    \o addPubSubConnection \o addPublishedDataSet \o _addDataSetField
    \o addWriterGroup \o addDataSetWriter \o <<Call({}, {"writerGroup"})>>
    \o addPubSubConnectionSubscriber \o addReaderGroup \o addDataSetReader
    \o <<Call({}, {"readerGroup"}), Call({"operational"}, {"readerGroup"}), New("serverConfig")>>
    \o threadCreation("user")

\* UA_Server_run(): addReaderGroup sets no callback of its own, so the server's loop
\* receives. The fields of a message are written one after the other.
Serve ==
    <<OrInto("retval", Call({}, {"server"}))>>
    \o IfNot("retval", While("runningServer",
           If("operational", If("reader", If("targetVariables",
               <<Reads({"server"}, Do("receive running")), Do("receive counter")>>)))))

\* A slip: nobody waits for the user thread.
RunAlone == Serve \o <<Call({}, {"readerGroup"})>>

Run == Serve \o <<Call({}, {"readerGroup"}), Join("user")>>

CleanUp ==
    If("enableCsvLog", <<Deref({"fpPublisher"}), Deref({"fpSubscriber"})>>)
    \o removeServerNodes
    \o removePubSubApplicationCallback("publisher")
    \o <<Free({"server"}), Free({"serverConfig"}), Free({"runningPub"}),
         Free({"pubCounterData"}), Free({"repeatedCounterData"}), Free({"pubDataValueRT"}),
         Free({"runningPubDataValueRT"}), Free({"repeatedDataValueRT"})>>
    \o If("enableCsvLog", <<Free({"fpPublisher"})>>)
    \o <<Free({"runningSub"}), Free({"subCounterData"}), Free({"subRepeatedCounterData"}),
         Free({"subDataValueRT"}), Free({"runningSubDataValueRT"}),
         Free({"subRepeatedDataValueRT"})>>
    \o If("enableCsvLog", <<Free({"fpSubscriber"})>>)
    \o <<Exit("retval")>>

\* What stopHandler sets, and the globals.
stopHandler == [signalTerm |-> 1]

Globals == [signalTerm |-> 0, runningServer |-> 1, baseTimeCalculated |-> 0,
            enableCsvLog |-> 0, refused |-> 0, retval |-> 0, returnValue |-> 0,
            errorSetAffinity |-> 0, targetVariables |-> 0]

loopback == [main |-> Options \o SetUp \o Run \o CleanUp,
             publisher |-> publisherETF,
             user |-> userApplicationPubSub]
=============================================================================
