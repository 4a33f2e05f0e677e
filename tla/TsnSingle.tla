----------------------------- MODULE TsnSingle -----------------------------
(***************************************************************************)
(* pubsub_TSN_loopback_single_thread.c with TWO_WAY_COMMUNICATION: one     *)
(* thread blocks until a message comes, passes the counter on and sends    *)
(* it. The conventions are those of TsnLoopback.                           *)
(***************************************************************************)
EXTENDS Steps

Counters == {"pubCounterData", "subCounterData",
             "repeatedCounterData", "subRepeatedCounterData"}

\* exit(1) if the scheduler refuses; a thread that cannot be made is logged.
threadCreation(thread) ==
    <<Into("returnValue", Call({}, {}))>> \o If("returnValue", <<Exit("failure")>>)
        \o <<Into("errorSetAffinity", Call({}, {}))>>
        \o If("errorSetAffinity", <<Exit("failure")>>) \o <<Spawn(thread)>>

\* The library calls it from setWriterGroupOperational: no thread yet, only what the
\* thread is to call.
addPubSubApplicationCallback(callback) ==
    <<Reads({"threadArgPubSub1"}, Sure(Call({callback}, {})))>>

\* The counter of lost messages is left out.
userApplication ==
    <<Reads(Counters, Do("pass counter"))>>
    \o If("enableCsvLog", If("SubCounter", <<Do("measure received")>>)
                          \o If("PubCounter", <<Do("measure published")>>))
    \o If("signalTerm", <<Reads({"runningPub"}, Put("RunningPub", 0)),
                          Reads({"runningSub"}, Put("RunningSub", 0))>>)

\* addReaderGroup sets no callback: subCallback is what malloc() left in the
\* structure, nothing ever makes it, and the call ends the process.
receive == <<Reads({"subCallback", "readerGroup"}, Do("receive running")), Do("receive counter")>>

pubSubApp ==
    <<Deref({"threadArgPubSub1"})>> \o
    ReadsFirst({"runningSub"}, While("RunningSub",
        receive
        \o userApplication
        \o <<Reads({"pubCallback", "writerGroup"}, Do("publish"))>>))
    \o <<Put("runningServer", 0)>>

-----------------------------------------------------------------------------
(* The set-up of main().                                                   *)

addPubSubConnectionSubscriber == <<Call({"connectionIdentSubscriber"}, {})>>

addReaderGroup == <<Call({"readerGroup"}, {"connectionIdentSubscriber"})>>

Backend(node) == <<Call({}, {node})>>    \* setVariableNode_valueBackend

\* x = ..._new(), and targetVars is freed if there is no x.
AllocTarget(x) == <<New(x)>> \o IfNot(x, <<Free({"targetVars"}), Return>>)

addSubscribedVariables == Fn(
    Alloc("targetVars") \o AllocTarget("runningSub") \o <<Put("RunningSub", 1)>>
    \o AllocTarget("runningSubDataValueRT") \o Backend("runningSubStatusNodeID")
    \o AllocTarget("subRepeatedCounterData") \o AllocTarget("subRepeatedDataValueRT")
    \o Backend("subRepeated1") \o Backend("subRepeated2")
    \o AllocTarget("subCounterData") \o <<Put("SubCounter", 0)>>
    \o AllocTarget("subDataValueRT") \o Backend("subNodeID")
    \o <<Put("targetVariables", 1)>>)

addDataSetReader ==
    <<New("dataSetReaderMessage"), Reads({"dataSetReaderMessage"}, New("fields")),
      Deref({"fields"})>>
    \o addSubscribedVariables
    \o <<Call({"reader"}, {"readerGroup"})>>
    \o If("targetVariables", <<Free({"targetVars"})>>)
    \o <<Free({"fields"}), Free({"dataSetReaderMessage"})>>

addPubSubConnection == <<Call({"connectionIdent"}, {})>>

addPublishedDataSet == <<Call({"publishedDataSetIdent"}, {})>>

Field(node) == Backend(node) \o <<Call({}, {"publishedDataSetIdent", node})>>

_addDataSetField == Fn(
    Alloc("runningPub") \o <<Put("RunningPub", 1)>>
    \o Alloc("runningPubDataValueRT") \o Field("runningPubStatusNodeID")
    \o Alloc("repeatedCounterData")
    \o Alloc("repeatedDataValueRT") \o Field("pubRepeated1") \o Field("pubRepeated2")
    \o Alloc("pubCounterData") \o <<Put("PubCounter", 0)>>
    \o Alloc("pubDataValueRT") \o Field("pubNodeID"))

addWriterGroup ==
    <<New("writerGroupMessage"),
      Reads({"writerGroupMessage"}, Call({"writerGroup"}, {"connectionIdent"})),
      Free({"writerGroupMessage"})>>

addDataSetWriter == <<Call({"writer"}, {"writerGroup", "publishedDataSetIdent"})>>

Node(x) == Call({x}, {"objectId"})

\* Each repeated node's id is kept in the same variable: the last one remains.
addServerNodes ==
    <<Call({"objectId"}, {}), Node("pubNodeID"), Node("subNodeID"),
      Node("pubRepeated1"), Node("pubRepeated2"), Node("runningPubStatusNodeID"),
      Node("subRepeated1"), Node("subRepeated2"), Node("runningSubStatusNodeID")>>

removeServerNodes ==
    <<Free({"pubNodeID"}), Free({"pubRepeated2"}), Free({"runningPubStatusNodeID"}),
      Free({"subNodeID"}), Free({"subRepeated2"}), Free({"runningSubStatusNodeID"})>>

\* The arguments: help and nonsense end it, so does a missing interface.
Options ==
    <<Signal>> \o Maybe(<<Exit("failure")>>) \o Maybe(<<Exit("success")>>)
    \o Maybe(<<Put("enableCsvLog", 1)>>) \o Maybe(<<Put("operBaseTimeFileName", 1)>>)
    \o Maybe(<<Put("monotonicOffsetFileName", 1)>>)

SetUp ==
    <<New("server"), Deref({"server"}), Call({}, {"server"})>>
    \o If("enableCsvLog", <<New("fpPublisher"), New("fpSubscriber")>>)
    \o <<New("threadArgPubSub1"), Deref({"threadArgPubSub1"})>>
    \o addServerNodes
    \o addPubSubConnection \o addPublishedDataSet \o _addDataSetField
    \o addWriterGroup \o addDataSetWriter \o <<Call({}, {"writerGroup"})>>
    \o <<Into("refused", Call({}, {"writerGroup"}))>>
    \o IfNot("refused", addPubSubApplicationCallback("pubCallback"))
    \o addPubSubConnectionSubscriber \o addReaderGroup \o addDataSetReader
    \o <<Call({}, {"readerGroup"}), Call({"operational"}, {"readerGroup"})>>
    \o If("operBaseTimeFileName", <<New("operBaseTimefile"), Deref({"operBaseTimefile"})>>)
    \o If("monotonicOffsetFileName", <<New("monotonicOffsetFile"), Deref({"monotonicOffsetFile"})>>)
    \o threadCreation("app")

\* UA_Server_run(): the server's loop receives as well. The fields of a message are
\* written one after the other.
Serve ==
    <<OrInto("retval", Call({}, {"server"}))>>
    \o IfNot("retval", While("runningServer",
           If("operational", If("reader", If("targetVariables",
               <<Reads({"server"}, Do("receive running")), Do("receive counter")>>)))))

Run == Serve \o <<Deref({"threadArgPubSub1"}), Call({}, {"readerGroup"}), Join("app")>>

\* What is alive is released in this order; fclose() does not take NULL.
CleanUp ==
    If("enableCsvLog", <<Deref({"fpPublisher"}), Deref({"fpSubscriber"})>>)
    \o removeServerNodes \o <<Free({"server"})>>
    \o If("operBaseTimeFileName", <<Reads({"operBaseTimefile"}, Free({"operBaseTimefile"}))>>)
    \o If("monotonicOffsetFileName",
          <<Reads({"monotonicOffsetFile"}, Free({"monotonicOffsetFile"}))>>)
    \o <<Free({"runningPub"}), Free({"pubCounterData"}), Free({"repeatedCounterData"}),
         Free({"pubDataValueRT"}), Free({"runningPubDataValueRT"}), Free({"repeatedDataValueRT"})>>
    \o If("enableCsvLog", <<Free({"fpPublisher"})>>)
    \o <<Free({"runningSub"}), Free({"subCounterData"}), Free({"subRepeatedCounterData"}),
         Free({"subDataValueRT"}), Free({"runningSubDataValueRT"}),
         Free({"subRepeatedDataValueRT"}), Free({"threadArgPubSub1"})>>
    \o If("enableCsvLog", <<Free({"fpSubscriber"})>>)
    \o <<Exit("retval")>>

\* What stopHandler sets, and the globals.
stopHandler == [signalTerm |-> 1]

Globals == [signalTerm |-> 0, runningServer |-> 1, enableCsvLog |-> 0,
            operBaseTimeFileName |-> 0, monotonicOffsetFileName |-> 0, refused |-> 0,
            retval |-> 0, returnValue |-> 0, errorSetAffinity |-> 0, targetVariables |-> 0]

loopback == [main |-> Options \o SetUp \o Run \o CleanUp, app |-> pubSubApp]
=============================================================================
