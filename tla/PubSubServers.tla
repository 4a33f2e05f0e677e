--------------------------- MODULE PubSubServers ---------------------------
(***************************************************************************)
(* Servers with values of their own behind what they publish:              *)
(* server_pubsub_rt_field_information_model.c, the two rt_level programs,  *)
(* server_pubsub_publisher_iop.c and tutorial_pubsub_connection.c.         *)
(***************************************************************************)
EXTENDS Steps, SequencesExt

connection_main ==
    <<New("server"), Into("retval", Call({"connection"}, {"server"}))>>
    \o RunServer("ran", "running") \o If("ran", <<Put("retval", 1)>>)
    \o DeleteServer \o <<Exit("retval")>>

-----------------------------------------------------------------------------
(* server_pubsub_rt_field_information_model.c                              *)

addMinimalPubSubConfiguration == <<Call({"connection"}, {"server"}), Call({"dataSet"}, {"server"})>>

addVariable(node) == <<Call({node}, {"server"})>>

\* The value behind a node, which the server reads and writes directly.
Source(node, int, value, field) ==
    addVariable(node)
    \o <<New(int), Reads({int}, New(value)), Deref({value}), Call({}, {node}),
         Call({field}, {"dataSet", node})>>

Values == {"integerRTValue", "integerRTValue2"}
cyclicValueUpdateCallback_UpdateToMemory == <<Deref(Values)>>
externalDataWriteCallback == Maybe(<<Deref({"integerRTValue"})>>) \o Maybe(<<Deref({"integerRTValue2"})>>)
cyclicValueUpdateCallback_UpdateToStack ==
    <<Reads({"integerRTValue"}, Call({}, {"rtNodeId1"})),
      Reads({"integerRTValue2"}, Call({}, {"rtNodeId2"}))>> \o externalDataWriteCallback

\* With a value goes its integer.
information_delete ==
    DeleteReading(Values)
    \o <<Free({"integerRTValue", "dataValueRT"}), Free({"integerRTValue2", "dataValue2RT"}),
         Exit("retval")>>

information_main ==
    <<Signal>> \o NewServer \o addMinimalPubSubConfiguration
    \o <<Call({"writerGroup"}, {"connection"}), Call({"writer"}, {"writerGroup", "dataSet"})>>
    \o Source("rtNodeId1", "integerRTValue", "dataValueRT", "field1")
    \o Source("rtNodeId2", "integerRTValue2", "dataValue2RT", "field2")
    \o <<Call({"frozen"}, {"writerGroup"}), Call({"operational"}, {"writerGroup"}),
         Call({}, {"server"}), Call({}, {"server"})>>
    \o RunServing("retval", Maybe(cyclicValueUpdateCallback_UpdateToMemory)
                            \o Maybe(cyclicValueUpdateCallback_UpdateToStack))
    \o information_delete

-----------------------------------------------------------------------------
(* server_pubsub_publisher_rt_level.c, with fixed offsets: one value serves*)
(* all fields.                                                             *)

level_addMinimalPubSubConfiguration == addMinimalPubSubConfiguration

valueUpdateCallback == <<Put("stored", 1)>>

\* A slip: the group is operational before its configuration is frozen.
level_publishUnfrozen ==
    <<Call({"updated"}, {"writerGroup"}), Call({"operational"}, {"writerGroup"}),
      Call({"frozen"}, {"writerGroup"}), Call({}, {"server"})>>

level_publish ==
    <<Call({"updated"}, {"writerGroup"}), Call({"frozen"}, {"writerGroup"}),
      Call({"operational"}, {"writerGroup"}), Call({}, {"server"})>>

level_main ==
    NewServer \o level_addMinimalPubSubConfiguration
    \o <<Call({"writerGroup"}, {"connection"}), Call({"writer"}, {"writerGroup", "dataSet"}),
         New("staticValueSource")>>
    \o Times(3, <<Reads({"staticValueSource"}, Call({"field"}, {"dataSet"}))>>)
    \o level_publish \o <<Signal>> \o RunServing("retval", valueUpdateCallback)
    \o DeleteReading({"staticValueSource"}) \o <<Free({"staticValueSource"}), Exit("retval")>>

-----------------------------------------------------------------------------
(* server_pubsub_subscriber_rt_level.c                                     *)

reader_fillTestDataSetMetaData == <<New("fields"), Deref({"fields"})>>
reader_addPubSubConnection == <<OrInto("retval", Call({"connection"}, {"server"}))>>
reader_addReaderGroup == <<OrInto("retval", Call({"readerGroup"}, {"connection"}))>>

\* Its fields are two here.
reader_addSubscribedVariables ==
    <<Call({"folder"}, {"server"}), New("targetVars")>>
    \o FlattenSeq([i \in 1 .. 2 |->
         LET value == <<"repeatedFieldValues1", "repeatedFieldValues2">>[i]
             kept == <<"repeatedDataValueRT1", "repeatedDataValueRT2">>[i]
         IN  <<Reads({"fields"}, OrInto("retval", Call({}, {"folder"}))), New(value), Deref({value}),
               New(kept), Deref({kept}), Call({}, {"folder"}), Deref({"targetVars"})>>])

reader_addDataSetReader ==
    <<New("message"), Deref({"message"})>> \o reader_fillTestDataSetMetaData
    \o reader_addSubscribedVariables
    \o <<OrInto("retval", Call({"reader"}, {"readerGroup"})), Deref({"targetVars"}),
         Free({"targetVars"}), Free({"fields"}), Free({"message"})>>

\* A message is stored into the values, before and after which it is told.
Kept == {"repeatedFieldValues1", "repeatedFieldValues2", "repeatedDataValueRT1",
         "repeatedDataValueRT2"}
subscribeBeforeWriteCallback == <<Deref(Kept), Put("sSubscribedDataSink", 1)>>
subscribeAfterWriteCallback == <<Deref(Kept)>>

reader_release ==
    DeleteReading(Kept)
    \o <<Free({"repeatedFieldValues1"}), Free({"repeatedDataValueRT1"}),
         Free({"repeatedFieldValues2"}), Free({"repeatedDataValueRT2"}), Exit("retval")>>

reader_run ==
    <<Signal>> \o NewServer
    \o reader_addPubSubConnection \o GiveUp("retval") \o reader_addReaderGroup \o GiveUp("retval")
    \o reader_addDataSetReader \o GiveUp("retval")
    \o <<Call({"frozen"}, {"readerGroup"}), Call({"operational"}, {"readerGroup"})>>
    \o RunServing("retval", subscribeBeforeWriteCallback \o subscribeAfterWriteCallback)
    \o <<Call({}, {"readerGroup"})>> \o reader_release

reader_main == ReadArguments \o reader_run

-----------------------------------------------------------------------------
(* server_pubsub_publisher_iop.c: two data sets, whose fields are added at *)
(* the front, and a timer that counts their values on.                     *)

iop_addPubSubConnection == <<Call({"connection"}, {"server"})>>

\* The library puts a new field in front of the others.
Field(dataSet, i, node, fields) ==
    <<Into("failed", Call({}, {dataSet, node}))>>
    \o IfNot("failed", <<Put("field", i), Do(fields)>>)

\* A slip: in the order in which they shall be.
addPublisher1InOrder ==
    <<Call({"folder1"}, {"server"}), Call({"nodes1"}, {"folder1"})>>
    \o FlattenSeq([i \in 1 .. 4 |-> Field("dataSet", i, "nodes1", "fields1")])

\* Their nodes are one here.
addPublisher1 ==
    <<Call({"folder1"}, {"server"}), Call({"nodes1"}, {"folder1"})>>
    \o FlattenSeq([i \in 1 .. 4 |-> Field("dataSet", 5 - i, "nodes1", "fields1")])

addPublisher2 ==
    <<Call({"folder2"}, {"server"}), Call({"nodes2"}, {"folder2"})>>
    \o FlattenSeq([i \in 1 .. 16 |-> Field("dataSet2", 17 - i, "nodes2", "fields2")])

\* Data set 1 first, and its toggle in every third call only.
timerCallback ==
    <<Do("toggle")>> \o If("toggles", <<Call({}, {"nodes1"})>>)
    \o <<Call({}, {"nodes1"}), Call({}, {"nodes2"})>>

cleanup == <<Free({"nodes1"}), Free({"nodes2"})>>

iop_run ==
    <<Signal>> \o NewServer \o iop_addPubSubConnection \o <<Call({"dataSet"}, {"server"})>>
    \o addPublisher1
    \o <<Call({"writerGroup"}, {"connection"}), Call({"operational"}, {"writerGroup"}),
         Call({"writer"}, {"writerGroup", "dataSet"}), Call({"dataSet2"}, {"server"})>>
    \o addPublisher2
    \o <<Call({"writer2"}, {"writerGroup", "dataSet2"}), Call({"timer"}, {"server"})>>
    \o RunServing("retval", timerCallback) \o DeleteServer \o cleanup \o <<Exit("retval")>>

iop_main == ReadArguments \o iop_run

connection == Program(connection_main, {"ran"})
information == Program(information_main, {})
rtPublisher == Program(level_main, {"stored"})
rtSubscriber == Program(reader_main, {"sSubscribedDataSink"})
iop == [Program(iop_main, {"failed", "field", "count", "toggles"})
          EXCEPT !.data = @ @@ [fields1 |-> <<>>, fields2 |-> <<>>]]

-----------------------------------------------------------------------------
(* tutorial_pubsub_mqtt_publish.c and tutorial_pubsub_mqtt_subscribe.c: they*)
(* are compiled with JSON, which is then what is sent, or without, in which*)
(* case messages are encrypted if that is compiled in.                     *)

\* With the broker's address, the topic and the interval taken from the arguments.
Arguments == Maybe(<<Put("asked", 1), Put("useJson", 1)>>) \o ReadArguments

Policy == If("encrypted", <<Deref({"server"}), New("securityPolicies"),
                            Reads({"securityPolicies"}, Call({"policy"}, {"config"}))>>)

addPubSubConnection == <<Call({"connection"}, {"server"})>>
addPublishedDataSet == <<Call({"dataSet"}, {"server"})>>
addDataSetField == <<Call({"field"}, {"dataSet"})>>

JsonMessage == If("useJson", <<New("Json_writerGroupMessage"), Put("groupJson", 1)>>)

\* The keys' result is the function's, in place of the group's.
addWriterGroup ==
    If("built", JsonMessage)
    \o IfElse("groupJson", <<Deref({"Json_writerGroupMessage"})>>,
                           <<New("writerGroupMessage"), Deref({"writerGroupMessage"})>>)
    \o IfElse("secured", <<Into("retval", Call({"writerGroup"}, {"connection", "policy"}))>>,
                           <<Into("retval", Call({"writerGroup"}, {"connection"}))>>)
    \o IfNot("retval", <<Call({"operational"}, {"writerGroup"})>>)
    \o If("built", If("useJson", <<Free({"Json_writerGroupMessage"})>>))
    \o IfNot("useJson", <<Free({"writerGroupMessage"})>>)
    \o If("secured", <<Into("retval", Call({"keys"}, {"writerGroup"}))>>)

addDataSetWriter == If("useJson", <<Put("writerJson", 1)>>)
                    \o <<Call({"writer"}, {"writerGroup", "dataSet"})>>

\* A slip: the server stays when the set-up fails.
QuitKeeping == If("retval", <<Put("retval", 0), Exit("retval")>>)

Quit == If("retval", <<Put("retval", 0)>> \o DeleteServer \o <<Exit("retval")>>)

publish_main ==
    <<Do("build")>> \o Arguments \o NewServer \o Policy
    \o addPubSubConnection \o addPublishedDataSet \o addDataSetField
    \o addWriterGroup \o Quit \o addDataSetWriter
    \o RunUntilInterrupt("ran") \o DeleteServer \o <<Exit("retval")>>

-----------------------------------------------------------------------------

subscribe_addPubSubConnection == <<OrInto("retval", Call({"connection"}, {"server"}))>>

subscribe_addReaderGroup ==
    IfElse("secured",
           <<Reads({"server"}, OrInto("retval", Call({"readerGroup"}, {"connection", "policy"}))),
             OrInto("retval", Call({"keys"}, {"readerGroup"}))>>,
           <<OrInto("retval", Call({"readerGroup"}, {"connection"}))>>)
    \o <<OrInto("retval", Call({"operational"}, {"readerGroup"}))>>

fillTestDataSetMetaData == <<New("fields"), Deref({"fields"})>>

addDataSetReader ==
    fillTestDataSetMetaData \o <<OrInto("retval", Call({"reader"}, {"readerGroup"}))>>

\* What the variables' creation returned is overwritten by the last call.
addSubscribedVariables ==
    <<Call({"folder"}, {"server"}), New("targetVars")>>
    \o Times(4, <<Reads({"fields"}, OrInto("added", Call({}, {"folder"}))), Deref({"targetVars"})>>)
    \o <<Into("added", Call({"targets"}, {"reader"})), Deref({"targetVars"}),
         Free({"targetVars"}), Free({"fields"})>>
    \o If("added", <<Put("retval", 1)>>)

\* goto cleanup
subscribe_main ==
    <<Do("build")>> \o NewServer \o Policy
    \o subscribe_addPubSubConnection \o Quit \o subscribe_addReaderGroup \o Quit
    \o addDataSetReader \o Quit \o addSubscribedVariables \o Quit
    \o RunUntilInterrupt("ran") \o DeleteServer \o <<Exit("retval")>>

Settings == {"built", "useJson", "asked", "encrypted", "secured", "ran", "added", "groupJson", "writerJson"}
mqttPublish == Program(publish_main, Settings)
mqttSubscribe == Program(subscribe_main, Settings)
=============================================================================
