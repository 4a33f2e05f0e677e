-------------------------- MODULE PubSubPublishers --------------------------
(***************************************************************************)
(* tutorial_pubsub_publish.c and its two encrypted variants: connection,   *)
(* data set, field, writer group, writer, then the server runs. They look  *)
(* at no result but the server's.                                          *)
(***************************************************************************)
EXTENDS Steps

addPubSubConnection == <<Call({"connection"}, {"server"})>>
addPublishedDataSet == <<Call({"dataSet"}, {"server"})>>
addDataSetField == <<Call({"field"}, {"dataSet"})>>

addWriterGroup ==
    <<New("message"), Deref({"message"}), Call({"writerGroup"}, {"connection"}),
      Call({"operational"}, {"writerGroup"}), Free({"message"})>>

addDataSetWriter == <<Call({"writer"}, {"writerGroup", "dataSet"})>>

\* A slip: the writer before its group.
runInWrongOrder ==
    <<New("server")>> \o addPubSubConnection \o addPublishedDataSet \o addDataSetField
    \o addDataSetWriter \o addWriterGroup \o RunUntilInterrupt("retval") \o DeleteServer
    \o <<Exit("retval")>>

run == <<New("server")>> \o addPubSubConnection \o addPublishedDataSet \o addDataSetField
       \o addWriterGroup \o addDataSetWriter \o RunUntilInterrupt("retval") \o DeleteServer
       \o <<Exit("retval")>>

main == ReadArguments \o run

-----------------------------------------------------------------------------
(* pubsub_publish_encrypted.c: the group is operational before it has keys.*)

encrypted_addPubSubConnection == addPubSubConnection
encrypted_addPublishedDataSet == addPublishedDataSet
encrypted_addDataSetField == addDataSetField

encrypted_addWriterGroup ==
    <<Deref({"server"}), New("message"), Deref({"message"}),
      Call({"writerGroup"}, {"connection", "policy"}), Call({"operational"}, {"writerGroup"}),
      Free({"message"}), Call({"keys"}, {"writerGroup"})>>

encrypted_addDataSetWriter == addDataSetWriter

\* The security policy goes to the server, and is released with it.
Policy == <<Deref({"server"}), New("securityPolicies"),
            Reads({"securityPolicies"}, Call({"policy"}, {"config"}))>>

Run == RunServer("retval", "running") \o DeleteServer \o <<Exit("retval")>>

SecuredRun(connection, dataSet, field, writerGroup, writer) ==
    <<Signal>> \o NewServer \o Policy \o connection \o dataSet \o field
    \o writerGroup \o writer \o Run

encrypted_run == SecuredRun(encrypted_addPubSubConnection, encrypted_addPublishedDataSet,
    encrypted_addDataSetField, encrypted_addWriterGroup, encrypted_addDataSetWriter)

encrypted_main == ReadArguments \o encrypted_run

-----------------------------------------------------------------------------
(* pubsub_publish_encrypted_tpm.c: keys by label, a node of its own.       *)

tpm_addPubSubConnection == addPubSubConnection
tpm_addPublishedDataSet == addPublishedDataSet
tpm_addDataSetField == <<Call({"node"}, {"server"}), Call({"field"}, {"dataSet", "node"})>>
tpm_addWriterGroup == encrypted_addWriterGroup
tpm_addDataSetWriter == addDataSetWriter

tpm_run == SecuredRun(tpm_addPubSubConnection, tpm_addPublishedDataSet,
    tpm_addDataSetField, tpm_addWriterGroup, tpm_addDataSetWriter)

tpm_main == ReadArguments \o tpm_run

tutorial == Program(main, {})
encrypted == Program(encrypted_main, {})
tpm == Program(tpm_main, {})
=============================================================================
