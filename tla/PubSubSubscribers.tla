------------------------- MODULE PubSubSubscribers --------------------------
(***************************************************************************)
(* tutorial_pubsub_subscribe.c, its two encrypted variants and             *)
(* pubsub_subscribe_standalone_dataset.c: connection, reader group, reader *)
(* and target variables. Each part's result is looked at before the next.  *)
(***************************************************************************)
EXTENDS Steps

addPubSubConnection == <<OrInto("retval", Call({"connection"}, {"server"}))>>

addReaderGroup == <<OrInto("retval", Call({"readerGroup"}, {"connection"})),
                    Call({"operational"}, {"readerGroup"})>>

\* UA_Array_new for the fields is not looked at.
fillTestDataSetMetaData == <<New("fields"), Deref({"fields"})>>

Reader == <<OrInto("retval", Call({"reader"}, {"readerGroup"}))>>
addDataSetReader == fillTestDataSetMetaData \o Reader

\* A slip: the memory is released after a failure only.
addSubscribedVariablesKept ==
    <<Call({"folder"}, {"server"}), New("targetVars")>>
    \o Times(4, <<Reads({"fields"}, OrInto("added", Call({}, {"folder"}))), Deref({"targetVars"})>>)
    \o <<Into("added", Call({"targets"}, {"reader"}))>>
    \o If("added", <<Free({"targetVars"}), Free({"fields"}), Put("retval", 1)>>)

\* What the variables' creation returned is overwritten by the last call.
addSubscribedVariables ==
    <<Call({"folder"}, {"server"}), New("targetVars")>>
    \o Times(4, <<Reads({"fields"}, OrInto("added", Call({}, {"folder"}))), Deref({"targetVars"})>>)
    \o <<Into("added", Call({"targets"}, {"reader"})), Free({"targetVars"}), Free({"fields"})>>
    \o If("added", <<Put("retval", 1)>>)

\* A slip: the readers' result is not looked at, and the variables' is not kept.
SetUpUnchecked == addPubSubConnection \o GiveUp("retval") \o addReaderGroup \o GiveUp("retval")
                  \o addDataSetReader \o addSubscribedVariables \o <<Put("retval", 0)>>

SetUp == addPubSubConnection \o GiveUp("retval") \o addReaderGroup \o GiveUp("retval")
         \o addDataSetReader \o GiveUp("retval") \o addSubscribedVariables \o GiveUp("retval")

run == <<New("server")>> \o SetUp \o RunUntilInterrupt("retval") \o DeleteServer
       \o <<Exit("retval")>>

main == ReadArguments \o run

-----------------------------------------------------------------------------
(* pubsub_subscribe_encrypted.c: keys first, whether or not they are taken.*)

encrypted_addPubSubConnection == addPubSubConnection

\* A slip: the order of the publishers.
encrypted_addReaderGroupLate ==
    <<Reads({"server"}, OrInto("retval", Call({"readerGroup"}, {"connection", "policy"}))),
      Call({"operational"}, {"readerGroup"}), Call({"keys"}, {"readerGroup"})>>

encrypted_addReaderGroup ==
    <<Reads({"server"}, OrInto("retval", Call({"readerGroup"}, {"connection", "policy"}))),
      Call({"keys"}, {"readerGroup"}), Call({"operational"}, {"readerGroup"})>>

encrypted_fillTestDataSetMetaData == fillTestDataSetMetaData
encrypted_addDataSetReader == encrypted_fillTestDataSetMetaData \o Reader
encrypted_addSubscribedVariables == addSubscribedVariables

Policy == <<Deref({"server"}), New("securityPolicies"),
            Reads({"securityPolicies"}, Call({"policy"}, {"config"}))>>

Run == <<Put("retval", 0)>> \o RunServer("retval", "running") \o DeleteServer
       \o <<Exit("retval")>>

SecuredRun(connection, readerGroup, reader, variables) ==
    <<Signal>> \o NewServer \o Policy \o connection \o GiveUp("retval")
    \o readerGroup \o GiveUp("retval") \o reader \o GiveUp("retval")
    \o variables \o GiveUp("retval") \o Run

encrypted_run == SecuredRun(encrypted_addPubSubConnection, encrypted_addReaderGroup,
                            encrypted_addDataSetReader, encrypted_addSubscribedVariables)

encrypted_main == ReadArguments \o encrypted_run

-----------------------------------------------------------------------------
(* pubsub_subscribe_encrypted_tpm.c                                        *)

tpm_addPubSubConnection == addPubSubConnection
tpm_addReaderGroup == encrypted_addReaderGroup
tpm_fillTestDataSetMetaData == fillTestDataSetMetaData
tpm_addDataSetReader == tpm_fillTestDataSetMetaData \o Reader
tpm_addSubscribedVariables == addSubscribedVariables
tpm_run == SecuredRun(tpm_addPubSubConnection, tpm_addReaderGroup,
                      tpm_addDataSetReader, tpm_addSubscribedVariables)
tpm_main == ReadArguments \o tpm_run

-----------------------------------------------------------------------------
(* pubsub_subscribe_standalone_dataset.c: nothing ends it early, and the   *)
(* server runs whatever the set-up returned.                               *)

addTargetVariable == <<Call({"target"}, {"server"})>>

addStandaloneSubscribedDataSet == <<Call({"dataSet"}, {"target"})>>

standalone_addPubSubConnection == <<Call({"connection"}, {"server"})>>
standalone_addReaderGroup == addReaderGroup
standalone_addDataSetReader == <<OrInto("retval", Call({"reader"}, {"readerGroup", "dataSet"}))>>

standalone_run ==
    <<Signal>> \o NewServer \o addTargetVariable \o addStandaloneSubscribedDataSet
    \o standalone_addPubSubConnection \o standalone_addReaderGroup \o standalone_addDataSetReader
    \o RunServer("ran", "running") \o If("ran", <<Put("retval", 1)>>) \o DeleteServer \o <<Exit("retval")>>

standalone_main == ReadArguments \o standalone_run

subscribe == Program(main, {"added"})
subscribeEncrypted == Program(encrypted_main, {"added"})
subscribeTpm == Program(tpm_main, {"added"})
standalone == Program(standalone_main, {"ran"})
=============================================================================
