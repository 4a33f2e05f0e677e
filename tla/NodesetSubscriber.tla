------------------------- MODULE NodesetSubscriber -------------------------
(***************************************************************************)
(* pubsub_nodeset_rt_subscriber.c: the server's own loop receives, a user  *)
(* thread records. Its subscriber thread is declared, written and joined,  *)
(* but nothing creates it.                                                 *)
(***************************************************************************)
EXTENDS Steps

\* exit(1) if the scheduler refuses; a thread that cannot be made is logged.
threadCreation(thread) ==
    <<Into("returnValue", Call({}, {}))>> \o If("returnValue", <<Exit("failure")>>)
        \o <<Into("errorSetAffinity", Call({}, {}))>>
        \o If("errorSetAffinity", <<Exit("failure")>>) \o <<Spawn(thread)>>

\* A slip: it records from the start.
userApplicationAtOnce ==
    While("running",
      Either("fileWrite", "consolePrint",
        <<Reads({"subCounterData", "pressureData"}, Do("updateMeasurementsSubscriber"))>>))

userApplicationSub ==
    While("running",
      Either("fileWrite", "consolePrint",
        ReadsFirst({"subCounterData"}, If("SubCounter",
          <<Reads({"subCounterData", "pressureData"}, Do("updateMeasurementsSubscriber"))>>))))

\* Nobody calls it: as written, it would poll the group.
subscriber ==
    <<Deref({"threadArguments"})>>
    \o While("running", <<Reads({"server"}, Do("take counter")), Do("take pressure")>>)
    \o <<Free({"threadArguments"})>>

-----------------------------------------------------------------------------
(* The set-up of main().                                                   *)

addPubSubConnectionSubscriber ==
    <<Into("refused", Call({"connectionIdentSubscriber"}, {}))>>

addReaderGroup == <<Call({"readerGroupIdentifier"}, {"connectionIdentSubscriber"})>>

Backend == Call({}, {"nodes"})    \* setVariableNode_valueBackend

\* Neither the targets nor the values are checked.
addSubscribedVariables ==
    <<New("targetVars"),
      New("subCounterData"), Reads({"subCounterData"}, Put("SubCounter", 0)),
      New("subDataValueRT"), Deref({"subDataValueRT"}), Backend, Deref({"targetVars"}),
      New("pressureData"), Reads({"pressureData"}, Put("Pressure", 0)),
      New("pressureValueRT"), Deref({"pressureValueRT"}), Backend, Deref({"targetVars"})>>

addDataSetReader ==
    <<New("dataSetReaderMessage"), Deref({"dataSetReaderMessage"}),
      New("fields"), Deref({"fields"})>>
    \o addSubscribedVariables
    \o <<Call({"readerIdentifier"}, {"readerGroupIdentifier"}),
         Free({"targetVars"}), Free({"fields"}), Free({"dataSetReaderMessage"})>>

\* The arguments: help and nonsense end it, so does a missing interface.
Options ==
    <<Signal, New("server"), Deref({"server"}), Call({}, {"server"}),
      Into("refused", Call({"nodes"}, {"server"}))>>
    \o Maybe(<<Put("fileWrite", 1), New("fpSubscriber")>>)
    \o Maybe(<<Put("consolePrint", 1)>>)
    \o Maybe(<<Exit("failure")>>)
    \o Maybe(<<Free({"server"}), Exit("success")>>)

SetUp ==
    addPubSubConnectionSubscriber \o addReaderGroup \o addDataSetReader
    \o <<Call({}, {"readerGroupIdentifier"}), Call({}, {"readerGroupIdentifier"}),
         New("serverConfig"), Deref({"serverConfig"})>>
    \o threadCreation("user")

\* UA_Server_run receives until running is cleared. subthreadID was never set:
\* pthread_join may crash or return an error.
Run ==
    <<OrInto("retval", Call({}, {"server"}))>>
    \o IfNot("retval", While("running",
         <<Reads({"server"}, Do("take counter")), Do("take pressure")>>))
    \o <<Call({}, {"readerGroupIdentifier"})>>
    \o Maybe(<<Put("joining", 1), Deref({"subthreadID"})>>) \o <<Join("user")>>

Write == <<Put("writing", 1), Deref({"fpSubscriber"}), Put("writing", 0)>>

\* The console gets what is written to the file, which is closed or was never
\* opened; the loop is entered only when something was recorded.
CleanUp ==
    If("fileWrite", If("recorded", Write) \o <<Deref({"fpSubscriber"}), Free({"fpSubscriber"})>>)
    \o If("consolePrint", If("recorded", Write))
    \o <<Free({"server"}), Free({"serverConfig"}), Free({"subCounterData"}),
         Free({"subDataValueRT"}), Free({"pressureData"}), Free({"pressureValueRT"}),
         Exit("retval")>>

\* What stopHandler sets, and the globals.
stopHandler == [running |-> 0]

Globals == [running |-> 1, fileWrite |-> 0, consolePrint |-> 0, refused |-> 0,
            retval |-> 0, returnValue |-> 0, errorSetAffinity |-> 0,
            joining |-> 0, writing |-> 0]

subscriberProgram == [main |-> Options \o SetUp \o Run \o CleanUp,
                      subscriber |-> subscriber, user |-> userApplicationSub]
=============================================================================
