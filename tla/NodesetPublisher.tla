-------------------------- MODULE NodesetPublisher --------------------------
(***************************************************************************)
(* pubsub_nodeset_rt_publisher.c: a user thread counts, a publisher thread *)
(* that the library's set-operational call starts sends the counter and    *)
(* the pressure in every cycle, and the server runs in main(). The two     *)
(* nodes come from a generated nodeset.                                    *)
(***************************************************************************)
EXTENDS Steps

\* exit(1) if the scheduler refuses; a thread that cannot be made is logged.
threadCreation(thread) ==
    <<Into("returnValue", Call({}, {}))>> \o If("returnValue", <<Exit("failure")>>)
        \o <<Into("errorSetAffinity", Call({}, {}))>>
        \o If("errorSetAffinity", <<Exit("failure")>>) \o <<Spawn(thread)>>

\* The library calls it from setWriterGroupOperational.
addPubSubApplicationCallback ==
    <<New("threadArguments"), Deref({"threadArguments"})>>
    \o threadCreation("publisher") \o <<Sure(New("pubthreadID"))>>

\* A slip: the pressure does not rise with the counter.
userApplicationPubAlone ==
    <<Reads({"pubCounterData"}, Put("PubCounter", 0))>>
    \o While("running",
         <<Reads({"pubCounterData"}, Do("count on")), Deref({"pressureData"})>>
         \o Either("fileWrite", "consolePrint", <<Do("updateMeasurementsPublisher")>>))

\* A slip: every round starts from zero.
userApplicationResets ==
    While("running",
      <<Reads({"pubCounterData"}, Do("count on")), Reads({"pressureData"}, Do("press on"))>>
      \o Either("fileWrite", "consolePrint",
           <<Reads({"pubCounterData", "pressureData"}, Do("updateMeasurementsPublisher"))>>)
      \o <<Put("PubCounter", 0)>>)

userApplicationPub ==
    <<Reads({"pubCounterData"}, Put("PubCounter", 0))>>
    \o While("running",
         <<Reads({"pubCounterData"}, Do("count on")), Reads({"pressureData"}, Do("press on"))>>
         \o Either("fileWrite", "consolePrint",
              <<Reads({"pubCounterData", "pressureData"}, Do("updateMeasurementsPublisher"))>>))

\* A slip: it goes on as long as there is a server.
publisherForever ==
    <<Deref({"threadArguments"})>>
    \o While("server", <<Reads({"server"}, Do("publish counter")), Do("publish pressure")>>)
    \o <<Free({"threadArguments"})>>

\* pubCallback encodes the two fields one after the other.
publisherETF ==
    <<Deref({"threadArguments"})>>
    \o While("running", <<Reads({"server"}, Do("publish counter")), Do("publish pressure")>>)
    \o <<Free({"threadArguments"})>>

-----------------------------------------------------------------------------
(* The set-up of main().                                                   *)

addPubSubConnection == <<Call({"connectionIdent"}, {})>>

addPublishedDataSet == <<Call({"publishedDataSetIdent"}, {})>>

Backend == Call({}, {"nodes"})    \* setVariableNode_valueBackend

\* None of the four allocations is checked.
_addDataSetField ==
    <<New("pubCounterData"), Reads({"pubCounterData"}, Put("PubCounter", 0)),
      New("pubDataValueRT"), Deref({"pubDataValueRT"}), Backend,
      Call({}, {"publishedDataSetIdent", "nodes"}),
      New("pressureData"), Reads({"pressureData"}, Put("Pressure", 0)),
      New("pressureValueRT"), Deref({"pressureValueRT"}), Backend,
      Call({}, {"publishedDataSetIdent", "nodes"})>>

\* The group is operational, its thread runs, before it has a writer.
addWriterGroup ==
    <<New("writerGroupMessage"),
      Reads({"writerGroupMessage"}, Call({"writerGroupIdent"}, {"connectionIdent"})),
      Into("refused", Call({}, {"writerGroupIdent"}))>>
    \o IfNot("refused", addPubSubApplicationCallback)
    \o <<Free({"writerGroupMessage"})>>

addDataSetWriter == <<Call({"writer"}, {"writerGroupIdent", "publishedDataSetIdent"})>>

\* The arguments: help and nonsense end it, so does a missing interface.
Options ==
    <<Signal, New("server"), Deref({"server"}), Call({}, {"server"}),
      Into("refused", Call({"nodes"}, {"server"}))>>
    \o Maybe(<<Put("fileWrite", 1), New("fpPublisher")>>)
    \o Maybe(<<Put("consolePrint", 1)>>)
    \o Maybe(<<Exit("failure")>>)
    \o Maybe(<<Free({"server"}), Exit("success")>>)

SetUp ==
    addPubSubConnection \o addPublishedDataSet \o _addDataSetField
    \o addWriterGroup \o addDataSetWriter \o <<Call({}, {"writerGroupIdent"})>>
    \o <<New("serverConfig"), Deref({"serverConfig"})>> \o threadCreation("user")

\* A slip: the user thread is not waited for.
RunAlone == RunServer("retval", "running") \o <<Join("publisher")>>

\* pthread_join of an id that was never set may crash or return an error.
Run ==
    RunServer("retval", "running")
    \o Maybe(<<Deref({"pubthreadID"})>>) \o <<Join("publisher"), Join("user")>>

\* The file is closed in the end, by fclose or with the process.
CleanUp ==
    If("fileWrite", <<Deref({"fpPublisher"})>>)
    \o <<Free({"server"}), Free({"serverConfig"}), Free({"pubCounterData"}),
         Free({"pubDataValueRT"}), Free({"pressureData"}), Free({"pressureValueRT"}),
         Exit("retval")>>

\* What stopHandler sets, and the globals.
stopHandler == [running |-> 0]

Globals == [running |-> 1, fileWrite |-> 0, consolePrint |-> 0, refused |-> 0,
            retval |-> 0, returnValue |-> 0, errorSetAffinity |-> 0]

publisher == [main |-> Options \o SetUp \o Run \o CleanUp,
              publisher |-> publisherETF, user |-> userApplicationPub]
=============================================================================
