---------------------------- MODULE AsyncMethods ----------------------------
(***************************************************************************)
(* The asynchronous method server (tutorial_server_method_async.c): a main *)
(* thread that serves the network, a worker thread that takes operations   *)
(* from the library's queue; and its client (client_method_async.c), whose *)
(* every answer starts the next call.                                      *)
(*                                                                         *)
(* The library is external: it splits a call into one operation per        *)
(* method, queues them, gives up on slow ones, and answers a call once all *)
(* of its operations have a result.                                        *)
(***************************************************************************)
EXTENDS Naturals, FiniteSets, Sequences, SequencesExt

CONSTANTS
    MaxId,           \* bound on request ids; one is used again when it is forgotten
    MaxActivations   \* bound on the sessions of the client

VARIABLES
    main,      \* next statement of the server's main()
    running,   \* the server's flag
    methods,   \* the method nodes that are asynchronous
    worker,    \* next statement of ThreadWorker
    request,   \* the operation the worker holds, or None
    alive,     \* the server object exists
    wire,      \* calls under way to the server
    queue,     \* operations waiting for the worker
    results,   \* operation |-> result, of the calls the server has accepted
    back,      \* answers under way to the client
    client,    \* next statement of the client's main()
    session,   \* the client's session is active
    calls,     \* calls the client waits for: id |-> items
    starts,    \* sessions activated so far
    ended      \* history: chains of calls that have ended

serverVars == <<main, running, methods, worker, request, alive, queue, results>>
clientVars == <<client, session, calls, starts, ended>>
vars == <<serverVars, clientVars, wire, back>>

Ids == 1 .. MaxId
None == [id |-> 0]
Pending == [text |-> "pending"]
Bad == [text |-> "bad"]
Hello1 == "hello world"
Hello2 == "hello world 2"
Items(c) == DOMAIN c.items
Op(c, i) == [id |-> c.id, item |-> i, method |-> c.items[i].method, input |-> c.items[i].input]
Ops(c) == {Op(c, i) : i \in Items(c)}
Waiting == {[id |-> i, items |-> calls[i]] : i \in DOMAIN calls}

-----------------------------------------------------------------------------
(* The server.                                                             *)

\* The callbacks prepend Hello to the input; the worker's call runs the one of
\* the method.
HelloWorldMethod1(op) == [text |-> "Hello", of |-> op.input, by |-> Hello1]
HelloWorldMethod2(op) == [text |-> "Hello", of |-> op.input, by |-> Hello2]
HelloWorld(op) == IF op.method = Hello1 THEN HelloWorldMethod1(op)
                                        ELSE HelloWorldMethod2(op)

\* NotifyCallback and the thread come before the methods: the worker polls
\* a server that has no method yet.
StartWorker == /\ main = "start" /\ main' = "method1" /\ worker' = "loop"
               /\ UNCHANGED <<running, methods, request, alive, queue, results>>

AddHelloWorldMethod1 ==
    /\ main = "method1" /\ main' = "method2" /\ methods' = methods \cup {Hello1}
    /\ UNCHANGED <<running, worker, request, alive, queue, results>>

AddHelloWorldMethod2 ==
    /\ main = "method2" /\ main' = "serve" /\ methods' = methods \cup {Hello2}
    /\ UNCHANGED <<running, worker, request, alive, queue, results>>

\* UA_Server_runUntilInterrupt returns.
Interrupt == /\ main = "serve" /\ main' = "stop"
             /\ UNCHANGED <<running, methods, worker, request, alive, queue, results>>

ClearRunning == /\ main = "stop" /\ running' = FALSE /\ main' = "join"
                /\ UNCHANGED <<methods, worker, request, alive, queue, results>>

JoinedAtOnce == TRUE
Joined == worker = "ended"
Join == /\ main = "join" /\ Joined /\ main' = "delete"
        /\ UNCHANGED <<running, methods, worker, request, alive, queue, results>>

DeleteServer == /\ main = "delete" /\ main' = "done" /\ alive' = FALSE
                /\ queue' = <<>> /\ results' = <<>>
                /\ UNCHANGED <<running, methods, worker, request>>

CheckRunning == /\ worker = "loop" /\ worker' = IF running THEN "get" ELSE "ended"
                /\ UNCHANGED <<main, running, methods, request, alive, queue, results>>

\* A slip: an empty queue ends the thread.
GetNothingReturns ==
    /\ worker = "get" /\ queue = <<>> /\ worker' = "ended"
    /\ UNCHANGED <<main, running, methods, request, alive, queue, results>>

\* An empty queue: the worker sleeps and looks again.
GetNothing == /\ worker = "get" /\ queue = <<>> /\ worker' = "loop"
              /\ UNCHANGED <<main, running, methods, request, alive, queue, results>>

GetKeepingIt ==
    /\ worker = "get" /\ queue # <<>>
    /\ request' = Head(queue) /\ worker' = "call"
    /\ UNCHANGED <<main, running, methods, alive, queue, results>>

GetAsyncOperation ==
    /\ worker = "get" /\ queue # <<>>
    /\ request' = Head(queue) /\ queue' = Tail(queue) /\ worker' = "call"
    /\ UNCHANGED <<main, running, methods, alive, results>>

SettleCall(op, r) == [o \in DOMAIN results |->
                        IF o.id = op.id /\ results[o] = Pending THEN r ELSE results[o]]

\* An operation the library has given up on keeps its bad result.
Settle(op, r) == [o \in DOMAIN results |->
                    IF o = op /\ results[o] = Pending THEN r ELSE results[o]]

SetAsyncOperationResult ==
    /\ worker = "call" /\ worker' = "loop" /\ request' = None
    /\ results' = Settle(request, HelloWorld(request))
    /\ UNCHANGED <<main, running, methods, alive, queue>>

Worker == CheckRunning \/ GetNothing \/ GetAsyncOperation \/ SetAsyncOperationResult
Main == \/ StartWorker \/ AddHelloWorldMethod1 \/ AddHelloWorldMethod2
        \/ ClearRunning \/ Join \/ DeleteServer

\* The network loop takes a call in: one operation per method, in their order. It runs
\* only when both methods are there.
Accept(c) ==
    /\ main = "serve" /\ \A op \in Ops(c) : op.method \in methods
    /\ queue' = queue \o [i \in Items(c) |-> Op(c, i)]
    /\ results' = [op \in DOMAIN results \cup Ops(c) |->
                      IF op \in Ops(c) THEN Pending ELSE results[op]]
    /\ wire' = wire \ {c}
    /\ UNCHANGED <<main, running, methods, worker, request, alive, back, clientVars>>

GiveUp(op) ==
    /\ main = "serve" /\ op \in DOMAIN results /\ results[op] = Pending
    /\ results' = Settle(op, Bad)
    /\ \/ op \notin ToSet(queue) /\ UNCHANGED queue
       \/ \E i \in DOMAIN queue : queue[i] = op /\ queue' = RemoveAt(queue, i)
    /\ UNCHANGED <<main, running, methods, worker, request, alive, wire, back, clientVars>>

Answer(id) ==
    LET ops == {op \in DOMAIN results : op.id = id}
        result(i) == results[CHOOSE op \in ops : op.item = i]
    IN  /\ main = "serve" /\ ops # {}
        /\ \A op \in ops : results[op] # Pending
        /\ back' = back \cup {[id |-> id, results |-> [i \in {op.item : op \in ops} |-> result(i)]]}
        /\ results' = [op \in DOMAIN results \ ops |-> results[op]]
        /\ UNCHANGED <<main, running, methods, worker, request, alive, queue, wire,
                       clientVars>>

-----------------------------------------------------------------------------
(* The client.                                                             *)

\* Ids of calls that neither the client nor the server remembers.
Free == {i \in Ids : /\ i \notin DOMAIN calls
                     /\ \A c \in wire \cup back : c.id # i
                     /\ \A op \in DOMAIN results : op.id # i
                     /\ \A k \in DOMAIN queue : queue[k].id # i
                     /\ request # None => request.id # i}

Single(m, text) == << [method |-> m, input |-> text] >>

Multi == Single(Hello2, "World 3 (multi)") \o Single(Hello1, "World 3 (multi)")

\* Sends each of the lists of items under an id of its own, whichever are free; a call
\* that could not be sent has no answer, and its status is looked at by nobody.
Send(kept, lists, sent) ==
    LET fresh == {f \in [DOMAIN lists -> Free] : IsInjective(f)}
        id == CHOOSE f \in fresh : TRUE
    IN /\ fresh # {}
       /\ calls' = [i \in kept \cup {id[k] : k \in sent} |->
                      IF i \in kept THEN calls[i]
                      ELSE lists[CHOOSE k \in sent : id[k] = i]]
       /\ wire' = wire \cup {[id |-> id[k], items |-> lists[k]] : k \in sent}
       /\ ended' = ended + Cardinality(DOMAIN lists \ sent)

\* Without a subscription the callback returns before it calls anything.
StateCallback(subscribed) ==
    /\ session' = TRUE /\ starts' = starts + 1
    /\ IF subscribed
       THEN \E sent \in SUBSET {1, 2} :
              Send({}, <<Single(Hello1, "World 1"), Single(Hello2, "World 2")>>, sent)
       ELSE ended' = ended + 2 /\ UNCHANGED <<calls, wire>>

Connect == /\ client = "connect" /\ main = "serve" /\ client' = "loop"
           /\ \E subscribed \in BOOLEAN : StateCallback(subscribed)
           /\ UNCHANGED <<serverVars, back>>

ConnectFails == /\ client = "connect" /\ client' = "done"
                /\ UNCHANGED <<serverVars, wire, back, session, calls, starts, ended>>

Reactivate == /\ client = "loop" /\ ~session /\ main = "serve"
              /\ starts < MaxActivations
              /\ \E subscribed \in BOOLEAN : StateCallback(subscribed)
              /\ UNCHANGED <<serverVars, back, client>>

\* The calls that methodCalled starts: one, however many results there are and
\* however bad they are.
NextCallPerResult(answers) == [i \in DOMAIN answers |-> Multi]
NextCall(answers) == <<Multi>>

\* The answer, or a time-out of the client, which ends the chain.
MethodCalled(id, serviceGood, answers) ==
    LET kept == DOMAIN calls \ {id}
        next == NextCall(answers)
    IN  IF serviceGood
        THEN \E sent \in SUBSET DOMAIN next : Send(kept, next, sent)
        ELSE /\ calls' = [i \in kept |-> calls[i]]
             /\ ended' = ended + 1
             /\ UNCHANGED wire

Receive(r) == /\ client = "loop" /\ r \in back /\ back' = back \ {r}
              /\ IF session /\ r.id \in DOMAIN calls
                 THEN MethodCalled(r.id, TRUE, r.results)
                 ELSE UNCHANGED <<calls, ended, wire>>
              /\ UNCHANGED <<serverVars, client, session, starts>>

Timeout(id) == /\ client = "loop" /\ id \in DOMAIN calls
               /\ MethodCalled(id, FALSE, <<>>)
               /\ UNCHANGED <<serverVars, back, client, session, starts>>

\* Every call that waits gets a bad answer, and what was under way is lost.
LoseSession == /\ client = "loop" /\ session /\ session' = FALSE
               /\ ended' = ended + Cardinality(DOMAIN calls)
               /\ calls' = <<>> /\ wire' = {} /\ back' = {}
               /\ UNCHANGED <<serverVars, client, starts>>

\* SIGINT, seen at the head of the loop: disconnect and delete.
Stop == /\ client = "loop" /\ client' = "done" /\ session' = FALSE
        /\ ended' = ended + Cardinality(DOMAIN calls)
        /\ calls' = <<>> /\ wire' = {} /\ back' = {}
        /\ UNCHANGED <<serverVars, starts>>

-----------------------------------------------------------------------------
Init == /\ main = "start" /\ running = TRUE /\ methods = {} /\ worker = "new"
        /\ request = None /\ alive = TRUE /\ queue = <<>> /\ results = <<>>
        /\ wire = {} /\ back = {} /\ client = "connect" /\ session = FALSE
        /\ calls = <<>> /\ starts = 0 /\ ended = 0

Next == \/ (Main \/ Worker \/ Interrupt) /\ UNCHANGED <<clientVars, wire, back>>
        \/ \E c \in wire : Accept(c)
        \/ \E op \in DOMAIN results : GiveUp(op)
        \/ \E id \in Ids : Answer(id)
        \/ Connect \/ ConnectFails \/ Reactivate \/ LoseSession \/ Stop
        \/ \E r \in back : Receive(r)
        \/ \E id \in DOMAIN calls : Timeout(id)

Spec == Init /\ [][Next]_vars

\* Each thread of the server runs on; nothing makes the library give up, the
\* client stop or the network deliver.
MainThread == Main /\ UNCHANGED <<clientVars, wire, back>>
WorkerThread == Worker /\ UNCHANGED <<clientVars, wire, back>>
FairSpec == Spec /\ WF_vars(MainThread) /\ WF_vars(WorkerThread)

-----------------------------------------------------------------------------
(* Properties.                                                             *)

Methods == {Hello1, Hello2}
Inputs == {"World 1", "World 2", "World 3 (multi)"}
Operations == [id : Ids, item : {1, 2}, method : Methods, input : Inputs]

TypeOK ==
    /\ running \in BOOLEAN /\ alive \in BOOLEAN /\ session \in BOOLEAN
    /\ methods \subseteq Methods
    /\ request \in Operations \cup {None}
    /\ queue \in Seq(Operations)
    /\ DOMAIN results \subseteq Operations
    /\ DOMAIN calls \subseteq Ids
    /\ starts \in 0 .. MaxActivations /\ ended \in 0 .. 2 * MaxActivations

\* A session starts two chains of calls, and every answer starts at most one
\* new call: a chain is one call that waits, or has ended. However long it
\* runs the client never has more calls out than that.
ChainsAccounted ==
    Cardinality(DOMAIN calls) + ended = 2 * starts

\* The results of a call are of its own methods and inputs, in their order,
\* whichever finished first and whatever the library gave up on.
OwnResults ==
    \A r \in back : \A c \in Waiting : c.id = r.id =>
        /\ Len(r.results) = Len(c.items)
        /\ \A i \in Items(c) :
              \/ r.results[i] = Bad
              \/ /\ r.results[i].by = c.items[i].method
                 /\ r.results[i].of = c.items[i].input

\* An operation without a result is in the queue or with the worker, once.
NothingForgotten ==
    /\ IsInjective(queue)
    /\ request \notin ToSet(queue)
    /\ \A op \in DOMAIN results :
          results[op] = Pending => op = request \/ op \in ToSet(queue)

\* The worker never touches a server that is deleted.
NoUseAfterDelete == worker \notin {"new", "ended"} => alive

Open(id) == \E op \in DOMAIN results : op.id = id /\ results[op] = Pending

\* First come, first served: every operation of a call gets its result although the
\* client starts a new call with every answer.
WorkerServesAll == \A id \in Ids : Open(id) ~> (main # "serve" \/ ~Open(id))

\* All of it in every state.
Inv == TypeOK /\ ChainsAccounted /\ OwnResults /\ NothingForgotten /\ NoUseAfterDelete
=============================================================================
