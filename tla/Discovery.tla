----------------------------- MODULE Discovery -----------------------------
(***************************************************************************)
(* A local discovery server, servers that register with it (one knows its  *)
(* address, one waits until it announces itself on the network) and a      *)
(* client that asks it for all servers and then each server for its        *)
(* endpoints. Any call may fail, its answer may be lost, any server may be *)
(* interrupted or killed, and the discovery server restarted.              *)
(***************************************************************************)
EXTENDS Naturals, Sequences, Functions

CONSTANTS
    Registers,   \* processes of server_register.c
    Multicasts,  \* processes of server_multicast.c
    Bare,        \* servers that register without an address
    Equipped,    \* servers that were given a certificate and a key
    Offers,      \* what the discovery server may offer: sequences of endpoints
    MaxStarts    \* bound: starts of the discovery server

\* From the lowest; a description nobody filled in has the mode Invalid.
Modes == <<"Invalid", "None", "Sign", "SignAndEncrypt">>
Rank(mode) == CHOOSE i \in DOMAIN Modes : Modes[i] = mode
Known == {"None", "Basic128"}

Servers == Registers \cup Multicasts

VARIABLES
    up, starts,  \* the discovery server runs; how often it was started
    list,        \* the servers it knows
    offer,       \* its endpoints
    pc,          \* server |-> its next statement
    running,     \* server |-> its flag
    url,         \* server |-> discovery_url: "null", "there" or "freed"
    endpoint,    \* server |-> the mode of endpointRegister, or "null"
    said,        \* server |-> the mode it registered with
    failed,      \* the servers with a call that failed
    exit,        \* server |-> how it ended
    asking,      \* the client's next statement
    found,       \* the servers the client was told of
    todo, tried  \* those it has not come to, and those it has asked

ldsVars == <<up, starts, list, offer>>
serverVars == <<pc, running, url, endpoint, said, failed, exit>>
clientVars == <<asking, found, todo, tried>>
vars == <<ldsVars, serverVars, clientVars>>

Init == /\ up = FALSE /\ starts = 0 /\ list = {} /\ offer \in Offers
        /\ pc = [s \in Servers |-> "start"] /\ running = [s \in Servers |-> TRUE]
        /\ url = [s \in Servers |-> "null"] /\ endpoint = [s \in Servers |-> "null"]
        /\ said = [s \in Servers |-> "null"] /\ failed = {}
        /\ exit = [s \in Servers |-> "no"]
        /\ asking = "network" /\ found = {} /\ todo = {} /\ tried = {}

-----------------------------------------------------------------------------
(* The discovery server: UA_Server_run until SIGINT.                       *)

LdsStart == /\ ~up /\ starts < MaxStarts /\ up' = TRUE /\ starts' = starts + 1
            /\ UNCHANGED <<list, offer, serverVars, clientVars>>

LdsStop == /\ up /\ up' = FALSE /\ list' = {}
           /\ UNCHANGED <<starts, offer, serverVars, clientVars>>

\* An entry that was not renewed in time; no server here renews its own.
Cleanup(s) == /\ up /\ s \in list /\ list' = list \ {s}
              /\ UNCHANGED <<up, starts, offer, serverVars, clientVars>>

-----------------------------------------------------------------------------
(* The servers                                                             *)

At(s, label) == exit[s] = "no" /\ pc[s] = label
Goto(s, label) == pc' = [pc EXCEPT ![s] = label]

\* Every path to an exit but one, of Lookup, frees what it has.
Leave(s, how) == /\ exit' = [exit EXCEPT ![s] = how]
                 /\ endpoint' = [endpoint EXCEPT ![s] = "null"]
                 /\ UNCHANGED pc

Failing(s) == failed' = failed \cup {s}

\* Before the callback is installed a failure is the end, also of a url.
Start(s) ==
    /\ At(s, "start")
    /\ \/ /\ Goto(s, IF s \in Multicasts THEN "wait" ELSE "register")
          /\ UNCHANGED <<endpoint, exit, failed>>
       \/ s \in Multicasts /\ Leave(s, "failure") /\ Failing(s)
    /\ UNCHANGED <<ldsVars, running, url, said, clientVars>>

\* serverOnNetworkCallback, called while the server iterates: the address comes
\* with the TXT record of an announcement.
Hear(s) ==
    /\ At(s, "wait") \/ At(s, "serve")
    /\ up /\ s \in Multicasts /\ url[s] = "null"
    /\ url' = [url EXCEPT ![s] = "there"]
    /\ UNCHANGED <<ldsVars, pc, running, endpoint, said, failed, exit, clientVars>>

\* The end of the loop that waits for an address or a signal.
Waited(s) ==
    /\ At(s, "wait")
    /\ \/ ~running[s] /\ Leave(s, "success")
          /\ url' = [url EXCEPT ![s] = IF @ = "there" THEN "freed" ELSE @]
       \/ running[s] /\ url[s] # "null" /\ Goto(s, "endpoint")
          /\ UNCHANGED <<url, endpoint, exit>>
    /\ UNCHANGED <<ldsVars, running, said, failed, clientVars>>

\* A slip: the first endpoint will do.
BestFirst(o) == IF o = <<>> THEN "null" ELSE o[1].mode

\* getRegisterEndpointFromServer, which keeps the best mode after each endpoint: the
\* highest of those whose policy it knows.
Best(o) ==
    LET after[i \in 0 .. Len(o)] ==
            IF i = 0 THEN "null"
            ELSE IF o[i].policy \in Known
                    /\ (after[i - 1] = "null" \/ Rank(after[i - 1]) < Rank(o[i].mode))
                 THEN o[i].mode
                 ELSE after[i - 1]
    IN  after[Len(o)]

\* A slip: the pointer is cleared after it is freed.
LookupClears(s) ==
    /\ At(s, "endpoint") /\ url' = [url EXCEPT ![s] = "null"]
    /\ \E answer \in {"null"} \cup (IF up THEN {Best(offer)} ELSE {}) :
           /\ endpoint' = [endpoint EXCEPT ![s] = answer]
           /\ IF answer \in {"null", "Invalid"}
              THEN exit' = [exit EXCEPT ![s] = "failure"] /\ UNCHANGED pc
              ELSE Goto(s, "client") /\ UNCHANGED exit
    /\ UNCHANGED <<ldsVars, running, said, failed, clientVars>>

\* The address is freed and not cleared, which keeps the callback from setting it.
\* Without an endpoint or a mode the program ends, and a description that was found
\* is not deleted.
Lookup(s) ==
    /\ At(s, "endpoint") /\ url' = [url EXCEPT ![s] = "freed"]
    /\ \E answer \in {"null"} \cup (IF up THEN {Best(offer)} ELSE {}) :
           /\ endpoint' = [endpoint EXCEPT ![s] = answer]
           /\ IF answer \in {"null", "Invalid"}
              THEN exit' = [exit EXCEPT ![s] = "failure"] /\ UNCHANGED pc
              ELSE Goto(s, "client") /\ UNCHANGED exit
    /\ UNCHANGED <<ldsVars, running, said, failed, clientVars>>

\* getRegisterClient: signing alone is refused, anything else needs a key.
Serves(s, mode) == mode = "None" \/ (mode # "Sign" /\ s \in Equipped)

Client(s) ==
    /\ At(s, "client")
    /\ IF Serves(s, endpoint[s])
       THEN Goto(s, "register") /\ UNCHANGED <<endpoint, exit>>
       ELSE Leave(s, "failure")
    /\ UNCHANGED <<ldsVars, running, url, said, failed, clientVars>>

\* UA_Server_registerDiscovery. server_register.c speaks without encryption.
Register(s) ==
    /\ At(s, "register")
    /\ \/ /\ up /\ list' = list \cup {s} /\ Goto(s, "serve")
          /\ said' = [said EXCEPT ![s] = IF s \in Multicasts THEN endpoint[s] ELSE "None"]
          /\ UNCHANGED <<endpoint, exit, failed>>
       \/ /\ list' \in {list, IF up THEN list \cup {s} ELSE list}
          /\ Leave(s, "failure") /\ Failing(s) /\ UNCHANGED said
    /\ UNCHANGED <<up, starts, offer, running, url, clientVars>>

Stop(s) == /\ At(s, "serve") /\ ~running[s] /\ Goto(s, "deregister")
           /\ UNCHANGED <<ldsVars, running, url, endpoint, said, failed, exit, clientVars>>

\* A slip: the exit code of both programs is a success.
DeregisterCareless(s) ==
    /\ At(s, "deregister")
    /\ \/ up /\ list' = list \ {s} /\ UNCHANGED failed
       \/ list' \in {list, list \ {s}} /\ Failing(s)
    /\ Leave(s, "success")
    /\ UNCHANGED <<up, starts, offer, running, url, said, clientVars>>

\* server_multicast.c reports a failure in its exit code, server_register.c does not.
Deregister(s) ==
    /\ At(s, "deregister")
    /\ \/ up /\ list' = list \ {s} /\ Leave(s, "success") /\ UNCHANGED failed
       \/ /\ list' \in {list, list \ {s}} /\ Failing(s)
          /\ Leave(s, IF s \in Multicasts THEN "failure" ELSE "success")
    /\ UNCHANGED <<up, starts, offer, running, url, said, clientVars>>

Sigint(s) == /\ exit[s] = "no" /\ running[s] /\ running' = [running EXCEPT ![s] = FALSE]
             /\ UNCHANGED <<ldsVars, pc, url, endpoint, said, failed, exit, clientVars>>

Kill(s) == /\ exit[s] = "no" /\ exit' = [exit EXCEPT ![s] = "killed"]
           /\ UNCHANGED <<ldsVars, pc, running, url, endpoint, said, failed, clientVars>>

Step(s) == \/ Start(s) \/ Waited(s) \/ Lookup(s) \/ Client(s)
           \/ Register(s) \/ Stop(s) \/ Deregister(s)

-----------------------------------------------------------------------------
(* The client                                                              *)

\* UA_Client_findServersOnNetwork: without it the client is content.
FindOnNetwork ==
    /\ asking = "network" /\ asking' \in {"success"} \cup (IF up THEN {"find"} ELSE {})
    /\ UNCHANGED <<ldsVars, serverVars, found, todo, tried>>

FindServers ==
    /\ asking = "find"
    /\ \/ asking' = "failure" /\ UNCHANGED <<found, todo>>
       \/ up /\ asking' = "ask" /\ found' = list /\ todo' = list
    /\ UNCHANGED <<ldsVars, serverVars, tried>>

\* A slip: a server without an address ends the loop.
AskStrict(s) ==
    /\ asking = "ask" /\ s \in todo /\ todo' = todo \ {s}
    /\ \/ s \in Bare /\ asking' = "success" /\ UNCHANGED tried
       \/ s \notin Bare /\ At(s, "serve") /\ tried' = tried \cup {s} /\ UNCHANGED asking
       \/ s \notin Bare /\ tried' = tried \cup {s} /\ asking' = "cut short"
    /\ UNCHANGED <<ldsVars, serverVars, found>>

\* The loop over the answer: one without an address is skipped, one that does
\* not answer ends the loop.
Ask(s) ==
    /\ asking = "ask" /\ s \in todo /\ todo' = todo \ {s}
    /\ \/ s \in Bare /\ UNCHANGED <<tried, asking>>
       \/ s \notin Bare /\ At(s, "serve") /\ tried' = tried \cup {s} /\ UNCHANGED asking
       \/ s \notin Bare /\ tried' = tried \cup {s} /\ asking' = "cut short"
    /\ UNCHANGED <<ldsVars, serverVars, found>>

\* main() returns EXIT_SUCCESS also after a loop that was cut short.
AskedAll == /\ asking = "ask" /\ todo = {} /\ asking' = "success"
            /\ UNCHANGED <<ldsVars, serverVars, found, todo, tried>>

-----------------------------------------------------------------------------

Next == \/ LdsStart \/ LdsStop \/ FindOnNetwork \/ FindServers \/ AskedAll
        \/ \E s \in Servers : \/ Step(s) \/ Hear(s) \/ Sigint(s) \/ Kill(s)
                              \/ Cleanup(s) \/ Ask(s)

Spec == Init /\ [][Next]_vars

\* A started process goes on; nothing makes others start, announce or stop.
FairSpec == Spec /\ \A s \in Servers : WF_vars(Step(s))

TypeOK ==
    /\ list \subseteq Servers /\ starts \in 0 .. MaxStarts /\ failed \subseteq Servers
    /\ \A s \in Servers :
           /\ pc[s] \in {"start", "wait", "endpoint", "client", "register", "serve",
                         "deregister"}
           /\ url[s] \in {"null", "there", "freed"}
           /\ exit[s] \in {"no", "success", "failure", "killed"}
           /\ endpoint[s] # "null" => url[s] = "freed"
           /\ {endpoint[s], said[s]} \subseteq {"null"} \cup Range(Modes)
    /\ tried \cup todo \subseteq found /\ found \subseteq Servers

\* However often the discovery server announces itself, the address that was kept
\* is freed before the process ends by itself (server_multicast.c:271, 281, 290). So is
\* the endpoint description, but for one without a valid mode: lines 291 to 296 end
\* the program as if there were none and leave it behind.
NothingLeft ==
    \A s \in Servers : exit[s] \in {"success", "failure"} =>
        /\ url[s] # "there"
        /\ endpoint[s] = "null" \/ (exit[s] = "failure" /\ endpoint[s] = "Invalid")

\* A server registers over the highest mode that is offered with a policy it knows
\* (server_multicast.c:92-106) or not at all: lacking a key it does not fall back. It
\* never does over an endpoint whose mode is Invalid (291), although getRegisterClient
\* takes that for an encrypted one.
NoFallback ==
    \A s \in Multicasts :
        /\ said[s] # "Invalid"
        /\ \A i \in DOMAIN offer : said[s] # "null" /\ offer[i].policy \in Known =>
                                       Rank(offer[i].mode) <= Rank(said[s])

\* A server that waited for the discovery server and ends with a success is not
\* in the list (server_multicast.c:332-340); the other one only if it was told.
SuccessIsUnlisted ==
    \A s \in Servers : exit[s] = "success" =>
                           s \notin list \/ (s \in Registers /\ s \in failed)

\* If every server answers, each one with an address is asked (client_find_servers.c:123).
AsksWhoAnswers == (asking = "success" /\ found # {}) => found \ Bare \subseteq tried

\* Interrupted, every server ends, whatever it was waiting for.
StopsAfterSigint == \A s \in Servers : ~running[s] ~> exit[s] # "no"

\* All of it in every state.
Inv == TypeOK /\ NothingLeft /\ NoFallback /\ SuccessIsUnlisted /\ AsksWhoAnswers
=============================================================================
