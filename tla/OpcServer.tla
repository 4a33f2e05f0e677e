----------------------------- MODULE OpcServer -----------------------------
(***************************************************************************)
(* The server, src/server_main.cpp: its start, statement by statement with *)
(* every result it does not look at, the three variables, the two logins,  *)
(* the item that samples the second variable, the run loop, the end of the *)
(* process and its restart. Clients log in, write, and leave; a write may  *)
(* be under way for as long as it likes.                                   *)
(***************************************************************************)
EXTENDS Naturals, Functions

CONSTANTS Clients,
          Data,        \* what a client may write, beside the type
          MaxWrites,   \* bound: writes sent
          MaxStarts    \* bound: starts of the process

ASSUME ServerAssumption == MaxWrites \in Nat /\ MaxStarts \in Nat

VARIABLES
    pc,         \* the next statement of main(), or how the process ended
    policies,   \* securityPoliciesSize
    control,    \* who config->accessControl lets in
    value,      \* the variable nodes: name |-> value
    item,       \* the monitored item: none, or the value it last reported
    session,    \* client |-> the user it is logged in as
    wire,       \* writes under way
    deleted,    \* UA_Server_delete was called
    retval, writes, starts

process == <<policies, control, value, item, session, deleted, retval>>
vars == <<pc, process, wire, writes, starts>>

Names == {"variable1", "variable2", "variable3"}
Types == {"Double", "String", "Int32"}
KnownUsers == {"peter", "paula"}
Strangers == {"anonymous", "peterWithWrongPassword"}
Value(t, d) == [type |-> t, data |-> d]
First == "asStarted"
None == "none"
Missing == Value(None, None)
Nothing == [n \in Names |-> Missing]
Exists(n) == value[n] # Missing
NoSessions == [c \in Clients |-> None]

Variable1 == [name |-> "variable1", value |-> Value("Double", First)]
Variable2 == [name |-> "variable2", value |-> Value("String", First)]
Variable3 == [name |-> "variable3", value |-> Value("Int32", First)]
Initial == [n \in Names |->
              (CHOOSE v \in {Variable1, Variable2, Variable3} : v.name = n).value]

Ended == {"crashed", "killed", "returned"}

Init == /\ pc = "returned" /\ policies = 0 /\ control = None /\ value = Nothing
        /\ item = Missing /\ session = NoSessions /\ wire = {} /\ deleted = TRUE
        /\ retval = "good" /\ writes = 0 /\ starts = 0

-----------------------------------------------------------------------------
(* main()                                                                  *)

\* A new process: nothing is kept from the one before.
Start ==
    /\ pc \in Ended /\ starts < MaxStarts /\ starts' = starts + 1
    /\ pc' = "setDefault" /\ policies' = 0 /\ control' = None /\ value' = Nothing
    /\ item' = Missing /\ session' = NoSessions /\ deleted' = FALSE /\ retval' = "good"
    /\ UNCHANGED <<wire, writes>>

\* No server, or a function or an array that is not there.
NewFails == pc = "setDefault" /\ pc' = "crashed"
            /\ UNCHANGED <<process, wire, writes, starts>>

\* The default configuration lets anyone in; it may fail before or after it has
\* added a policy, or the access control, and its result is not looked at.
SetDefault ==
    /\ pc = "setDefault" /\ pc' = "clear"
    /\ policies' \in {0, 1} /\ control' \in {None, "anyone"}
    /\ UNCHANGED <<value, item, session, wire, deleted, retval, writes, starts>>

\* config->accessControl.clear, a null pointer if the default never set it.
ClearAccess ==
    /\ pc = "clear"
    /\ IF control = None THEN pc' = "crashed" /\ UNCHANGED control
                         ELSE pc' = "access" /\ control' = "nobody"
    /\ UNCHANGED <<policies, value, item, session, wire, deleted, retval, writes, starts>>

\* Slips: the control is left as it was if it cannot be replaced, or the third
\* argument of the call is TRUE.
AccessControlKept ==
    /\ pc = "access" /\ pc' = "variable1"
    /\ \/ control' = "knownUsers" /\ retval' = "good"
       \/ control' = "anyone" /\ retval' = "bad"
    /\ UNCHANGED <<policies, value, item, session, wire, deleted, writes, starts>>

\* The last policy of the array; before the first one if the array is empty,
\* and what is read there may end the process or be refused.
AccessControl ==
    /\ pc = "access"
    /\ \/ pc' = "variable1" /\ policies > 0
          /\ control' = "knownUsers" /\ retval' = "good"
       \/ pc' = "variable1" /\ retval' = "bad" /\ UNCHANGED control
       \/ pc' = "crashed" /\ policies = 0 /\ UNCHANGED <<control, retval>>
    /\ UNCHANGED <<policies, value, item, session, wire, deleted, writes, starts>>

\* UA_Server_addVariableNode; its result is not looked at.
AddVariable(v, next) ==
    /\ pc = v.name /\ pc' = next
    /\ \/ value' = [value EXCEPT ![v.name] = v.value]
       \/ UNCHANGED value
    /\ UNCHANGED <<policies, control, item, session, wire, deleted, retval, writes, starts>>

AddVariables == \/ AddVariable(Variable1, "variable2")
                \/ AddVariable(Variable2, "variable3")
                \/ AddVariable(Variable3, "monitor")

\* Needs the node; the first sample is the value it has.
AddMonitoredItemVariable ==
    /\ pc = "monitor" /\ pc' = "run"
    /\ \/ Exists("variable2") /\ item' = value["variable2"]
       \/ UNCHANGED item
    /\ UNCHANGED <<policies, control, value, session, wire, deleted, retval, writes, starts>>

\* UA_Server_run returns at once if it cannot listen; its result replaces that
\* of the access control.
RunFails ==
    /\ pc = "run" /\ pc' = "delete" /\ retval' = "bad"
    /\ UNCHANGED <<policies, control, value, item, session, wire, deleted, writes, starts>>

Listen == /\ pc = "run" /\ pc' = "serve" /\ retval' = "good"
          /\ UNCHANGED <<policies, control, value, item, session, wire, deleted,
                         writes, starts>>

Delete == /\ pc = "delete" /\ pc' = "returned" /\ deleted' = TRUE
          /\ value' = Nothing /\ item' = Missing
          /\ UNCHANGED <<policies, control, session, wire, retval, writes, starts>>

\* SIGINT: no handler is installed, so nobody clears running.
Sigint == /\ pc \notin Ended /\ pc' = "killed"
          /\ UNCHANGED <<process, wire, writes, starts>>

-----------------------------------------------------------------------------
(* The loop of UA_Server_run: clients, and the sampling every 100 ms.      *)

Admits(user) == CASE control = "anyone" -> TRUE
                  [] control = "knownUsers" -> user \in KnownUsers
                  [] OTHER -> FALSE

Login(c, user) ==
    /\ pc = "serve" /\ session[c] = None /\ Admits(user)
    /\ session' = [session EXCEPT ![c] = user]
    /\ UNCHANGED <<pc, policies, control, value, item, wire, deleted, retval, writes, starts>>

Logout(c) ==
    /\ pc = "serve" /\ session[c] # None /\ session' = [session EXCEPT ![c] = None]
    /\ UNCHANGED <<pc, policies, control, value, item, wire, deleted, retval, writes, starts>>

\* An access control that was cleared and not replaced has lost its context.
LoginCrashes == /\ pc = "serve" /\ control = "nobody" /\ pc' = "crashed"
                /\ UNCHANGED <<process, wire, writes, starts>>

Send(c) ==
    /\ pc = "serve" /\ session[c] # None /\ writes < MaxWrites
    /\ writes' = writes + 1
    /\ \E n \in Names, t \in {"String", "Int32"}, d \in Data :
         wire' = wire \cup {[from |-> c, start |-> starts, name |-> n, value |-> Value(t, d)]}
    /\ UNCHANGED <<pc, process, starts>>

\* A slip: attributes without a dataType accept every value.
AcceptsAny(w) == session[w.from] # None /\ w.start = starts /\ Exists(w.name)

\* The session of the request is known, and the type is that of the node.
Accepts(w) == /\ session[w.from] # None /\ w.start = starts
              /\ Exists(w.name) /\ value[w.name].type = w.value.type

Receive(w) ==
    /\ pc = "serve" /\ wire' = wire \ {w}
    /\ value' = IF Accepts(w) THEN [value EXCEPT ![w.name] = w.value] ELSE value
    /\ UNCHANGED <<pc, policies, control, item, session, deleted, retval, writes, starts>>

Lose(w) == wire' = wire \ {w} /\ UNCHANGED <<pc, process, writes, starts>>

Changed == pc = "serve" /\ item # Missing /\ item # value["variable2"]

\* dataChangeNotificationCallback
Sample == /\ Changed /\ item' = value["variable2"]
          /\ UNCHANGED <<pc, policies, control, value, session, wire, deleted,
                         retval, writes, starts>>

Main == \/ SetDefault \/ NewFails \/ ClearAccess \/ AccessControl \/ AddVariables
        \/ AddMonitoredItemVariable \/ RunFails \/ Listen \/ Delete

Next == \/ Start \/ Main \/ Sigint \/ LoginCrashes \/ Sample
        \/ \E c \in Clients : Send(c) \/ Logout(c)
        \/ \E c \in Clients, u \in KnownUsers \cup Strangers : Login(c, u)
        \/ \E w \in wire : Receive(w) \/ Lose(w)

Spec == Init /\ [][Next]_vars

-----------------------------------------------------------------------------

TypeOK ==
    /\ pc \in Ended \cup Names \cup
              {"setDefault", "clear", "access", "monitor", "run", "serve", "delete"}
    /\ policies \in {0, 1} /\ control \in {None, "anyone", "nobody", "knownUsers"}
    /\ DOMAIN value = Names
    /\ \A n \in Names : Exists(n) => value[n].type = Initial[n].type
    /\ item = Missing \/ item.type = "String"
    /\ session \in [Clients -> KnownUsers \cup Strangers \cup {None}]
    /\ \A w \in wire : w.start \in 1 .. starts
    /\ retval \in {"good", "bad"}

\* However much of the start has failed (lines 40 to 44 look at no result), the
\* default control that lets anyone in is never the one the server serves with.
NobodyUninvited == /\ TypeOK
                   /\ pc = "serve" => control \in {"knownUsers", "nobody"}
                   /\ \A c \in Clients : session[c] \notin Strangers

\* The registers: values are lost with the process, have the type of lines 50,
\* 62 and 74 for good, and change only while peter or paula is logged in.
Promise == INSTANCE Registers WITH
    Absent <- Missing, Down <- [n \in Names |-> Value("down", None)],
    reg <- [n \in Names |-> IF pc = "serve" THEN value[n] ELSE Value("down", None)],
    loggedIn <- IF pc = "serve" THEN Range(session) \ {None} ELSE {}
ImplementsRegisters == Promise!Spec
=============================================================================
