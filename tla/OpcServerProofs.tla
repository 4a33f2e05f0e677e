--------------------------- MODULE OpcServerProofs ---------------------------
(***************************************************************************)
(* For any clients, any data and any bounds: nobody uninvited ever has a   *)
(* session, and the server implements the registers it promises.           *)
(***************************************************************************)
EXTENDS OpcServer, TLAPS

Starting == {"setDefault", "clear"}
Adding == Names \cup {"monitor", "run"}

\* A write under way was sent by a client to a server that has been started.
Writes == [from : Clients, start : Nat, name : Names,
           value : [type : {"String", "Int32"}, data : Data]]

Typed ==
    /\ pc \in Ended \cup Starting \cup Adding \cup {"access", "serve", "delete"}
    /\ policies \in {0, 1} /\ control \in {None, "anyone", "nobody", "knownUsers"}
    /\ DOMAIN value = Names
    /\ \A n \in Names : Exists(n) => value[n].type = Initial[n].type
    /\ item = Missing \/ item.type = "String"
    /\ session \in [Clients -> KnownUsers \cup Strangers \cup {None}]
    /\ starts \in Nat /\ wire \subseteq Writes
    /\ \A w \in wire : w.start \in 1 .. starts
    /\ retval \in {"good", "bad"}

\* From line 40 on the default control is gone, and nothing brings it back.
Guarded == /\ pc = "access" => control = "nobody"
           /\ pc \in Adding \cup {"serve"} => control \in {"knownUsers", "nobody"}

\* Nobody is in before the loop runs, and later only who was let in.
Invited == /\ \A c \in Clients : session[c] \in KnownUsers \cup {None}
           /\ pc \in Starting \cup Adding \cup {"access"} => session = NoSessions

\* Before the loop runs a variable has its first value or is not there.
Untouched == pc \in Starting \cup Adding \cup {"access"} =>
                 \A n \in Names : value[n] \in {Missing, Initial[n]}

\* A process that runs has been started.
Running == pc = "returned" \/ starts > 0

IInv == Typed /\ Guarded /\ Invited /\ Untouched /\ Running

-----------------------------------------------------------------------------
(* The values the nodes are added with.                                    *)

\* Each node is added with its own value: a real number, a text, an integer.
LEMMA Initials == /\ Initial["variable1"] = Value("Double", First)
                  /\ Initial["variable2"] = Value("String", First)
                  /\ Initial["variable3"] = Value("Int32", First)
  <1>1. ASSUME NEW v \in {Variable1, Variable2, Variable3}
        PROVE  (CHOOSE w \in {Variable1, Variable2, Variable3} : w.name = v.name) = v
    <2>1. /\ Variable1.name = "variable1" /\ Variable2.name = "variable2"
          /\ Variable3.name = "variable3"
      BY DEF Variable1, Variable2, Variable3
    <2>2. \A w \in {Variable1, Variable2, Variable3} : w.name = v.name => w = v
      BY <2>1
    <2> QED
      BY <2>2
  <1>2. \A v \in {Variable1, Variable2, Variable3} : v.name \in Names => Initial[v.name] = v.value
    BY <1>1 DEF Initial
  <1> QED
    BY <1>2 DEF Names, Variable1, Variable2, Variable3

\* Their types.
LEMMA InitialTypes == /\ Initial["variable1"].type = "Double"
                      /\ Initial["variable2"].type = "String"
                      /\ Initial["variable3"].type = "Int32"
  BY Initials DEF Value

\* So the three have one of the three types, and are there.
LEMMA InitialTyped == \A n \in Names : /\ Initial[n].type \in Types
                                       /\ Initial[n] # Missing
  <1>1. \A t, d : Value(t, d).type = t
    BY DEF Value
  <1> QED
    BY <1>1, Initials DEF Names, Types, Missing, None

\* What is added has the name and the value of its node.
LEMMA Added ==
  /\ Variable1.name = "variable1" /\ Variable1.value = Initial["variable1"]
  /\ Variable2.name = "variable2" /\ Variable2.value = Initial["variable2"]
  /\ Variable3.name = "variable3" /\ Variable3.value = Initial["variable3"]
  BY Initials DEF Variable1, Variable2, Variable3

-----------------------------------------------------------------------------
(* The invariant.                                                          *)

\* It holds before the first start.
LEMMA InitInvariant == Init => IInv
  <1> SUFFICES ASSUME Init PROVE IInv
    OBVIOUS
  <1> USE DEF Init, Ended, Starting, Adding, Names, None, Nothing, NoSessions, Missing
  <1>1. Typed
    BY DEF Typed, Exists
  <1>2. Guarded
    BY DEF Guarded
  <1>3. Invited
    BY DEF Invited
  <1>4. Untouched
    BY DEF Untouched
  <1>5. Running
    BY DEF Running
  <1> QED
    BY <1>1, <1>2, <1>3, <1>4, <1>5 DEF IInv

\* Every step keeps it.
LEMMA StepInvariant == IInv /\ [Next]_vars => IInv'
  <1> SUFFICES ASSUME IInv, [Next]_vars PROVE IInv'
    OBVIOUS
  <1> USE DEF IInv
  <1>1. CASE UNCHANGED vars
    BY <1>1 DEF vars, process, Typed, Guarded, Invited, Untouched, Running, Exists
  <1>2. CASE Start
    <2> USE <1>2 DEF Start, Ended, Starting, Adding, Names, None, Nothing, NoSessions, Missing
    <2>1. starts' \in Nat /\ \A w \in wire' : w.start \in 1 .. starts'
      BY DEF Typed, Writes
    <2>2. DOMAIN value' = Names /\ \A n \in Names : value'[n] = Missing
      OBVIOUS
    <2>3. Typed'
      BY <2>1, <2>2 DEF Typed, Exists
    <2>4. Guarded' /\ Invited' /\ Running'
      BY DEF Guarded, Invited, Running, Typed
    <2>5. Untouched'
      BY DEF Untouched
    <2> QED
      BY <2>3, <2>4, <2>5
  <1>3. CASE \/ NewFails \/ SetDefault \/ ClearAccess \/ AccessControl \/ RunFails \/ Listen
             \/ Sigint \/ LoginCrashes
    <2> USE <1>3 DEF NewFails, SetDefault, ClearAccess, AccessControl, RunFails, Listen, Sigint,
                     LoginCrashes, process, Ended, Starting, Adding, Names, None
    <2>1. Typed'
      BY DEF Typed, Exists
    <2>2. Guarded'
      BY DEF Guarded, Typed
    <2>3. Invited' /\ Running'
      BY DEF Invited, Running
    <2>4. Untouched'
      BY DEF Untouched
    <2> QED
      BY <2>1, <2>2, <2>3, <2>4
  <1>4. ASSUME NEW name \in Names, NEW next \in {"variable2", "variable3", "monitor"},
               NEW v, v.name = name, v.value = Initial[name], AddVariable(v, next)
        PROVE  IInv'
    <2> USE <1>4 DEF AddVariable, Ended, Starting, Adding, Names
    <2>1. DOMAIN value = Names
      BY DEF Typed
    <2>2. DOMAIN value' = Names /\ \A n \in Names : value'[n] \in {Initial[n], value[n]}
      BY <2>1
    <2>3. Typed'
      BY <2>2 DEF Typed, Exists
    <2>4. Guarded' /\ Invited' /\ Running'
      BY DEF Guarded, Invited, Running, Typed
    <2>5. Untouched'
      BY <2>2 DEF Untouched
    <2> QED
      BY <2>3, <2>4, <2>5
  <1>5. CASE AddVariables
    BY <1>4, <1>5, Added DEF AddVariables, Names
  <1>6. CASE AddMonitoredItemVariable
    <2> USE <1>6 DEF AddMonitoredItemVariable, Ended, Starting, Adding, Names
    <2>1. item' = Missing \/ item'.type = "String"
      BY InitialTypes DEF Typed
    <2>2. Typed'
      BY <2>1 DEF Typed, Exists
    <2>3. Guarded' /\ Invited' /\ Untouched' /\ Running'
      BY DEF Guarded, Invited, Untouched, Running
    <2> QED
      BY <2>2, <2>3
  <1>7. CASE Delete
    <2> USE <1>7 DEF Delete, Ended, Starting, Adding, Names, Nothing
    <2>1. Typed'
      BY DEF Typed, Exists
    <2>2. Guarded' /\ Invited' /\ Untouched' /\ Running'
      BY DEF Guarded, Invited, Untouched, Running
    <2> QED
      BY <2>1, <2>2
  <1>8. CASE Sample
    <2> USE <1>8 DEF Sample, Ended, Starting, Adding, Names
    <2>1. item' = Missing \/ item'.type = "String"
      BY InitialTypes DEF Typed, Exists
    <2>2. Typed'
      BY <2>1 DEF Typed, Exists
    <2>3. Guarded' /\ Invited' /\ Untouched' /\ Running'
      BY DEF Guarded, Invited, Untouched, Running
    <2> QED
      BY <2>2, <2>3
  <1>9. ASSUME NEW c \in Clients, Send(c)
        PROVE  IInv'
    <2> USE <1>9 DEF Send, process, Ended, Starting, Adding, Names
    <2>1. PICK n \in Names, t \in {"String", "Int32"}, d \in Data :
            wire' = wire \cup {[from |-> c, start |-> starts, name |-> n, value |-> Value(t, d)]}
      OBVIOUS
    <2>2. [from |-> c, start |-> starts, name |-> n, value |-> Value(t, d)] \in Writes
      BY DEF Writes, Value, Typed
    <2>3. starts \in 1 .. starts
      BY DEF Typed, Running
    <2>4. Typed'
      BY <2>1, <2>2, <2>3 DEF Typed, Exists
    <2>5. Guarded' /\ Invited' /\ Untouched' /\ Running'
      BY DEF Guarded, Invited, Untouched, Running
    <2> QED
      BY <2>4, <2>5
  <1>10. ASSUME NEW c \in Clients, NEW u \in KnownUsers \cup Strangers, Login(c, u)
         PROVE  IInv'
    <2> USE <1>10 DEF Login, Ended, Starting, Adding, Names
    <2>1. u \in KnownUsers
      BY DEF Admits, Guarded
    <2>2. session \in [Clients -> KnownUsers \cup Strangers \cup {None}]
      BY DEF Typed
    <2>3. session' \in [Clients -> KnownUsers \cup Strangers \cup {None}]
      BY <2>2
    <2>4. Typed'
      BY <2>3 DEF Typed, Exists
    <2>5. Invited'
      BY <2>1, <2>2 DEF Invited
    <2>6. Guarded' /\ Untouched' /\ Running'
      BY DEF Guarded, Untouched, Running
    <2> QED
      BY <2>4, <2>5, <2>6
  <1>11. ASSUME NEW c \in Clients, Logout(c)
         PROVE  IInv'
    <2> USE <1>11 DEF Logout, Ended, Starting, Adding, Names
    <2>1. session \in [Clients -> KnownUsers \cup Strangers \cup {None}]
      BY DEF Typed
    <2>2. session' \in [Clients -> KnownUsers \cup Strangers \cup {None}]
      BY <2>1
    <2>3. Typed'
      BY <2>2 DEF Typed, Exists
    <2>4. Invited'
      BY <2>1 DEF Invited
    <2>5. Guarded' /\ Untouched' /\ Running'
      BY DEF Guarded, Untouched, Running
    <2> QED
      BY <2>3, <2>4, <2>5
  <1>12. ASSUME NEW w \in wire, Receive(w)
         PROVE  IInv'
    <2> USE <1>12 DEF Receive, Ended, Starting, Adding, Names
    <2>1. DOMAIN value' = Names
      BY DEF Typed
    <2>2. \A n \in Names : Exists(n)' => value'[n].type = Initial[n].type
      BY DEF Typed, Exists, Accepts
    <2>3. Typed'
      BY <2>1, <2>2 DEF Typed
    <2>4. Guarded' /\ Invited' /\ Untouched' /\ Running'
      BY DEF Guarded, Invited, Untouched, Running
    <2> QED
      BY <2>3, <2>4
  <1>13. ASSUME NEW w \in wire, Lose(w)
         PROVE  IInv'
    BY <1>13 DEF Lose, process, Typed, Guarded, Invited, Untouched, Running, Exists
  <1> QED
    BY <1>1, <1>2, <1>3, <1>5, <1>6, <1>7, <1>8, <1>9, <1>10, <1>11, <1>12, <1>13 DEF Next, Main

\* The invariant is one.
LEMMA Invariant == Spec => []IInv
  BY InitInvariant, StepInvariant, PTL DEF Spec

-----------------------------------------------------------------------------

\* However much of the start has failed, the server never serves with the control that
\* lets anyone in, and no stranger ever has a session (lines 40 to 44).
THEOREM NobodyUninvitedAlways == Spec => []NobodyUninvited
  <1>1. IInv => NobodyUninvited
    BY DEF IInv, Typed, Guarded, Invited, NobodyUninvited, TypeOK, Starting, Adding, Names, Ended,
           KnownUsers, Strangers, None
  <1> QED
    BY <1>1, Invariant, PTL

-----------------------------------------------------------------------------
(* The registers.                                                          *)

Served == [n \in Names |-> IF pc = "serve" THEN value[n] ELSE Value("down", None)]
Inside == IF pc = "serve" THEN Range(session) \ {None} ELSE {}

\* The registers are up exactly while the loop runs.
LEMMA UpWhileServing == ASSUME Typed PROVE Promise!Up <=> pc = "serve"
  <1>1. CASE pc = "serve"
    <2>1. value["variable1"].type # "down"
      <3>1. CASE Exists("variable1")
        BY <3>1, InitialTypes DEF Typed, Names
      <3>2. CASE ~Exists("variable1")
        BY <3>2 DEF Exists, Missing, Value, None
      <3> QED
        BY <3>1, <3>2
    <2>2. Served["variable1"] # Value("down", None)
      BY <1>1, <2>1 DEF Served, Value, Names
    <2> QED
      BY <1>1, <2>2 DEF Promise!Up, Served, Names
  <1>2. CASE pc # "serve"
    BY <1>2 DEF Promise!Up
  <1> QED
    BY <1>1, <1>2

\* A server that never ran is one that is down.
LEMMA InitPromise == Init => Promise!Init
  BY DEF Init, Promise!Init

\* Every step of the server is one of the registers, or none of their business.
LEMMA StepPromise ==
    ASSUME IInv, IInv', [Next]_vars PROVE [Promise!Next]_<<Served, Inside>>
  <1> USE DEF IInv
  <1>1. CASE pc # "serve" /\ pc' # "serve"
    BY <1>1 DEF Served, Inside
  <1>2. CASE pc # "serve" /\ pc' = "serve"
    <2>1. Listen
      BY <1>2 DEF Next, vars, Start, Main, Sigint, LoginCrashes, Sample, Send, Logout, Login,
                  Receive, Lose, SetDefault, NewFails, ClearAccess, AccessControl, AddVariables,
                  AddVariable, Variable1, Variable2, Variable3, Changed,
                  AddMonitoredItemVariable, RunFails, Delete, process
    <2>2. Served' = [n \in Names |-> value[n]] /\ Inside = {}
      BY <1>2, <2>1 DEF Listen, Served, Inside
    <2>3. Inside' = {}
      BY <1>2, <2>1 DEF Listen, Inside, Invited, Adding, NoSessions, Range
    <2>4. \A n \in Names : value[n] \in {Missing, Initial[n]}
      BY <2>1 DEF Listen, Untouched, Adding
    <2> DEFINE present == {n \in Names : value[n] = Initial[n]}
    <2>5. Served' = [n \in Names |-> IF n \in present THEN Initial[n] ELSE Missing]
      BY <2>2, <2>4
    <2>6. Promise!Open
      BY <1>2, <2>2, <2>3, <2>5, UpWhileServing DEF Promise!Open, Served, Inside
    <2> QED
      BY <2>6 DEF Promise!Next
  <1>3. CASE pc = "serve" /\ pc' # "serve"
    <2>1. Served' = [n \in Names |-> Value("down", None)] /\ Inside' = {}
      BY <1>3 DEF Served, Inside
    <2>2. Promise!Close
      BY <1>3, <2>1, UpWhileServing DEF Promise!Close, Served, Inside
    <2> QED
      BY <2>2 DEF Promise!Next
  <1>4. CASE pc = "serve" /\ pc' = "serve"
    <2>1. CASE UNCHANGED <<value, session>>
      BY <1>4, <2>1 DEF Served, Inside
    <2>2. ASSUME NEW c \in Clients, NEW u \in KnownUsers \cup Strangers, Login(c, u)
          PROVE  Promise!Login
      <3>1. u \in KnownUsers
        BY <2>2, <1>4 DEF Login, Admits, Guarded
      <3>2. Served' = Served
        BY <1>4, <2>2 DEF Login, Served
      <3>3. session \in [Clients -> KnownUsers \cup Strangers \cup {None}]
        BY DEF Typed
      <3>4. Inside' = Inside \cup {u}
        BY <1>4, <2>2, <3>1, <3>3 DEF Login, Inside, Range, KnownUsers, None
      <3> QED
        BY <1>4, <3>1, <3>2, <3>4, UpWhileServing DEF Promise!Login, Served, Inside
    <2>3. ASSUME NEW c \in Clients, Logout(c)
          PROVE  Promise!Logout
      <3>1. Served' = Served
        BY <1>4, <2>3 DEF Logout, Served
      <3>2. session \in [Clients -> KnownUsers \cup Strangers \cup {None}]
        BY DEF Typed
      <3>3. Inside' \subseteq Inside
        BY <1>4, <2>3, <3>2 DEF Logout, Inside, Range
      <3> QED
        BY <1>4, <3>1, <3>3, UpWhileServing DEF Promise!Logout, Served, Inside
    <2>4. ASSUME NEW w \in wire, Receive(w), Accepts(w)
          PROVE  Promise!Put
      <3>1. w.from \in Clients /\ w.name \in Names
        BY DEF Typed, Writes
      <3>2. session[w.from] \in Range(session)
        BY <3>1 DEF Typed, Range
      <3>3. Inside # {} /\ Inside' = Inside
        BY <1>4, <2>4, <3>2 DEF Receive, Accepts, Inside
      <3>4. value' = [value EXCEPT ![w.name] = w.value]
        BY <2>4 DEF Receive
      <3>5. Served' = [Served EXCEPT ![w.name] = Served'[w.name]]
        BY <1>4, <3>1, <3>4 DEF Served, Typed
      <3>6. Served[w.name] # Missing /\ Served'[w.name].type = Initial[w.name].type
        BY <1>4, <2>4, <3>1, <3>4 DEF Served, Typed, Accepts, Exists
      <3> QED
        BY <1>4, <3>1, <3>3, <3>5, <3>6, UpWhileServing DEF Promise!Put, Served, Inside
    <2>5. \/ UNCHANGED <<value, session>>
          \/ \E c \in Clients, u \in KnownUsers \cup Strangers : Login(c, u)
          \/ \E c \in Clients : Logout(c)
          \/ \E w \in wire : Receive(w) /\ Accepts(w)
      BY <1>4 DEF Next, vars, Start, Main, Sigint, LoginCrashes, Sample, Send, Receive, Lose,
                  SetDefault, NewFails, ClearAccess, AccessControl, AddVariables, AddVariable,
                  Variable1, Variable2, Variable3, AddMonitoredItemVariable, RunFails, Listen,
                  Delete, process, Ended
    <2> QED
      BY <2>1, <2>2, <2>3, <2>4, <2>5 DEF Promise!Next
  <1> QED
    BY <1>1, <1>2, <1>3, <1>4

\* The server is the registers it promises: they start anew with it, are written only
\* while a known user is logged in, and keep their types (lines 50, 62 and 74).
THEOREM ServerImplementsRegisters == Spec => ImplementsRegisters
  <1>1. IInv /\ IInv' /\ [Next]_vars => [Promise!Next]_<<Served, Inside>>
    BY StepPromise
  <1> QED
    BY <1>1, InitPromise, Invariant, PTL
    DEF Spec, ImplementsRegisters, Promise!Spec, Served, Inside
=============================================================================
