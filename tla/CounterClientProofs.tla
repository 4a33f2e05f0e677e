------------------------- MODULE CounterClientProofs -------------------------
(***************************************************************************)
(* No increment comes from nothing, those that do not overlap are counted  *)
(* once, and no process adds two nodes: for any number of clients and      *)
(* variables and without any bound on the rounds and restarts.             *)
(***************************************************************************)
EXTENDS CounterClient, TLAPS

\* What the nodes added so far are, and what a client that is about to write
\* may hold.
Nodes == DOMAIN value

NodesOK == /\ Vars \subseteq Nodes
           /\ \A v \in Nodes \ Vars :
                 \E c \in Clients : \E k \in 1 .. adds[c] : v = <<c, k>>
           /\ \A c \in Clients : pc[c] = "write" => target[c] \in Nodes

\* No number a client or a late write holds is ahead of the writes sent.
Limit(v) == StartOf(v) + issued[v]

NotAhead == /\ \A v \in Nodes : value[v] <= Limit(v)
            /\ \A c \in Clients : pc[c] = "write" => raw[c] <= Limit(target[c])
            /\ \A w \in inflight : w.val <= Limit(w.var)

IInv == TypeOK /\ NodesOK /\ NotAhead

LEMMA StartType == \A v : StartOf(v) \in Values
BY CounterAssumption DEF StartOf, Values

LEMMA IncrementFacts ==
    ASSUME NEW n \in Values
    PROVE  Increment(n) \in Values /\ Increment(n) <= n + 1
BY CounterAssumption DEF Increment, Values

LEMMA LimitType == TypeOK => \A v \in Nodes : Limit(v) \in Int
BY StartType, CounterAssumption DEF TypeOK, Nodes, Limit, Values

LEMMA InitInv == Init => IInv
<1> SUFFICES ASSUME Init PROVE IInv
  OBVIOUS
<1>1. Nodes = Vars /\ value = Start
  BY CounterAssumption DEF Init, Nodes
<1>2. TypeOK
  BY <1>1, CounterAssumption DEF Init, TypeOK, Nodes, AllVars, Values
<1>3. NodesOK
  BY <1>1 DEF Init, NodesOK
<1>4. NotAhead
  <2>1. \A v \in Vars : Limit(v) = Start[v] /\ Start[v] \in Int
    BY CounterAssumption DEF Init, Limit, StartOf
  <2> QED BY <1>1, <2>1 DEF Init, NotAhead
<1> QED BY <1>2, <1>3, <1>4 DEF IInv

\* A step that leaves the server and the late writes alone, and brings no
\* client to its write, keeps what the invariant says of them.
LEMMA QuietStep ==
    ASSUME IInv, UNCHANGED <<value, inflight, adds, issued, target, raw>>,
           \A c \in Clients : pc'[c] = "write" => pc[c] = "write"
    PROVE  NodesOK' /\ NotAhead'
<1>1. Nodes' = Nodes /\ \A v : Limit(v)' = Limit(v)
  BY DEF Nodes, Limit
<1>2. NodesOK'
  BY <1>1 DEF IInv, NodesOK
<1>3. NotAhead'
  <2>1. \A c \in Clients : Limit(target[c])' = Limit(target[c])
    BY DEF Limit
  <2>2. \A w \in inflight : Limit(w.var)' = Limit(w.var)
    BY DEF Limit
  <2> QED BY <1>1, <2>1, <2>2 DEF IInv, NotAhead, Limit, Nodes
<1> QED BY <1>2, <1>3

\* The steps that touch a client's own control only.
Control(c) == Begin(c) \/ BadConfig(c) \/ Leave(c) \/ ConnectFails(c)
                 \/ Connect(c) \/ Browse(c) \/ RoundOver(c) \/ Wake(c)

LEMMA ControlKeeps == ASSUME IInv, NEW c \in Clients, Control(c) PROVE IInv'
<1>1. TypeOK'
  BY DEF IInv, TypeOK, AllVars, Control, Begin, BadConfig, Leave, ConnectFails,
         Connect, Browse, GetResponse, RoundOver, Wake, Goto, history
<1>2. UNCHANGED <<value, inflight, adds, issued, target, raw>>
  BY DEF Control, Begin, BadConfig, Leave, ConnectFails, Connect, Browse,
         RoundOver, Wake, history
<1>3. \A d \in Clients : pc'[d] = "write" => pc[d] = "write"
  BY DEF IInv, TypeOK, Control, Begin, BadConfig, Leave, ConnectFails, Connect,
         Browse, RoundOver, Wake, Goto
<1> QED BY <1>1, <1>2, <1>3, QuietStep DEF IInv

LEMMA SigintKeeps == ASSUME IInv, NEW c \in Clients, Sigint(c) PROVE IInv'
<1>1. TypeOK'
  BY DEF IInv, TypeOK, AllVars, Sigint, history
<1> QED BY <1>1, QuietStep DEF IInv, Sigint, history

LEMMA RestartKeeps == ASSUME IInv, NEW c \in Clients, Restart(c) PROVE IInv'
<1>1. TypeOK'
  BY DEF IInv, TypeOK, AllVars, Restart, Goto, history
<1>2. \A d \in Clients : pc'[d] = "write" => pc[d] = "write"
  BY DEF IInv, TypeOK, Restart, Goto
<1> QED BY <1>1, <1>2, QuietStep DEF IInv, Restart, history

\* A node that a client adds is not there yet.
LEMMA NewIsNew ==
    ASSUME TypeOK, NodesOK, NEW c \in Clients
    PROVE  /\ NewNode(c) \in Added /\ NewNode(c) \notin Vars
           /\ StartOf(NewNode(c)) = 0 /\ NewNode(c) \notin Nodes
<1> DEFINE new == NewNode(c)
<1>1. new \in Added /\ new \notin Vars /\ StartOf(new) = 0
  BY CounterAssumption DEF TypeOK, NewNode, Added, StartOf
<1>2. ASSUME new \in Nodes PROVE FALSE
  <2>1. PICK d \in Clients : \E k \in 1 .. adds[d] : new = <<d, k>>
    BY <1>1, <1>2 DEF NodesOK
  <2>2. PICK k \in 1 .. adds[d] : new = <<d, k>>
    BY <2>1
  <2> QED BY <2>2 DEF NewNode, TypeOK
<1> QED BY <1>1, <1>2

\* The added node is new, so no count starts again.
LEMMA CreateKeeps == ASSUME IInv, NEW c \in Clients, Create(c) PROVE IInv'
<1>1. CASE UNCHANGED <<value, adds, issued, applied>>
  <2>1. TypeOK'
    BY <1>1 DEF IInv, TypeOK, AllVars, Create, Goto, OneAfterCreate, history
  <2>2. \A d \in Clients : pc'[d] = "write" => pc[d] = "write"
    BY DEF IInv, TypeOK, Create, Goto
  <2> QED BY <1>1, <2>1, <2>2, QuietStep DEF IInv, Create
<1>2. CASE AddNode(NewNode(c)) /\ adds' = [adds EXCEPT ![c] = @ + 1]
  <2> DEFINE new == NewNode(c)
  <2>1. new \in Added /\ new \notin Vars /\ StartOf(new) = 0
    BY NewIsNew DEF IInv
  <2>2. new \notin Nodes
    BY NewIsNew DEF IInv
  <2>3. Nodes' = Nodes \cup {new}
        /\ \A v \in Nodes : value'[v] = value[v] /\ issued'[v] = issued[v]
    BY <1>2, <2>2 DEF AddNode, Nodes, IInv, TypeOK
  <2>4. value'[new] = 0 /\ issued'[new] = 0
    BY <1>2 DEF AddNode
  <2>5. /\ value' \in [Nodes \cup {new} -> Values]
        /\ issued' \in [Nodes \cup {new} -> Nat]
        /\ applied' \in [Nodes \cup {new} -> Nat]
    BY <1>2, CounterAssumption DEF AddNode, Nodes, IInv, TypeOK, Values
  <2>6. TypeOK'
    <3>1. UNCHANGED <<running, todo, target, raw, inflight, rounds, restarts, overlap>>
      BY DEF Create
    <3>2. pc' \in [Clients -> {"start", "connect", "create", "browse", "read",
                               "write", "sleep", "done"}]
          /\ one' \in [Clients -> BOOLEAN] /\ adds' \in [Clients -> Nat]
          /\ \A d \in Clients : pc'[d] = "write" => pc[d] = "write"
      BY <1>2 DEF IInv, TypeOK, Create, Goto, OneAfterCreate
    <3> HIDE DEF new
    <3> QED BY <2>1, <2>3, <2>5, <3>1, <3>2 DEF IInv, TypeOK, Nodes, AllVars
  <2>7. \A v \in Nodes : Limit(v)' = Limit(v)
    BY <2>3 DEF Limit
  <2>8. \A d \in Clients : pc'[d] = "write" => pc[d] = "write" /\ target[d] \in Nodes
    BY DEF IInv, TypeOK, NodesOK, Create, Goto
  <2>9. NodesOK'
    <3>1. new = <<c, adds[c] + 1>> /\ adds'[c] = adds[c] + 1 /\ adds[c] \in Nat
          /\ \A d \in Clients \ {c} : adds'[d] = adds[d]
      BY <1>2 DEF NewNode, IInv, TypeOK
    <3>2. \E k \in 1 .. adds'[c] : new = <<c, k>>
      BY <3>1
    <3>3. \A v \in Nodes \ Vars : \E d \in Clients : \E k \in 1 .. adds'[d] : v = <<d, k>>
      BY <3>1 DEF IInv, NodesOK, TypeOK
    <3> HIDE DEF new
    <3> QED BY <2>3, <2>8, <3>2, <3>3 DEF IInv, NodesOK, Create
  <2>10. NotAhead'
    <3>1. StartOf(new) + issued'[new] = 0
      BY <2>1, <2>4
    <3> HIDE DEF new
    <3>2. \A v \in Nodes' : value'[v] <= Limit(v)'
      BY <2>3, <2>4, <3>1 DEF IInv, NotAhead, Limit
    <3>3. \A d \in Clients : pc'[d] = "write" => raw'[d] <= Limit(target[d])'
      <4>1. \A d \in Clients : pc'[d] = "write" =>
               raw[d] <= Limit(target[d]) /\ Limit(target[d])' = Limit(target[d])
        BY <2>3, <2>8 DEF IInv, NotAhead, Limit, Create
      <4> QED BY <4>1 DEF Create
    <3>4. \A w \in inflight : w.var \in Nodes
      BY DEF IInv, TypeOK, Nodes
    <3>5. \A w \in inflight : w.val <= Limit(w.var)'
      BY <2>3, <3>4 DEF IInv, NotAhead, Limit
    <3> QED BY <3>2, <3>3, <3>5 DEF NotAhead, Create, Limit
  <2> QED BY <2>6, <2>9, <2>10 DEF IInv
<1> QED BY <1>1, <1>2 DEF Create

LEMMA ReadKeeps == ASSUME IInv, NEW c \in Clients, Read(c) PROVE IInv'
<1>1. CASE UNCHANGED <<target, raw, pc, overlap>>
  <2>1. TypeOK'
    BY <1>1 DEF IInv, TypeOK, AllVars, Read
  <2> QED BY <1>1, <2>1, QuietStep DEF IInv, Read
<1>2. ASSUME NEW v \in todo[c],
             target' = [target EXCEPT ![c] = v],
             raw' = [raw EXCEPT ![c] = value[v]],
             pc' = [pc EXCEPT ![c] = "write"],
             todo' = [todo EXCEPT ![c] = @ \ {v}],
             overlap' = overlap \cup
                 (IF Pending(v) \cup Late(v) = {} THEN {} ELSE {v})
      PROVE  IInv'
  <2>1. v \in Nodes /\ value[v] \in Values /\ value[v] <= Limit(v)
    BY DEF IInv, TypeOK, NotAhead, Nodes
  <2>2. UNCHANGED <<value, running, one, inflight, rounds, restarts, adds,
                    issued, applied>>
    BY DEF Read
  <2>3. TypeOK'
    BY <1>2, <2>1, <2>2 DEF IInv, TypeOK, AllVars, Nodes
  <2>4. NodesOK'
    BY <1>2, <2>1, <2>2 DEF IInv, TypeOK, NodesOK, Nodes
  <2>5. NotAhead'
    <3>1. \A d \in Clients : pc'[d] = "write" => raw'[d] <= Limit(target[d])'
      <4> TAKE d \in Clients
      <4>1. CASE d = c
        BY <1>2, <2>1, <2>2, <4>1 DEF IInv, TypeOK, Limit
      <4>2. CASE d # c
        BY <1>2, <2>2, <4>2 DEF IInv, TypeOK, NotAhead, Limit
      <4> QED BY <4>1, <4>2
    <3> QED BY <2>2, <3>1 DEF IInv, NotAhead, Limit, Nodes
  <2> QED BY <2>3, <2>4, <2>5 DEF IInv
<1> QED BY <1>1, <1>2 DEF Read, Goto

\* The one step that sends a number: it counts what it sends.
LEMMA WriteKeeps == ASSUME IInv, NEW c \in Clients, Write(c) PROVE IInv'
<1> DEFINE v == target[c]
           n == Increment(raw[c])
           late == [var |-> v, val |-> n, no |-> issued[v]]
<1>1. v \in Nodes /\ raw[c] \in Values /\ raw[c] <= Limit(v)
  BY DEF IInv, NodesOK, NotAhead, TypeOK, Write
<1>2. n \in Values /\ n <= raw[c] + 1
  BY <1>1, IncrementFacts
<1>3. issued' = [issued EXCEPT ![v] = @ + 1] /\ pc' = [pc EXCEPT ![c] = "read"]
      /\ UNCHANGED <<running, one, todo, target, raw, rounds, restarts, adds,
                     overlap>>
  BY DEF Write, Goto
<1>4. \/ value' = [value EXCEPT ![v] = n] /\ inflight' = inflight
         /\ applied' = [applied EXCEPT ![v] = @ + 1]
      \/ UNCHANGED <<value, applied, inflight>>
      \/ UNCHANGED <<value, applied>> /\ inflight' = inflight \cup {late}
  BY DEF Write, Apply
<1>5. Nodes' = Nodes /\ issued \in [Nodes -> Nat] /\ applied \in [Nodes -> Nat]
      /\ value \in [Nodes -> Values]
  BY <1>4 DEF IInv, TypeOK, Nodes
<1>6. /\ StartOf(v) + issued'[v] = Limit(v) + 1 /\ Limit(v) \in Int
      /\ \A u \in Nodes : Limit(u) \in Int /\ Limit(u)' \in Int /\ Limit(u) <= Limit(u)'
  <2>1. \A u : StartOf(u) \in Int
    BY StartType, CounterAssumption DEF Values
  <2>2. issued'[v] = issued[v] + 1 /\ \A u \in Nodes : issued[u] \in Nat
        /\ issued'[u] \in Nat /\ issued[u] <= issued'[u]
    BY <1>1, <1>3, <1>5
  <2> QED BY <1>1, <1>3, <2>1, <2>2 DEF Limit
<1>7. n <= StartOf(v) + issued'[v] /\ n \in Int
  BY <1>1, <1>2, <1>6, CounterAssumption DEF Values
<1> HIDE DEF n, v
<1>8. late \in [var : Nodes, val : Values, no : Nat]
      /\ late.val = n /\ late.var = v
  BY <1>1, <1>2, <1>5
<1>9. TypeOK'
  <2>1. value' \in [Nodes -> Values] /\ issued' \in [Nodes -> Nat]
        /\ applied' \in [Nodes -> Nat]
    BY <1>1, <1>2, <1>3, <1>4, <1>5
  <2>2. inflight' \subseteq [var : Nodes, val : Values, no : Nat]
    BY <1>4, <1>8 DEF IInv, TypeOK, Nodes
  <2>3. pc' \in [Clients -> {"start", "connect", "create", "browse", "read",
                               "write", "sleep", "done"}]
        /\ \A d \in Clients : pc'[d] = "write" => pc[d] = "write"
    BY <1>3 DEF IInv, TypeOK
  <2> QED BY <1>3, <1>5, <2>1, <2>2, <2>3 DEF IInv, TypeOK, Nodes
<1>10. NodesOK'
  BY <1>3, <1>5 DEF IInv, TypeOK, NodesOK
<1>11. NotAhead'
  <2>1. \A u \in Nodes : value'[u] <= Limit(u)'
    <3>1. \A u \in Nodes : value[u] <= Limit(u)'
      BY <1>5, <1>6, CounterAssumption DEF IInv, NotAhead, Values
    <3> QED BY <1>1, <1>4, <1>5, <1>7, <3>1 DEF Limit
  <2>2. \A d \in Clients : pc'[d] = "write" => raw[d] <= Limit(target[d])'
    <3> TAKE d \in Clients
    <3> HAVE pc'[d] = "write"
    <3>1. pc[d] = "write" /\ target[d] \in Nodes /\ raw[d] \in Int
          /\ raw[d] <= Limit(target[d])
      BY <1>3, CounterAssumption DEF IInv, TypeOK, NodesOK, NotAhead, Values
    <3>2. Limit(target[d])' = StartOf(target[d]) + issued'[target[d]]
      BY <1>3 DEF Limit
    <3>3. Limit(target[d]) \in Int /\ StartOf(target[d]) + issued'[target[d]] \in Int
          /\ Limit(target[d]) <= StartOf(target[d]) + issued'[target[d]]
      BY <1>6, <3>1 DEF Limit
    <3> QED BY <3>1, <3>2, <3>3
  <2>3. \A w \in inflight' : w.val <= Limit(w.var)'
    <3>1. \A w \in inflight : w.val \in Int /\ w.var \in Nodes
      BY CounterAssumption DEF IInv, TypeOK, Nodes, Values
    <3>2. \A w \in inflight : w.val <= Limit(w.var) /\ Limit(w.var) \in Int
             /\ StartOf(w.var) + issued'[w.var] \in Int
             /\ Limit(w.var) <= StartOf(w.var) + issued'[w.var]
      BY <1>6, <3>1 DEF IInv, NotAhead, Limit
    <3>3. \A w \in inflight : w.val <= StartOf(w.var) + issued'[w.var]
      BY <3>1, <3>2
    <3>4. late.val <= StartOf(late.var) + issued'[late.var]
      BY <1>7, <1>8
    <3> QED BY <1>4, <3>3, <3>4 DEF Limit
  <2> QED BY <1>3, <1>5, <2>1, <2>2, <2>3 DEF NotAhead, Limit
<1> QED BY <1>9, <1>10, <1>11 DEF IInv

LEMMA DeliverKeeps == ASSUME IInv, NEW w \in inflight, Deliver(w) PROVE IInv'
<1>1. w.var \in Nodes /\ w.val \in Values /\ w.val <= Limit(w.var)
  BY DEF IInv, TypeOK, NotAhead, Nodes
<1>2. value' = [value EXCEPT ![w.var] = w.val] /\ inflight' = inflight \ {w}
      /\ applied' = [applied EXCEPT ![w.var] = @ + 1]
      /\ UNCHANGED <<pc, running, one, todo, target, raw, rounds, restarts,
                     adds, issued, overlap>>
  BY DEF Deliver, Apply, client
<1>3. Nodes' = Nodes /\ value \in [Nodes -> Values] /\ applied \in [Nodes -> Nat]
  BY <1>2 DEF IInv, TypeOK, Nodes
<1>4. value' \in [Nodes -> Values] /\ applied' \in [Nodes -> Nat]
  BY <1>1, <1>2, <1>3
<1>5. TypeOK'
  BY <1>2, <1>3, <1>4 DEF IInv, TypeOK, Nodes
<1>6. NodesOK'
  BY <1>2, <1>3 DEF IInv, NodesOK
<1>7. NotAhead'
  <2>1. \A u \in Nodes : value'[u] <= Limit(u)
    BY <1>1, <1>2, <1>3 DEF IInv, NotAhead
  <2> QED BY <1>2, <1>3, <2>1 DEF IInv, NotAhead, Limit
<1> QED BY <1>5, <1>6, <1>7 DEF IInv

LEMMA NextKeeps == IInv /\ [Next]_vars => IInv'
<1> SUFFICES ASSUME IInv, [Next]_vars PROVE IInv'
  OBVIOUS
<1>1. ASSUME NEW c \in Clients, Step(c) PROVE IInv'
  BY <1>1, ControlKeeps, CreateKeeps, ReadKeeps, WriteKeeps DEF Step, Control
<1>2. ASSUME NEW c \in Clients, Sigint(c) PROVE IInv'
  BY <1>2, SigintKeeps
<1>3. ASSUME NEW c \in Clients, Restart(c) PROVE IInv'
  BY <1>3, RestartKeeps
<1>4. ASSUME NEW w \in inflight, Deliver(w) PROVE IInv'
  BY <1>4, DeliverKeeps
<1>5. CASE UNCHANGED vars
  <2>1. TypeOK'
    BY <1>5 DEF IInv, TypeOK, vars, client, history
  <2> QED BY <1>5, <2>1, QuietStep DEF IInv, vars, client, history
<1> QED BY <1>1, <1>2, <1>3, <1>4, <1>5 DEF Next

LEMMA Inductive == Spec => []IInv
BY InitInv, NextKeeps, PTL DEF Spec

\* The state keeps its types: above all, a client that is about to write
\* holds a node the server has, and a number of the variable's width.
THEOREM TypeCorrect == Spec => []TypeOK
<1>1. IInv => TypeOK
  BY DEF IInv
<1> QED BY <1>1, Inductive, PTL

\* No variable is ever ahead of its start plus the writes sent to it, in
\* whatever order the clients' reads and writes, late and lost ones among
\* them, kills and restarts come.
THEOREM NoPhantom == Spec => []NoPhantomIncrement
<1>1. IInv => NoPhantomIncrement
  BY DEF IInv, NotAhead, NoPhantomIncrement, Limit, Nodes
<1> QED BY <1>1, Inductive, PTL

-----------------------------------------------------------------------------
(* At most one new node for each process.                                  *)

\* A process that may still add one has added none.
AddsOK == \A c \in Clients :
    /\ adds[c] <= restarts[c] + 1
    /\ one[c] => adds[c] <= restarts[c]
    /\ pc[c] = "create" => one[c]

LEMMA AddsInductive == Spec => []AddsOK
<1>1. Init => AddsOK
  <2> SUFFICES ASSUME Init, NEW c \in Clients
               PROVE  /\ adds[c] <= restarts[c] + 1
                      /\ one[c] => adds[c] <= restarts[c]
                      /\ pc[c] = "create" => one[c]
    BY DEF AddsOK
  <2>1. adds[c] = 0 /\ restarts[c] = 0 /\ one[c] = TRUE
    BY DEF Init
  <2> QED BY <2>1
<1>2. TypeOK /\ AddsOK /\ [Next]_vars => AddsOK'
  <2> SUFFICES ASSUME TypeOK, AddsOK, [Next]_vars PROVE AddsOK'
    OBVIOUS
  <2>1. ASSUME NEW c \in Clients, Create(c) PROVE AddsOK'
    BY <2>1 DEF Create, OneAfterCreate, Goto, TypeOK, AddsOK
  <2>2. ASSUME NEW c \in Clients, Restart(c) PROVE AddsOK'
    BY <2>2 DEF Restart, Goto, history, TypeOK, AddsOK
  <2>3. ASSUME NEW c \in Clients, Control(c) \/ Read(c) \/ Write(c) \/ Sigint(c)
        PROVE  AddsOK'
    <3>1. UNCHANGED <<adds, restarts, one>>
      BY <2>3 DEF Control, Begin, BadConfig, Leave, ConnectFails, Connect, Browse,
                  RoundOver, Wake, Read, Write, Sigint, history
    <3>2. \A d \in Clients : pc'[d] = "create" => pc[d] = "create" \/ one[d]
      BY <2>3 DEF Control, Begin, BadConfig, Leave, ConnectFails, Connect, Browse,
                  RoundOver, Wake, Read, Write, Sigint, Goto, TypeOK
    <3> QED BY <3>1, <3>2 DEF AddsOK
  <2>4. ASSUME NEW w \in inflight, Deliver(w) PROVE AddsOK'
    BY <2>4 DEF Deliver, client, AddsOK
  <2>5. CASE UNCHANGED vars
    BY <2>5 DEF vars, client, history, AddsOK
  <2> QED BY <2>1, <2>2, <2>3, <2>4, <2>5 DEF Next, Step, Control
<1> QED BY <1>1, <1>2, TypeCorrect, PTL DEF Spec

\* A process adds at most one node, however often it connects again, and
\* whatever the server answers.
THEOREM AddedOnce == Spec => []AddedOncePerProcess
<1>1. AddsOK => AddedOncePerProcess
  BY DEF AddsOK, AddedOncePerProcess
<1> QED BY <1>1, AddsInductive, PTL

-----------------------------------------------------------------------------
(* Increments that do not overlap are counted once.                        *)

Whole(n) == \E q \in Int : n = q * Modulus

\* The variable stands at its start plus the writes carried out.
Counted(v) == Whole(value[v] - StartOf(v) - applied[v])

\* A write that a client, or the network, still holds for v was computed from
\* the value that v has, and it is the only one.
Holder(c, v) == pc[c] = "write" /\ target[c] = v

Sole(v) ==
    /\ \A c \in Clients : Holder(c, v) =>
          /\ raw[c] = value[v]
          /\ \A d \in Clients : Holder(d, v) => d = c
          /\ \A w \in inflight : w.var # v
    /\ \A w \in inflight : w.var = v =>
          /\ w.val = Increment(value[v])
          /\ \A x \in inflight : x.var = v => x = w

SerialOK == \A v \in Nodes \ overlap : Counted(v) /\ Sole(v)

LEMMA ModulusType == Modulus \in Nat /\ Modulus > 0
BY CounterAssumption DEF Modulus

\* Writing the increment and counting the write keep the sum, modulo the width.
LEMMA IncrementCounts ==
    ASSUME NEW n \in Values, NEW s \in Int, NEW a \in Int, Whole(n - s - a)
    PROVE  Whole(Increment(n) - s - (a + 1))
<1>1. n \in Int /\ Modulus \in Int
  BY ModulusType, CounterAssumption DEF Values
<1>2. PICK q \in Int : n - s - a = q * Modulus
  BY DEF Whole
<1>3. CASE n = MaxInt
  <2>1. Increment(n) = n + 1 - Modulus
    BY <1>1, <1>3, CounterAssumption DEF Increment, Modulus
  <2>2. q - 1 \in Int /\ (q - 1) * Modulus = q * Modulus - Modulus
    BY <1>1
  <2>3. Increment(n) - s - (a + 1) = (q - 1) * Modulus
    BY <1>1, <1>2, <2>1, <2>2
  <2> QED BY <2>2, <2>3 DEF Whole
<1>4. CASE n # MaxInt
  <2>1. Increment(n) - s - (a + 1) = q * Modulus
    BY <1>1, <1>2, <1>4 DEF Increment
  <2> QED BY <2>1 DEF Whole
<1> QED BY <1>3, <1>4

\* The server carries out the increment of what v holds, and nobody else is
\* about to write to v then.
LEMMA ApplyCounts ==
    ASSUME TypeOK, NEW v \in Nodes, Counted(v),
           value' = [value EXCEPT ![v] = Increment(value[v])],
           applied' = [applied EXCEPT ![v] = @ + 1]
    PROVE  Counted(v)'
<1>1. value[v] \in Values /\ StartOf(v) \in Int /\ applied[v] \in Int
  BY StartType, CounterAssumption DEF TypeOK, Nodes, Values
<1>2. value'[v] = Increment(value[v]) /\ applied'[v] = applied[v] + 1
  BY DEF TypeOK, Nodes
<1>3. Whole(value'[v] - StartOf(v) - applied'[v])
  BY <1>1, <1>2, IncrementCounts DEF Counted
<1> QED BY <1>3 DEF Counted, Whole

\* A step after which nobody holds more than before.
LEMMA QuietSerial ==
    ASSUME TypeOK, SerialOK,
           UNCHANGED <<value, applied, inflight, target, raw, overlap>>,
           \A c \in Clients : pc'[c] = "write" => pc[c] = "write"
    PROVE  SerialOK'
<1>1. Nodes' = Nodes /\ \A v : Counted(v)' <=> Counted(v)
  BY DEF Nodes, Counted, Whole
<1>2. \A v : Sole(v) => Sole(v)'
  BY DEF Sole, Holder
<1> QED BY <1>1, <1>2 DEF SerialOK

LEMMA CreateSerial ==
    ASSUME IInv, SerialOK, NEW c \in Clients, Create(c) PROVE SerialOK'
<1>1. \A d \in Clients : pc'[d] = "write" => pc[d] = "write"
  BY DEF IInv, TypeOK, Create, Goto
<1>2. UNCHANGED <<target, raw, inflight, overlap>>
  BY DEF Create
<1>3. CASE UNCHANGED <<value, adds, issued, applied>>
  BY <1>1, <1>2, <1>3, QuietSerial DEF IInv
<1>4. CASE AddNode(NewNode(c))
  <2> PICK new \in Added : new = NewNode(c)
    BY NewIsNew DEF IInv
  <2>1. new \notin Nodes /\ StartOf(new) = 0
    BY NewIsNew DEF IInv
  <2>2. /\ Nodes' = Nodes \cup {new}
        /\ \A v \in Nodes : value'[v] = value[v] /\ applied'[v] = applied[v]
        /\ value'[new] = 0 /\ applied'[new] = 0
    BY <1>4, <2>1 DEF AddNode, Nodes, IInv, TypeOK
  <2>3. \A v \in Nodes \ overlap : Counted(v)' /\ Sole(v)'
    <3> TAKE v \in Nodes \ overlap
    <3>1. Counted(v) /\ Sole(v)
      BY DEF SerialOK
    <3> QED BY <1>1, <1>2, <2>2, <3>1 DEF Counted, Whole, Sole, Holder
  <2>4. Counted(new)'
    <3>1. value'[new] - StartOf(new) - applied'[new] = 0 * Modulus
      BY <2>1, <2>2, ModulusType
    <3> QED BY <3>1 DEF Counted, Whole
  <2>5. Sole(new)'
    <3>1. \A d \in Clients : pc[d] = "write" => target[d] # new
      BY <2>1 DEF IInv, NodesOK
    <3>2. \A w \in inflight : w.var # new
      BY <2>1 DEF IInv, TypeOK, Nodes
    <3> QED BY <1>1, <1>2, <3>1, <3>2 DEF Sole, Holder
  <2> QED BY <1>2, <2>2, <2>3, <2>4, <2>5 DEF SerialOK
<1> QED BY <1>3, <1>4 DEF Create

\* Who reads a variable that somebody is about to write marks the overlap.
LEMMA ReadSerial ==
    ASSUME IInv, SerialOK, NEW c \in Clients, Read(c) PROVE SerialOK'
<1>1. CASE UNCHANGED <<target, raw, pc, overlap>>
  BY <1>1, QuietSerial DEF IInv, Read
<1>2. ASSUME NEW v \in todo[c],
             target' = [target EXCEPT ![c] = v],
             raw' = [raw EXCEPT ![c] = value[v]],
             pc' = [pc EXCEPT ![c] = "write"],
             overlap' = overlap \cup
                 (IF Pending(v) \cup Late(v) = {} THEN {} ELSE {v})
      PROVE  SerialOK'
  <2>1. UNCHANGED <<value, applied, inflight>> /\ Nodes' = Nodes
    BY DEF Read, Nodes
  <2>2. ASSUME NEW u \in Nodes \ overlap' PROVE Counted(u)' /\ Sole(u)'
    <3>1. u \notin overlap /\ Counted(u) /\ Sole(u)
      BY <1>2, <2>2 DEF SerialOK
    <3>2. Counted(u)'
      BY <2>1, <3>1 DEF Counted, Whole
    <3>3. \A d \in Clients \ {c} : Holder(d, u)' <=> Holder(d, u)
      BY <1>2 DEF Holder, IInv, TypeOK
    <3>4. Holder(c, u)' <=> u = v
      BY <1>2 DEF Holder, IInv, TypeOK
    <3>5. ~Holder(c, u)
      BY DEF Holder, Read
    <3>6. \A d \in Clients \ {c} : raw'[d] = raw[d]
      BY <1>2 DEF IInv, TypeOK
    <3>7. raw'[c] = value[v]
      BY <1>2 DEF IInv, TypeOK
    <3>8. u = v => (\A d \in Clients : ~Holder(d, u)) /\ \A w \in inflight : w.var # u
      BY <1>2, <2>2 DEF Pending, Late, Holder
    <3>9. Sole(u)'
      BY <2>1, <3>1, <3>3, <3>4, <3>5, <3>6, <3>7, <3>8 DEF Sole
    <3> QED BY <3>2, <3>9
  <2> QED BY <2>1, <2>2 DEF SerialOK
<1> QED BY <1>1, <1>2 DEF Read, Goto

LEMMA WriteSerial ==
    ASSUME IInv, SerialOK, NEW c \in Clients, Write(c) PROVE SerialOK'
<1> PICK v \in Nodes : v = target[c]
  BY DEF IInv, NodesOK, Write
<1> PICK n : n = Increment(raw[c])
  OBVIOUS
<1> PICK late : late = [var |-> v, val |-> n, no |-> issued[v]]
  OBVIOUS
<1>1. v \in Nodes /\ Holder(c, v)
  BY DEF Write, Holder
<1>2. pc' = [pc EXCEPT ![c] = "read"] /\ UNCHANGED <<target, raw, overlap>>
  BY DEF Write, Goto
<1>3. \A d \in Clients : \A u : Holder(d, u)' <=> Holder(d, u) /\ d # c
  BY <1>2 DEF Holder, IInv, TypeOK
<1>4. CASE UNCHANGED <<value, applied, inflight>>
  <2>1. \A d \in Clients : pc'[d] = "write" => pc[d] = "write"
    BY <1>2 DEF IInv, TypeOK
  <2> QED BY <1>2, <1>4, <2>1, QuietSerial DEF IInv
<1>5. CASE UNCHANGED <<value, applied>> /\ inflight' = inflight \cup {late}
  <2>1. Nodes' = Nodes
    BY <1>5 DEF Nodes
  <2>2. ASSUME NEW u \in Nodes \ overlap PROVE Counted(u)' /\ Sole(u)'
    <3>1. Counted(u) /\ Sole(u)
      BY DEF SerialOK
    <3>2. Counted(u)'
      BY <1>5, <3>1 DEF Counted, Whole
    <3>3. late.var = v /\ late.val = Increment(raw[c])
      OBVIOUS
    <3>4. u = v => /\ late.val = Increment(value[u])
                   /\ \A w \in inflight : w.var # u
                   /\ \A d \in Clients : Holder(d, u) => d = c
      BY <1>1, <3>1, <3>3 DEF Sole
    <3>5. \A d \in Clients : ~(Holder(d, v) /\ d # c) \/ u # v
      BY <3>4
    <3> QED BY <1>2, <1>3, <1>5, <3>1, <3>2, <3>3, <3>4, <3>5 DEF Sole
  <2> QED BY <1>2, <2>1, <2>2 DEF SerialOK
<1>6. CASE Apply(v, n) /\ inflight' = inflight
  <2>1. Nodes' = Nodes /\ \A u \in Nodes \ {v} : /\ value'[u] = value[u]
                                                /\ applied'[u] = applied[u]
    BY <1>1, <1>6 DEF Apply, Nodes, IInv, TypeOK
  <2>2. ASSUME NEW u \in Nodes \ overlap PROVE Counted(u)' /\ Sole(u)'
    <3>1. Counted(u) /\ Sole(u)
      BY DEF SerialOK
    <3>2. CASE u = v
      <4>1. raw[c] = value[v] /\ (\A w \in inflight : w.var # v)
            /\ \A d \in Clients : ~Holder(d, v)'
        BY <1>1, <1>3, <3>1, <3>2 DEF Sole
      <4>2. Counted(v)'
        BY <1>1, <1>6, <3>1, <3>2, <4>1, ApplyCounts DEF IInv, Apply
      <4> QED BY <1>6, <3>2, <4>1, <4>2 DEF Sole
    <3>3. CASE u # v
      BY <1>2, <1>3, <1>6, <2>1, <3>1, <3>3 DEF Counted, Whole, Sole
    <3> QED BY <3>2, <3>3
  <2> QED BY <1>2, <2>1, <2>2 DEF SerialOK
<1> QED BY <1>4, <1>5, <1>6 DEF Write

LEMMA DeliverSerial ==
    ASSUME IInv, SerialOK, NEW w \in inflight, Deliver(w) PROVE SerialOK'
<1> DEFINE v == w.var
<1>1. v \in Nodes /\ UNCHANGED <<pc, target, raw, overlap>>
      /\ Apply(v, w.val) /\ inflight' = inflight \ {w}
  BY DEF IInv, TypeOK, Nodes, Deliver, client
<1>2. \A d \in Clients : \A u : Holder(d, u)' <=> Holder(d, u)
  BY <1>1 DEF Holder
<1>3. Nodes' = Nodes /\ \A u \in Nodes \ {v} : /\ value'[u] = value[u]
                                              /\ applied'[u] = applied[u]
  BY <1>1 DEF Apply, Nodes, IInv, TypeOK
<1>4. ASSUME NEW u \in Nodes \ overlap PROVE Counted(u)' /\ Sole(u)'
  <2>1. Counted(u) /\ Sole(u)
    BY DEF SerialOK
  <2>2. CASE u = v
    <3>1. /\ w.val = Increment(value[v])
          /\ \A x \in inflight' : x.var # v
          /\ \A d \in Clients : ~Holder(d, v)
      BY <1>1, <2>1, <2>2 DEF Sole
    <3>2. Counted(v)'
      BY <1>1, <2>1, <2>2, <3>1, ApplyCounts DEF IInv, Apply
    <3> QED BY <1>2, <2>2, <3>1, <3>2 DEF Sole
  <2>3. CASE u # v
    BY <1>1, <1>2, <1>3, <2>1, <2>3 DEF Counted, Whole, Sole
  <2> QED BY <2>2, <2>3
<1> QED BY <1>1, <1>3, <1>4 DEF SerialOK

LEMMA SerialInductive == Spec => []SerialOK
<1>1. Init => SerialOK
  <2> SUFFICES ASSUME Init, NEW v \in Vars PROVE Counted(v) /\ Sole(v)
    BY CounterAssumption DEF Init, SerialOK, Nodes
  <2>1. value[v] - StartOf(v) - applied[v] = 0 * Modulus
    BY CounterAssumption, ModulusType DEF Init, StartOf
  <2>2. Counted(v)
    BY <2>1 DEF Counted, Whole
  <2>3. Sole(v)
    BY DEF Init, Sole, Holder
  <2> QED BY <2>2, <2>3
<1>2. IInv /\ SerialOK /\ [Next]_vars => SerialOK'
  <2> SUFFICES ASSUME IInv, SerialOK, [Next]_vars PROVE SerialOK'
    OBVIOUS
  <2>1. ASSUME NEW c \in Clients, Control(c) \/ Sigint(c) \/ Restart(c)
        PROVE  SerialOK'
    <3>1. UNCHANGED <<value, applied, inflight, target, raw, overlap>>
      BY <2>1 DEF Control, Begin, BadConfig, Leave, ConnectFails, Connect, Browse,
                  RoundOver, Wake, Sigint, Restart, history
    <3>2. \A d \in Clients : pc'[d] = "write" => pc[d] = "write"
      BY <2>1 DEF Control, Begin, BadConfig, Leave, ConnectFails, Connect, Browse,
                  RoundOver, Wake, Sigint, Restart, Goto, IInv, TypeOK
    <3> QED BY <3>1, <3>2, QuietSerial DEF IInv
  <2>2. CASE UNCHANGED vars
    BY <2>2, QuietSerial DEF IInv, vars, client, history
  <2> QED BY <2>1, <2>2, CreateSerial, ReadSerial, WriteSerial, DeliverSerial
          DEF Next, Step, Control
<1> QED BY <1>1, <1>2, Inductive, PTL DEF Spec

\* Where increments did not overlap a variable stands at its start plus the
\* writes carried out, modulo the integers' width, whatever was lost, late or
\* killed on the way.
THEOREM SerialCounts == Spec => []SerialIncrementsCount
<1>1. TypeOK /\ SerialOK => SerialIncrementsCount
  <2> SUFFICES ASSUME TypeOK, SerialOK, NEW v \in DOMAIN value \ overlap
               PROVE  (value[v] - StartOf(v) - applied[v]) % Modulus = 0
    BY DEF SerialIncrementsCount
  <2>1. PICK q \in Int : value[v] - StartOf(v) - applied[v] = q * Modulus
    BY DEF SerialOK, Nodes, Counted, Whole
  <2>2. (q * Modulus) % Modulus = 0
    BY ModulusType
  <2> QED BY <2>1, <2>2
<1> QED BY <1>1, SerialInductive, TypeCorrect, PTL
=============================================================================
