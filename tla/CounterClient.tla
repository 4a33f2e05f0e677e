---------------------------- MODULE CounterClient ----------------------------
(***************************************************************************)
(* The oldest client, src/old/client_main.cpp, any number of copies of it  *)
(* against one server: every second each of them reads every Int32         *)
(* variable of the objects folder and writes back the value plus one.      *)
(*                                                                         *)
(* A synchronous call (time-out 1000 ms) succeeds, or fails without effect,*)
(* or has its effect although the client saw it fail; and a write whose    *)
(* client gave up on it may reach the server late. The client looks at the *)
(* result of connect only.                                                 *)
(*                                                                         *)
(* A definition called "a slip" is a variant of the one that follows it,   *)
(* a mistake the properties must catch; nothing uses it.                   *)
(***************************************************************************)
EXTENDS Integers

CONSTANTS
    Clients,       \* the running copies of the program
    Vars,          \* the Int32 variables the server has from the start
    Start,         \* Start[v]: their values
    MinInt, MaxInt,
    Unreliable,    \* TRUE: calls may fail or be late; FALSE: all succeed
    AddAllowed,    \* does the server let its clients add nodes
    MaxRounds,     \* bound: rounds of the loop of one process
    MaxRestarts    \* bound: kills and restarts of one client

ASSUME CounterAssumption ==
    /\ MinInt \in Int /\ MaxInt \in Int /\ MinInt <= 0 /\ 0 < MaxInt
    /\ Start \in [Vars -> MinInt .. MaxInt]
    /\ Unreliable \in BOOLEAN /\ AddAllowed \in BOOLEAN
    /\ MaxRounds \in Nat
    /\ MaxRestarts \in Nat
    /\ Vars \cap (Clients \X (Nat \ {0})) = {}

VARIABLES
    value,      \* the server: the value of every variable node it has
    pc, running, one, todo, raw,            \* the clients
    target,     \* nodeId of a client: its own name until its first read
    inflight,   \* writes given up by their client and not yet at the server
    rounds, restarts,                       \* counted for the bounds
    adds,       \* history: nodes each client has added
    issued,     \* history: writes sent to each variable
    applied,    \* history: writes the server carried out on it
    overlap     \* history: the variables where two increments overlapped

client == <<pc, running, one, todo, target, raw>>
history == <<adds, issued, applied, overlap>>
vars == <<value, client, inflight, rounds, restarts, history>>

-----------------------------------------------------------------------------

\* The nodes the clients add, named by client and serial number.
Added == Clients \X (Nat \ {0})
AllVars == Vars \cup Added

StartOf(v) == IF v \in Vars THEN Start[v] ELSE 0

\* Slips: no width, two steps at once, saturation.
IncrementUnbounded(n) == n + 1
IncrementByTwo(n) == n + 2
IncrementSaturating(n) == IF n = MaxInt THEN n ELSE n + 1

\* raw_date += 1 on a 32-bit integer: at the maximum it is undefined, and
\* wraps in the build the repository gives (no optimisation).
Increment(n) == IF n = MaxInt THEN MinInt ELSE n + 1

Modulus == MaxInt - MinInt + 1

\* The writes not yet carried out: of a client that has read, or in flight.
Pending(v) == {c \in Clients : pc[c] = "write" /\ target[c] = v}
Late(v) == {w \in inflight : w.var = v}

Init == /\ value = Start
        /\ pc = [c \in Clients |-> "start"]
        /\ running = [c \in Clients |-> TRUE]
        /\ one = [c \in Clients |-> TRUE]
        /\ todo = [c \in Clients |-> {}]
        /\ target = [c \in Clients |-> c]
        /\ raw = [c \in Clients |-> 0]
        /\ inflight = {}
        /\ rounds = [c \in Clients |-> 0]
        /\ restarts = [c \in Clients |-> 0]
        /\ adds = [c \in Clients |-> 0]
        /\ issued = [v \in Vars |-> 0]
        /\ applied = [v \in Vars |-> 0]
        /\ overlap = {}

Goto(c, line) == pc' = [pc EXCEPT ![c] = line]

-----------------------------------------------------------------------------
(* One client.                                                             *)

LoopForever(c) == TRUE   \* a slip: while (true)

\* The head of the loop.
MayRun(c) == running[c]

\* The two json files are as main() wants them, and the client is made.
Begin(c) ==
    /\ pc[c] = "start"
    /\ Goto(c, "connect")
    /\ UNCHANGED <<value, running, one, todo, target, raw, inflight, rounds,
                   restarts, history>>

\* They are not, and nobody catches the exception of the json library: at the
\* start, or at the name of the first variable, which only Create looks for.
BadConfig(c) ==
    /\ pc[c] \in {"start", "create"}
    /\ Goto(c, "done")
    /\ UNCHANGED <<value, running, one, todo, target, raw, inflight, rounds,
                   restarts, history>>

\* SIGINT was seen at the head of the loop: delete the client, return.
Leave(c) ==
    /\ pc[c] = "connect"
    /\ ~MayRun(c)
    /\ Goto(c, "done")
    /\ UNCHANGED <<value, running, one, todo, target, raw, inflight, rounds,
                   restarts, history>>

\* A refused connection: try again at once if it was closed, or in a second.
ConnectFails(c) ==
    /\ pc[c] = "connect"
    /\ MayRun(c)
    /\ Unreliable
    /\ \/ Goto(c, "connect")
       \/ Goto(c, "sleep")
    /\ UNCHANGED <<value, running, one, todo, target, raw, inflight, rounds,
                   restarts, history>>

Connect(c) ==
    /\ pc[c] = "connect"
    /\ MayRun(c)
    /\ rounds[c] < MaxRounds
    /\ rounds' = [rounds EXCEPT ![c] = @ + 1]
    /\ Goto(c, IF one[c] THEN "create" ELSE "browse")
    /\ UNCHANGED <<value, running, one, todo, target, raw, inflight,
                   restarts, history>>

\* The server's part of addVariableNode: the new node starts at 0.
AddNode(v) ==
    /\ value' = [u \in DOMAIN value \cup {v} |-> IF u = v THEN 0 ELSE value[u]]
    /\ issued' = [u \in DOMAIN issued \cup {v} |-> IF u = v THEN 0 ELSE issued[u]]
    /\ applied' = [u \in DOMAIN applied \cup {v} |-> IF u = v THEN 0 ELSE applied[u]]

NewNode(c) == <<c, adds[c] + 1>>

OneForgotten == TRUE   \* a slip: line 98 is missing

\* The flag `one` once a node was asked for.
OneAfterCreate == FALSE

\* CreateVariable, tried once in the life of a process, whatever comes of it.
Create(c) ==
    /\ pc[c] = "create"
    /\ \/ /\ AddAllowed
          /\ AddNode(NewNode(c))
          /\ adds' = [adds EXCEPT ![c] = @ + 1]
       \/ /\ Unreliable \/ ~AddAllowed
          /\ UNCHANGED <<value, adds, issued, applied>>
    /\ one' = [one EXCEPT ![c] = OneAfterCreate]
    /\ Goto(c, "browse")
    /\ UNCHANGED <<running, todo, target, raw, inflight, rounds, restarts, overlap>>

\* The variables in an answer to a browse of the folder: all of them, unless
\* the call failed or the server cut its answer.
GetResponse == IF Unreliable THEN SUBSET DOMAIN value ELSE {DOMAIN value}

Browse(c) ==
    /\ pc[c] = "browse"
    /\ \E refs \in GetResponse : todo' = [todo EXCEPT ![c] = refs]
    /\ Goto(c, "read")
    /\ UNCHANGED <<value, running, one, target, raw, inflight, rounds,
                   restarts, history>>

\* Does the answer to a read hold a value.
ReadResponse == IF Unreliable THEN BOOLEAN ELSE {TRUE}

\* The next reference; one whose read fails is passed over, as are those that
\* are not variables and those of other types, which this model leaves out.
Read(c) ==
    /\ pc[c] = "read"
    /\ \E v \in todo[c] :
         /\ todo' = [todo EXCEPT ![c] = @ \ {v}]
         /\ \E hasValue \in ReadResponse :
              IF hasValue
                THEN /\ target' = [target EXCEPT ![c] = v]
                     /\ raw' = [raw EXCEPT ![c] = value[v]]
                     /\ Goto(c, "write")
                     /\ overlap' = overlap \cup
                           (IF Pending(v) \cup Late(v) = {} THEN {} ELSE {v})
                ELSE UNCHANGED <<target, raw, pc, overlap>>
    /\ UNCHANGED <<value, running, one, inflight, rounds, restarts,
                   adds, issued, applied>>

\* The server carries out a write.
Apply(v, n) ==
    /\ value' = [value EXCEPT ![v] = n]
    /\ applied' = [applied EXCEPT ![v] = @ + 1]

\* writeValueAttribute of the value read plus one; its result is not used.
Write(c) ==
    /\ pc[c] = "write"
    /\ LET v == target[c]
           n == Increment(raw[c])
       IN  /\ issued' = [issued EXCEPT ![v] = @ + 1]
           /\ \/ Apply(v, n) /\ inflight' = inflight
              \/ Unreliable /\ UNCHANGED <<value, applied, inflight>>
              \/ /\ Unreliable
                 /\ inflight' = inflight \cup
                       {[var |-> v, val |-> n, no |-> issued[v]]}
                 /\ UNCHANGED <<value, applied>>
    /\ Goto(c, "read")
    /\ UNCHANGED <<running, one, todo, target, raw, rounds, restarts,
                   adds, overlap>>

\* Every reference is done: print and sleep for a second.
RoundOver(c) ==
    /\ pc[c] = "read"
    /\ todo[c] = {}
    /\ Goto(c, "sleep")
    /\ UNCHANGED <<value, running, one, todo, target, raw, inflight, rounds,
                   restarts, history>>

Wake(c) ==
    /\ pc[c] = "sleep"
    /\ Goto(c, "connect")
    /\ UNCHANGED <<value, running, one, todo, target, raw, inflight, rounds,
                   restarts, history>>

Step(c) == \/ Begin(c)
           \/ BadConfig(c)
           \/ Leave(c)
           \/ ConnectFails(c)
           \/ Connect(c)
           \/ Create(c)
           \/ Browse(c)
           \/ Read(c)
           \/ Write(c)
           \/ RoundOver(c)
           \/ Wake(c)

-----------------------------------------------------------------------------
(* The rest of the world.                                                  *)

\* A late write reaches the server.
Deliver(w) ==
    /\ Apply(w.var, w.val)
    /\ inflight' = inflight \ {w}
    /\ UNCHANGED <<client, rounds, restarts, adds, issued, overlap>>

Sigint(c) ==
    /\ running[c]
    /\ pc[c] # "done"
    /\ running' = [running EXCEPT ![c] = FALSE]
    /\ UNCHANGED <<value, pc, one, todo, target, raw, inflight, rounds,
                   restarts, history>>

\* The process is killed anywhere, or has ended, and is started again.
Restart(c) ==
    /\ restarts[c] < MaxRestarts
    /\ restarts' = [restarts EXCEPT ![c] = @ + 1]
    /\ Goto(c, "start")
    /\ running' = [running EXCEPT ![c] = TRUE]
    /\ one' = [one EXCEPT ![c] = TRUE]
    /\ todo' = [todo EXCEPT ![c] = {}]
    /\ rounds' = [rounds EXCEPT ![c] = 0]
    /\ UNCHANGED <<value, target, raw, inflight, history>>

Next == \/ \E c \in Clients : Step(c) \/ Sigint(c) \/ Restart(c)
        \/ \E w \in inflight : Deliver(w)

Spec == Init /\ [][Next]_vars

\* A client is one thread whose calls all return; nothing makes a late write
\* arrive, a user press Ctrl-C or a process die.
FairSpec == Spec /\ \A c \in Clients : WF_vars(Step(c))

-----------------------------------------------------------------------------
(* Properties.                                                             *)

Values == MinInt .. MaxInt

\* The server's values, the locals of the clients and the counts keep types.
TypeOK ==
    LET nodes == DOMAIN value IN
    /\ Vars \subseteq nodes /\ nodes \subseteq AllVars
    /\ value \in [nodes -> Values]
    /\ pc \in [Clients -> {"start", "connect", "create", "browse", "read",
                           "write", "sleep", "done"}]
    /\ running \in [Clients -> BOOLEAN]
    /\ one \in [Clients -> BOOLEAN]
    /\ todo \in [Clients -> SUBSET nodes]
    /\ target \in [Clients -> nodes \cup Clients]
    /\ \A c \in Clients : pc[c] = "write" => target[c] \in nodes
    /\ raw \in [Clients -> Values]
    /\ inflight \subseteq [var : nodes, val : Values, no : Nat]
    /\ rounds \in [Clients -> Nat]
    /\ restarts \in [Clients -> Nat]
    /\ adds \in [Clients -> Nat]
    /\ issued \in [nodes -> Nat]
    /\ applied \in [nodes -> Nat]
    /\ overlap \subseteq nodes

\* A variable never counts further than the writes sent to it: whatever
\* clients race, and whatever write is lost, late or sent by a process that
\* was killed since, no increment comes from nothing.
NoPhantomIncrement ==
    \A v \in DOMAIN value : value[v] <= StartOf(v) + issued[v]

\* Where no two increments overlapped, none was lost and none counted twice:
\* the variable stands at its start plus the writes carried out, modulo the
\* integers' width. A client killed between its read and its write, and a
\* late write that found the value it was computed from, do no harm.
SerialIncrementsCount ==
    \A v \in DOMAIN value \ overlap :
        (value[v] - StartOf(v) - applied[v]) % Modulus = 0

\* A process adds at most one node however often its connection is lost: the
\* flag `one` survives the reconnection, and only a new process has a new one.
AddedOncePerProcess ==
    \A c \in Clients : adds[c] <= restarts[c] + 1

\* After SIGINT a client leaves its loop, though it looks at running only at
\* the head and goes there without a pause when the connection was closed.
StopsAfterSigint ==
    \A c \in Clients : ~running[c] ~> (pc[c] = "done" \/ running[c])
=============================================================================
