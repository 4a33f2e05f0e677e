---------------------------- MODULE VariableClient ---------------------------
(***************************************************************************)
(* The second client, src/old/client.cpp with src/old/client.hpp: every    *)
(* second it goes through the configured variables and, for each, through  *)
(* the references of the objects folder. It writes the configured value to *)
(* the variable of that name; if it found none it asks the server for one. *)
(*                                                                         *)
(* Undefined behaviour of the code is a choice here: a display name copied *)
(* without its terminator may compare unequal, and a variant that points   *)
(* to a local of CreateVariant, which has returned, may send anything.     *)
(* A value is abstracted to its type, the configured variable it was sent  *)
(* for (0: it is another's), and whether it is the value configured.       *)
(*                                                                         *)
(* A definition called "a slip" is a variant of the one that follows it,   *)
(* a mistake the properties must catch; nothing uses it.                   *)
(***************************************************************************)
EXTENDS Integers, Sequences

CONSTANTS
    Clients,      \* the running copies of the program, on the same files
    Wanted,       \* the configured variables: a sequence of [name, json]
    Names,        \* display names
    PrefixOf,     \* the pairs of them of which the first begins the second
    Nodes,        \* node ids; those the server has at the start are in Folder
    Folder,       \* the references of the objects folder at the start
    NameOf,       \* the display name of a node
    IsVariable,   \* the nodes of class variable
    DataType,     \* the type a node takes, or "any"
    NewNode,      \* the id "name123"
    AddAllowed,   \* does the server let its clients add nodes
    Faulty,       \* may calls fail
    MaxRounds     \* bound: rounds of the loop

Types == {"int32", "double", "boolean", "string"}

ASSUME VariableAssumption ==
    /\ Wanted \in Seq([name : Names,
                       json : {"integer", "double", "boolean", "string", "other"}])
    /\ Folder \in Seq(Nodes)
    /\ NameOf \in [Nodes -> Names]
    /\ PrefixOf \subseteq Names \X Names
    /\ IsVariable \subseteq Nodes
    /\ DataType \in [Nodes -> Types \cup {"any"}]
    /\ NewNode \in IsVariable
    /\ \A i \in DOMAIN Folder : Folder[i] # NewNode
    /\ AddAllowed \in BOOLEAN /\ Faulty \in BOOLEAN
    /\ MaxRounds \in Nat

VARIABLES
    folder, value,                      \* the server
    pc, running, refs, k, j, findIndex, \* the clients
    varOut,     \* the json object printed: "null" or "value" per name
    rounds,     \* counted for the bound
    clean       \* history: in this round of the client no call has failed, no
                \* undefined behaviour has shown, and nobody else has written

client == <<pc, running, refs, k, j, findIndex, varOut>>
vars == <<folder, value, client, rounds, clean>>

-----------------------------------------------------------------------------

Foreign == [type |-> "int32", from |-> 0, sound |-> TRUE]

Values == [type : Types, from : 0 .. Len(Wanted), sound : BOOLEAN]

Init == /\ folder = Folder
        /\ value = [n \in Nodes |-> Foreign]
        /\ pc = [c \in Clients |-> "start"]
        /\ running = [c \in Clients |-> TRUE]
        /\ refs = [c \in Clients |-> <<>>]
        /\ k = [c \in Clients |-> 1]
        /\ j = [c \in Clients |-> 1]
        /\ findIndex = [c \in Clients |-> 0]
        /\ varOut = [c \in Clients |-> [name \in {} |-> "null"]]
        /\ rounds = [c \in Clients |-> 0]
        /\ clean = [c \in Clients |-> TRUE]

Goto(c, line) == pc' = [pc EXCEPT ![c] = line]

Ref(c) == refs[c][j[c]]

\* The if-chain of GetJsonType, and the switch on its result.
GetJsonType(json) == IF json = "integer" THEN "int32" ELSE json

\* What writeValueAttribute may find in the variant CreateVariant leaves: one
\* whose data is gone, or none at all for a json value of another type. Such
\* a string, or such a variant, may also bring the process down.
CreateVariant(json) ==
    IF json = "other"
      THEN {[type |-> type, sound |-> FALSE] : type \in Types}
      ELSE {[type |-> GetJsonType(json), sound |-> sound] : sound \in BOOLEAN}

MayCrash(json) == json \in {"string", "other"}

\* VariantToJson takes the json value by value: its caller's stays as it was,
\* which is what operator[] has just made of it.
VariantToJson(entry) == entry

Entry(out, name) == IF name \in DOMAIN out THEN out[name] ELSE "null"

\* UastrToCharArr copies a display name without its terminator: what follows
\* it in memory may make another name of it, or the one looked for.
Alike(name, wanted) == name = wanted \/ <<name, wanted>> \in PrefixOf

\* A slip: the names are not compared to their end.
SameStart(name, wanted) == {TRUE}

SameName(name, wanted) == IF Alike(name, wanted) THEN BOOLEAN ELSE {FALSE}

-----------------------------------------------------------------------------
(* The loop.                                                               *)

Begin(c) ==
    /\ pc[c] = "start"
    /\ Goto(c, "connect")
    /\ UNCHANGED <<folder, value, running, refs, k, j, findIndex, varOut, rounds, clean>>

\* An exception of the json library: a file that does not parse, or a setting
\* that is not there when the connection asks for it.
BadConfig(c) ==
    /\ pc[c] \in {"start", "connect"}
    /\ Goto(c, "done")
    /\ UNCHANGED <<folder, value, running, refs, k, j, findIndex, varOut, rounds, clean>>

Leave(c) ==
    /\ pc[c] = "connect"
    /\ ~running[c]
    /\ Goto(c, "done")
    /\ UNCHANGED <<folder, value, running, refs, k, j, findIndex, varOut, rounds, clean>>

\* A connection that was closed is asked for again at once; another failure
\* waits for a second first.
ConnectFails(c) ==
    /\ pc[c] = "connect"
    /\ running[c]
    /\ Faulty
    /\ \/ Goto(c, "connect")
       \/ Goto(c, "sleep")
    /\ clean' = [clean EXCEPT ![c] = FALSE]
    /\ UNCHANGED <<folder, value, running, refs, k, j, findIndex, varOut, rounds>>

Connect(c) ==
    /\ pc[c] = "connect"
    /\ running[c]
    /\ rounds[c] < MaxRounds
    /\ rounds' = [rounds EXCEPT ![c] = @ + 1]
    /\ clean' = [clean EXCEPT ![c] = TRUE]
    /\ Goto(c, "browse")
    /\ UNCHANGED <<folder, value, running, refs, k, j, findIndex, varOut>>

\* How many references the answer to a browse of the folder holds.
GetResponse == IF Faulty THEN 0 .. Len(folder) ELSE {Len(folder)}

\* An answer has one result, whole or cut short, or none if the call failed:
\* with one the client goes through its variables, with none it does not.
Browse(c) ==
    /\ pc[c] = "browse"
    /\ k' = [k EXCEPT ![c] = 1]
    /\ j' = [j EXCEPT ![c] = 1]
    /\ findIndex' = [findIndex EXCEPT ![c] = 0]
    /\ \/ \E size \in GetResponse :
             /\ refs' = [refs EXCEPT ![c] = SubSeq(folder, 1, size)]
             /\ clean' = [clean EXCEPT ![c] = @ /\ size = Len(folder)]
             /\ Goto(c, "match")
       \/ /\ Faulty
          /\ clean' = [clean EXCEPT ![c] = FALSE]
          /\ Goto(c, "print")
          /\ refs' = refs
    /\ UNCHANGED <<folder, value, running, varOut, rounds>>

\* A slip: the last reference is left out.
AtReferenceShort(c) == /\ pc[c] = "match"
                       /\ k[c] <= Len(Wanted)
                       /\ j[c] < Len(refs[c])

AtReference(c) == /\ pc[c] = "match"
                  /\ k[c] <= Len(Wanted)
                  /\ j[c] <= Len(refs[c])

SkipNoVariable(c) ==
    /\ AtReference(c)
    /\ Ref(c) \notin IsVariable
    /\ j' = [j EXCEPT ![c] = @ + 1]
    /\ UNCHANGED <<folder, value, pc, running, refs, k, findIndex, varOut, rounds, clean>>

\* Does the answer to a read hold a value: a new node may have none.
ReadResponse(n) == IF Faulty \/ n = NewNode THEN BOOLEAN ELSE {TRUE}

ReadFails(c) ==
    /\ AtReference(c)
    /\ Ref(c) \in IsVariable
    /\ FALSE \in ReadResponse(Ref(c))
    /\ j' = [j EXCEPT ![c] = @ + 1]
    /\ clean' = [clean EXCEPT ![c] = FALSE]
    /\ UNCHANGED <<folder, value, pc, running, refs, k, findIndex, varOut, rounds>>

\* The value is there: is this the variable looked for? If not, the json
\* object gets an entry for it.
Read(c) ==
    /\ AtReference(c)
    /\ Ref(c) \in IsVariable
    /\ LET name == NameOf[Ref(c)]
       IN  \E same \in SameName(name, Wanted[k[c]].name) :
             /\ clean' = [clean EXCEPT ![c] = @ /\ (same <=> name = Wanted[k[c]].name)]
             /\ IF same
                  THEN /\ Goto(c, "write")
                       /\ UNCHANGED <<j, varOut>>
                  ELSE /\ j' = [j EXCEPT ![c] = @ + 1]
                       /\ varOut' = [varOut EXCEPT ![c] =
                             [x \in DOMAIN @ \cup {name} |->
                                IF x = name THEN VariantToJson(Entry(@, name))
                                            ELSE @[x]]]
                       /\ pc' = pc
    /\ UNCHANGED <<folder, value, running, refs, k, findIndex, rounds>>

\* A write by c, or by a client of another kind, ends the peace of the others.
DisturbOthers(c, good) == clean' = [d \in Clients |-> IF d = c THEN clean[d] /\ good
                                                               ELSE FALSE]

Accepts(n, type) == DataType[n] \in {"any", type}

\* writeValueAttribute: its result is not looked at.
Write(c) ==
    /\ pc[c] = "write"
    /\ LET n == Ref(c)
       IN \E sent \in CreateVariant(Wanted[k[c]].json) :
            IF Accepts(n, sent.type)
              THEN \/ /\ value' = [value EXCEPT ![n] =
                            [type |-> sent.type, from |-> k[c], sound |-> sent.sound]]
                      /\ DisturbOthers(c, sent.sound)
                   \/ /\ Faulty \/ ~sent.sound
                      /\ value' = value
                      /\ clean' = [clean EXCEPT ![c] = FALSE]
              ELSE value' = value /\ clean' = [clean EXCEPT ![c] = @ /\ sent.sound]
    /\ findIndex' = [findIndex EXCEPT ![c] = k[c]]
    /\ j' = [j EXCEPT ![c] = @ + 1]
    /\ Goto(c, "match")
    /\ UNCHANGED <<folder, running, refs, k, varOut, rounds>>

WriteCrashes(c) ==
    /\ pc[c] = "write"
    /\ MayCrash(Wanted[k[c]].json)
    /\ Goto(c, "done")
    /\ UNCHANGED <<folder, value, running, refs, k, j, findIndex, varOut, rounds, clean>>

ReferencesOver(c) == /\ pc[c] = "match"
                     /\ k[c] <= Len(Wanted)
                     /\ j[c] > Len(refs[c])

\* A slip: the inner loop does not start again.
NextVariableHere(c) == /\ k' = [k EXCEPT ![c] = @ + 1]
                       /\ findIndex' = [findIndex EXCEPT ![c] = 0]
                       /\ j' = j

NextVariable(c) == /\ k' = [k EXCEPT ![c] = @ + 1]
                   /\ j' = [j EXCEPT ![c] = 1]
                   /\ findIndex' = [findIndex EXCEPT ![c] = 0]

\* A slip: <= 0 for < 0, which takes the first variable as never found.
NotFoundOrFirst(c) == findIndex[c] <= 1

\* findIndex < 0, in the indices of this module.
NotFound(c) == findIndex[c] <= 0

Found(c) ==
    /\ ReferencesOver(c)
    /\ ~NotFound(c)
    /\ NextVariable(c)
    /\ UNCHANGED <<folder, value, pc, running, refs, varOut, rounds, clean>>

\* The id in the request: "name123", whatever name is missing.
Requested == NewNode

\* A node is added if the server allows it and has none of that id.
CreateVariable(c) ==
    /\ ReferencesOver(c)
    /\ NotFound(c)
    /\ \/ /\ AddAllowed
          /\ \A i \in DOMAIN folder : folder[i] # Requested
          /\ folder' = Append(folder, Requested)
       \/ /\ \/ Faulty
             \/ ~AddAllowed
             \/ \E i \in DOMAIN folder : folder[i] = Requested
          /\ folder' = folder
    /\ NextVariable(c)
    /\ UNCHANGED <<value, pc, running, refs, varOut, rounds, clean>>

MatchOver(c) ==
    /\ pc[c] = "match"
    /\ k[c] > Len(Wanted)
    /\ Goto(c, "print")
    /\ UNCHANGED <<folder, value, running, refs, k, j, findIndex, varOut, rounds, clean>>

PrintOutput(c) ==
    /\ pc[c] = "print"
    /\ Goto(c, "sleep")
    /\ UNCHANGED <<folder, value, running, refs, k, j, findIndex, varOut, rounds, clean>>

Wake(c) ==
    /\ pc[c] = "sleep"
    /\ Goto(c, "connect")
    /\ UNCHANGED <<folder, value, running, refs, k, j, findIndex, varOut, rounds, clean>>

Step(c) == \/ Begin(c)
           \/ BadConfig(c)
           \/ Leave(c)
           \/ ConnectFails(c)
           \/ Connect(c)
           \/ Browse(c)
           \/ SkipNoVariable(c)
           \/ ReadFails(c)
           \/ Read(c)
           \/ Write(c)
           \/ WriteCrashes(c)
           \/ Found(c)
           \/ CreateVariable(c)
           \/ MatchOver(c)
           \/ PrintOutput(c)
           \/ Wake(c)

-----------------------------------------------------------------------------
(* The rest of the world.                                                  *)

Sigint(c) ==
    /\ running[c]
    /\ pc[c] # "done"
    /\ running' = [running EXCEPT ![c] = FALSE]
    /\ UNCHANGED <<folder, value, pc, refs, k, j, findIndex, varOut, rounds, clean>>

\* A client of another kind writes a variable that this one has written.
OtherWrites(n) ==
    /\ value[n] # Foreign
    /\ value' = [value EXCEPT ![n] = Foreign]
    /\ clean' = [c \in Clients |-> FALSE]
    /\ UNCHANGED <<folder, client, rounds>>

Next == \/ \E c \in Clients : Step(c) \/ Sigint(c)
        \/ \E n \in Nodes : OtherWrites(n)

Spec == Init /\ [][Next]_vars

\* A client is one thread whose calls all return; nothing makes a user press
\* Ctrl-C or another client write.
FairSpec == Spec /\ \A c \in Clients : WF_vars(Step(c))

-----------------------------------------------------------------------------
(* Properties.                                                             *)

TypeOK ==
    /\ folder \in Seq(Nodes)
    /\ value \in [Nodes -> Values]
    /\ pc \in [Clients -> {"start", "connect", "browse", "match", "write",
                           "print", "sleep", "done"}]
    /\ running \in [Clients -> BOOLEAN]
    /\ refs \in [Clients -> Seq(Nodes)]
    /\ k \in [Clients -> 1 .. Len(Wanted) + 1]
    /\ \A c \in Clients : /\ j[c] \in 1 .. Len(refs[c]) + 1
                          /\ pc[c] = "write" => j[c] <= Len(refs[c])
    /\ findIndex \in [Clients -> 0 .. Len(Wanted)]
    /\ \A c \in Clients : \A name \in DOMAIN varOut[c] :
          name \in Names /\ varOut[c][name] \in {"null", "value"}
    /\ rounds \in [Clients -> Nat]
    /\ clean \in [Clients -> BOOLEAN]

\* Whatever calls fail, however the rounds of the clients interleave and
\* whatever the memory behind a name holds: what this program sends for a
\* configured variable only ever reaches a variable node of a like name that
\* takes its type; and if the value is the configured one, so is its type.
ReachesItsVariable ==
    \A n \in Nodes :
        LET sent == value[n]
        IN  sent.from > 0 =>
              /\ n \in IsVariable
              /\ Alike(NameOf[n], Wanted[sent.from].name)
              /\ Accepts(n, sent.type)
              /\ sent.sound => sent.type = GetJsonType(Wanted[sent.from].json)

\* After a clean round every variable of a configured name holds the value of
\* the last entry of that name that its type admits: duplicates of a name, on
\* the server or in the file, are all served, and the file's order decides.
Entries(n) == {m \in DOMAIN Wanted :
                 /\ Wanted[m].name = NameOf[n]
                 /\ Wanted[m].json # "other"
                 /\ Accepts(n, GetJsonType(Wanted[m].json))}

LastEntryWins ==
    \A c \in Clients : pc[c] \in {"print", "sleep"} /\ clean[c] =>
        \A i \in DOMAIN refs[c] :
            LET n == refs[c][i]
            IN  n \in IsVariable /\ Entries(n) # {} =>
                    /\ value[n].from \in Entries(n)
                    /\ \A m \in Entries(n) : m <= value[n].from

\* What is sent goes where it should, the last of it last.
SentAsConfigured == TypeOK /\ ReachesItsVariable /\ LastEntryWins

\* In a clean round the client asks for a new node exactly for the entries
\* whose name no variable of the answer has: findIndex says it of each entry
\* for itself, and not of the one before.
AsksForTheMissing ==
    \A c \in Clients : ReferencesOver(c) /\ clean[c] =>
        (NotFound(c) <=>
            ~\E i \in DOMAIN refs[c] : /\ refs[c][i] \in IsVariable
                                       /\ NameOf[refs[c][i]] = Wanted[k[c]].name)

\* After SIGINT a client ends, though it looks at running only at the head of
\* its loop: every round of the three loops inside it comes to an end.
StopsAfterSigint == \A c \in Clients : ~running[c] ~> pc[c] = "done"
=============================================================================
