------------------------ MODULE VariableClientProofs -------------------------
(***************************************************************************)
(* What the configured-variables client sends reaches the variables it is  *)
(* for, the last entry of a name wins, and a new node is asked for exactly *)
(* where a name is missing: for any number of clients, entries, nodes and  *)
(* rounds.                                                                 *)
(***************************************************************************)
EXTENDS VariableClient, TLAPS

\* The types, with the domains that TypeOK does not spell out.
Outs == UNION {[S -> {"null", "value"}] : S \in SUBSET Names}

Typed == /\ TypeOK
         /\ j \in [Clients -> Nat]
         /\ varOut \in [Clients -> Outs]

\* A client that is about to write stands at a variable of a like name.
AtItsVariable(c) ==
    pc[c] = "write" => /\ k[c] <= Len(Wanted)
                       /\ j[c] <= Len(refs[c])
                       /\ Ref(c) \in IsVariable
                       /\ Alike(NameOf[Ref(c)], Wanted[k[c]].name)

\* The loops of c have been at reference i with the entry m.
Passed(c, i, m) == m < k[c] \/ (m = k[c] /\ i < j[c])

\* Each variable of the answer holds the last entry that is for it among those
\* the loops have been at, or a later one.
ServedAt(c, i) ==
    LET n == refs[c][i]
    IN  n \in IsVariable =>
            \A m \in Entries(n) : Passed(c, i, m) =>
                value[n].from \in Entries(n) /\ m <= value[n].from

Served(c) == \A i \in DOMAIN refs[c] : ServedAt(c, i)

\* Reference i is a variable of the name that entry m asks for.
IsFor(c, i, m) == /\ refs[c][i] \in IsVariable
                  /\ NameOf[refs[c][i]] = Wanted[m].name

\* findIndex says whether the inner loop has met the name it looks for.
FoundSoFar(c) ==
    k[c] <= Len(Wanted) =>
        (findIndex[c] > 0 <=> \E i \in DOMAIN refs[c] : (i < j[c]) /\ IsFor(c, i, k[c]))

CleanRound(c) ==
    /\ pc[c] = "write" => NameOf[Ref(c)] = Wanted[k[c]].name
    /\ pc[c] \in {"print", "sleep"} => k[c] > Len(Wanted)
    /\ pc[c] \in {"match", "write", "print", "sleep"} => Served(c)
    /\ pc[c] \in {"match", "write"} => FoundSoFar(c)

Loops(c) == AtItsVariable(c) /\ (clean[c] => CleanRound(c))

IInv == Typed /\ ReachesItsVariable /\ \A c \in Clients : Loops(c)

-----------------------------------------------------------------------------
(* The types.                                                              *)

Lines == {"start", "connect", "browse", "match", "write", "print", "sleep", "done"}

Asked == [name : Names, json : {"integer", "double", "boolean", "string", "other"}]

LEMMA WantedFacts ==
    /\ Len(Wanted) \in Nat /\ DOMAIN Wanted = 1 .. Len(Wanted)
    /\ \A m \in DOMAIN Wanted : Wanted[m] \in Asked
<1>1. Wanted \in Seq(Asked)
  BY VariableAssumption DEF Asked
<1> QED BY <1>1

LEMMA ControlTypes ==
    ASSUME Typed
    PROVE  /\ folder \in Seq(Nodes)
           /\ pc \in [Clients -> Lines]
           /\ k \in [Clients -> 1 .. Len(Wanted) + 1]
           /\ j \in [Clients -> Nat]
           /\ findIndex \in [Clients -> 0 .. Len(Wanted)]
           /\ clean \in [Clients -> BOOLEAN]
           /\ rounds \in [Clients -> Nat]
           /\ value \in [Nodes -> Values]
           /\ \A c \in Clients : Len(refs[c]) \in Nat
BY DEF Typed, TypeOK, Lines

LEMMA RefType ==
    ASSUME Typed, NEW c \in Clients, AtReference(c) \/ pc[c] = "write"
    PROVE  /\ refs[c] \in Seq(Nodes) /\ j[c] \in 1 .. Len(refs[c])
           /\ Ref(c) \in Nodes /\ NameOf[Ref(c)] \in Names
BY VariableAssumption DEF Typed, TypeOK, AtReference, Ref

\* The steps that move a client's control only.
Quiet(c) == Begin(c) \/ BadConfig(c) \/ Leave(c) \/ ConnectFails(c) \/ Connect(c)
              \/ WriteCrashes(c) \/ MatchOver(c) \/ PrintOutput(c) \/ Wake(c)

LEMMA QuietFacts ==
    ASSUME Typed, NEW c \in Clients, Quiet(c)
    PROVE  /\ UNCHANGED <<folder, value, running, refs, k, j, findIndex, varOut>>
           /\ \E line \in Lines \ {"write", "match"} : pc' = [pc EXCEPT ![c] = line]
           /\ rounds' \in [Clients -> Nat]
           /\ clean' \in [Clients -> BOOLEAN]
           /\ \A d \in Clients : d # c => clean'[d] = clean[d]
<1>1. UNCHANGED <<folder, value, running, refs, k, j, findIndex, varOut>>
  BY DEF Quiet, Begin, BadConfig, Leave, ConnectFails, Connect, WriteCrashes,
         MatchOver, PrintOutput, Wake
<1>2. \E line \in Lines \ {"write", "match"} : pc' = [pc EXCEPT ![c] = line]
  <2> DEFINE To(line) == pc' = [pc EXCEPT ![c] = line]
  <2>1. \/ To("connect") \/ To("done") \/ To("sleep") \/ To("browse") \/ To("print")
    BY DEF Quiet, Begin, BadConfig, Leave, ConnectFails, Connect, WriteCrashes,
           MatchOver, PrintOutput, Wake, Goto
  <2> QED BY <2>1 DEF Lines
<1>3. rounds' = rounds \/ rounds' = [rounds EXCEPT ![c] = @ + 1]
  BY DEF Quiet, Begin, BadConfig, Leave, ConnectFails, Connect, WriteCrashes,
         MatchOver, PrintOutput, Wake
<1>4. \/ clean' = clean
      \/ clean' = [clean EXCEPT ![c] = TRUE]
      \/ clean' = [clean EXCEPT ![c] = FALSE]
  BY DEF Quiet, Begin, BadConfig, Leave, ConnectFails, Connect, WriteCrashes,
         MatchOver, PrintOutput, Wake
<1>5. rounds' \in [Clients -> Nat]
  <2>1. rounds \in [Clients -> Nat]
    BY DEF Typed, TypeOK
  <2> QED BY <1>3, <2>1
<1>6. clean' \in [Clients -> BOOLEAN] /\ \A d \in Clients : d # c => clean'[d] = clean[d]
  BY <1>4 DEF Typed, TypeOK
<1> QED BY <1>1, <1>2, <1>5, <1>6

LEMMA QuietTyped == ASSUME Typed, NEW c \in Clients, Quiet(c) PROVE Typed'
<1>1. PICK line \in Lines \ {"write", "match"} : pc' = [pc EXCEPT ![c] = line]
  BY QuietFacts
<1>2. pc \in [Clients -> Lines]
  BY DEF Typed, TypeOK, Lines
<1>3. pc' \in [Clients -> Lines] /\ \A d \in Clients : pc'[d] = "write" => pc[d] = "write"
  BY <1>1, <1>2
<1>4. UNCHANGED <<folder, value, running, refs, k, j, findIndex, varOut>>
      /\ rounds' \in [Clients -> Nat] /\ clean' \in [Clients -> BOOLEAN]
  BY QuietFacts
<1> QED BY <1>3, <1>4 DEF Typed, TypeOK, Lines

LEMMA BrowseTyped == ASSUME Typed, NEW c \in Clients, Browse(c) PROVE Typed'
<1>1. /\ UNCHANGED <<folder, value, running, varOut, rounds>>
      /\ k' = [k EXCEPT ![c] = 1] /\ j' = [j EXCEPT ![c] = 1]
      /\ findIndex' = [findIndex EXCEPT ![c] = 0]
      /\ clean' \in [Clients -> BOOLEAN]
      /\ pc' \in [Clients -> Lines]
      /\ \A d \in Clients : pc'[d] = "write" => pc[d] = "write" /\ d # c
  BY DEF Typed, TypeOK, Browse, Goto, Lines
<1>2. refs' \in [Clients -> Seq(Nodes)] /\ \A d \in Clients \ {c} : refs'[d] = refs[d]
  <2>1. CASE refs' = refs
    BY <2>1 DEF Typed, TypeOK
  <2>2. ASSUME NEW size \in GetResponse,
               refs' = [refs EXCEPT ![c] = SubSeq(folder, 1, size)]
        PROVE  refs' \in [Clients -> Seq(Nodes)]
               /\ \A d \in Clients \ {c} : refs'[d] = refs[d]
    <3>1. size \in 0 .. Len(folder) /\ folder \in Seq(Nodes)
      BY DEF GetResponse, Typed, TypeOK
    <3>2. SubSeq(folder, 1, size) \in Seq(Nodes)
      BY <3>1
    <3> QED BY <2>2, <3>2 DEF Typed, TypeOK
  <2> QED BY <2>1, <2>2 DEF Browse
<1>3. Len(Wanted) \in Nat /\ \A d \in Clients : Len(refs'[d]) \in Nat
  BY <1>2, VariableAssumption
<1>4. \A d \in Clients : /\ j'[d] \in 1 .. Len(refs'[d]) + 1
                         /\ pc'[d] = "write" => j'[d] <= Len(refs'[d])
  BY <1>1, <1>2, <1>3, SMTT(30) DEF Typed, TypeOK
<1>5. k' \in [Clients -> 1 .. Len(Wanted) + 1] /\ j' \in [Clients -> Nat]
      /\ findIndex' \in [Clients -> 0 .. Len(Wanted)]
  BY <1>1, <1>3 DEF Typed, TypeOK
<1> QED BY <1>1, <1>2, <1>4, <1>5 DEF Typed, TypeOK, Lines

\* The inner loop goes one step on.
LEMMA StepTyped ==
    ASSUME Typed, NEW c \in Clients, AtReference(c) \/ pc[c] = "write",
           j' = [j EXCEPT ![c] = @ + 1], refs' = refs,
           \A d \in Clients : pc'[d] = "write" => pc[d] = "write" /\ d # c
    PROVE  /\ j' \in [Clients -> Nat]
           /\ \A d \in Clients : /\ j'[d] \in 1 .. Len(refs'[d]) + 1
                                 /\ pc'[d] = "write" => j'[d] <= Len(refs'[d])
<1>1. j[c] \in 1 .. Len(refs[c]) /\ \A d \in Clients : Len(refs[d]) \in Nat
  BY RefType, SMTT(30) DEF Typed, TypeOK
<1> QED BY <1>1, SMTT(30) DEF Typed, TypeOK

LEMMA SkipTyped ==
    ASSUME Typed, NEW c \in Clients, SkipNoVariable(c) \/ ReadFails(c)
    PROVE  Typed'
<1>1. /\ AtReference(c) /\ j' = [j EXCEPT ![c] = @ + 1]
      /\ UNCHANGED <<folder, value, pc, running, refs, k, findIndex, varOut, rounds>>
      /\ clean' \in [Clients -> BOOLEAN]
  BY DEF SkipNoVariable, ReadFails, Typed, TypeOK
<1>2. \A d \in Clients : pc'[d] = "write" => pc[d] = "write" /\ d # c
  BY <1>1 DEF AtReference
<1> QED BY <1>1, <1>2, StepTyped DEF Typed, TypeOK

LEMMA ReadTyped == ASSUME Typed, NEW c \in Clients, Read(c) PROVE Typed'
<1> DEFINE name == NameOf[Ref(c)]
<1>1. /\ AtReference(c)
      /\ UNCHANGED <<folder, value, running, refs, k, findIndex, rounds>>
      /\ clean' \in [Clients -> BOOLEAN]
  BY DEF Read, SameName, Typed, TypeOK
<1>2. name \in Names
  BY <1>1, RefType
<1>3. CASE Goto(c, "write") /\ UNCHANGED <<j, varOut>>
  <2>1. pc' \in [Clients -> Lines] /\ \A d \in Clients \ {c} : pc'[d] = pc[d]
    BY <1>3 DEF Goto, Typed, TypeOK, Lines
  <2>2. j[c] <= Len(refs[c])
    BY <1>1 DEF AtReference
  <2> QED BY <1>1, <1>3, <2>1, <2>2 DEF Typed, TypeOK, Lines
<1>4. CASE /\ j' = [j EXCEPT ![c] = @ + 1]
           /\ varOut' = [varOut EXCEPT ![c] =
                 [x \in DOMAIN @ \cup {name} |->
                    IF x = name THEN VariantToJson(Entry(@, name)) ELSE @[x]]]
           /\ pc' = pc
  <2> DEFINE old == varOut[c]
             new == [x \in DOMAIN old \cup {name} |->
                       IF x = name THEN VariantToJson(Entry(old, name)) ELSE old[x]]
  <2>1. PICK S \in SUBSET Names : old \in [S -> {"null", "value"}]
    BY DEF Typed, Outs
  <2>2. new \in [S \cup {name} -> {"null", "value"}]
    BY <2>1 DEF VariantToJson, Entry
  <2>3. new \in Outs
    <3>1. S \cup {name} \in SUBSET Names
      BY <1>2
    <3> QED BY <2>2, <3>1, Zenon DEF Outs
  <2>4. varOut' = [varOut EXCEPT ![c] = new]
    BY <1>4
  <2>5. varOut' \in [Clients -> Outs]
    BY <2>3, <2>4 DEF Typed
  <2>6. \A d \in Clients : \A x \in DOMAIN varOut'[d] :
           x \in Names /\ varOut'[d][x] \in {"null", "value"}
    BY <2>5 DEF Outs
  <2>7. \A d \in Clients : pc'[d] = "write" => pc[d] = "write" /\ d # c
    BY <1>1, <1>4 DEF AtReference
  <2> HIDE DEF new, old, name
  <2>8. /\ j' \in [Clients -> Nat]
        /\ \A d \in Clients : /\ j'[d] \in 1 .. Len(refs'[d]) + 1
                              /\ pc'[d] = "write" => j'[d] <= Len(refs'[d])
    BY <1>1, <1>4, <2>7, StepTyped
  <2> QED BY <1>1, <1>4, <2>5, <2>6, <2>8 DEF Typed, TypeOK
<1> QED BY <1>3, <1>4 DEF Read

LEMMA CreateVariantFacts ==
    ASSUME NEW m \in DOMAIN Wanted, NEW sent \in CreateVariant(Wanted[m].json)
    PROVE  /\ sent.type \in Types /\ sent.sound \in BOOLEAN
           /\ sent.sound => /\ Wanted[m].json # "other"
                            /\ sent.type = GetJsonType(Wanted[m].json)
<1>1. Wanted[m].json \in {"integer", "double", "boolean", "string", "other"}
  BY WantedFacts DEF Asked
<1>2. CASE Wanted[m].json = "other"
  <2>1. PICK type \in Types : sent = [type |-> type, sound |-> FALSE]
    BY <1>2 DEF CreateVariant
  <2> QED BY <2>1
<1>3. CASE Wanted[m].json # "other"
  <2>1. GetJsonType(Wanted[m].json) \in Types
    BY <1>1, <1>3 DEF GetJsonType, Types
  <2>2. PICK b \in BOOLEAN :
            sent = [type |-> GetJsonType(Wanted[m].json), sound |-> b]
    BY <1>3 DEF CreateVariant
  <2> QED BY <1>3, <2>1, <2>2
<1> QED BY <1>2, <1>3

\* A write arrives, which disturbs the others; or nothing changes.
LEMMA WriteCases ==
    ASSUME Typed, NEW c \in Clients, Write(c)
    PROVE  /\ UNCHANGED <<folder, running, refs, k, varOut, rounds>>
           /\ findIndex' = [findIndex EXCEPT ![c] = k[c]]
           /\ j' = [j EXCEPT ![c] = @ + 1]
           /\ pc' = [pc EXCEPT ![c] = "match"]
           /\ pc[c] = "write"
           /\ clean' \in [Clients -> BOOLEAN]
           /\ \E sent \in CreateVariant(Wanted[k[c]].json) :
                \/ /\ Accepts(Ref(c), sent.type)
                   /\ value' = [value EXCEPT ![Ref(c)] =
                         [type |-> sent.type, from |-> k[c], sound |-> sent.sound]]
                   /\ \A d \in Clients : clean'[d] => clean[d] /\ d = c /\ sent.sound
                \/ /\ value' = value
                   /\ \A d \in Clients \ {c} : clean'[d] = clean[d]
                   /\ clean'[c] => clean[c] /\ sent.sound /\ ~Accepts(Ref(c), sent.type)
<1>1. /\ UNCHANGED <<folder, running, refs, k, varOut, rounds>>
      /\ findIndex' = [findIndex EXCEPT ![c] = k[c]]
      /\ j' = [j EXCEPT ![c] = @ + 1] /\ pc' = [pc EXCEPT ![c] = "match"]
      /\ pc[c] = "write"
  BY DEF Write, Goto
<1>2. PICK sent \in CreateVariant(Wanted[k[c]].json) :
            IF Accepts(Ref(c), sent.type)
              THEN \/ /\ value' = [value EXCEPT ![Ref(c)] =
                            [type |-> sent.type, from |-> k[c], sound |-> sent.sound]]
                      /\ DisturbOthers(c, sent.sound)
                   \/ /\ Faulty \/ ~sent.sound
                      /\ value' = value
                      /\ clean' = [clean EXCEPT ![c] = FALSE]
              ELSE value' = value /\ clean' = [clean EXCEPT ![c] = @ /\ sent.sound]
  BY DEF Write
<1>3. clean \in [Clients -> BOOLEAN]
  BY DEF Typed, TypeOK
<1>4. CASE /\ Accepts(Ref(c), sent.type)
           /\ value' = [value EXCEPT ![Ref(c)] =
                 [type |-> sent.type, from |-> k[c], sound |-> sent.sound]]
           /\ DisturbOthers(c, sent.sound)
  <2>1. clean' = [d \in Clients |-> IF d = c THEN clean[d] /\ sent.sound ELSE FALSE]
    BY <1>4 DEF DisturbOthers
  <2>2. clean' \in [Clients -> BOOLEAN]
        /\ \A d \in Clients : clean'[d] => clean[d] /\ d = c /\ sent.sound
    BY <2>1
  <2> QED BY <1>1, <1>4, <2>2
<1>5. CASE value' = value /\ clean' = [clean EXCEPT ![c] = FALSE]
  <2>1. clean' \in [Clients -> BOOLEAN] /\ ~clean'[c]
        /\ \A d \in Clients \ {c} : clean'[d] = clean[d]
    BY <1>3, <1>5
  <2> QED BY <1>1, <1>5, <2>1
<1>6. CASE /\ ~Accepts(Ref(c), sent.type) /\ value' = value
           /\ clean' = [clean EXCEPT ![c] = @ /\ sent.sound]
  <2>1. clean' = [clean EXCEPT ![c] = clean[c] /\ sent.sound]
    BY <1>6
  <2>2. clean' \in [Clients -> BOOLEAN] /\ (clean'[c] => clean[c] /\ sent.sound)
        /\ \A d \in Clients \ {c} : clean'[d] = clean[d]
    BY <1>3, <2>1
  <2> QED BY <1>1, <1>6, <2>2
<1> QED BY <1>2, <1>4, <1>5, <1>6

LEMMA WriteTyped ==
    ASSUME Typed, NEW c \in Clients, AtItsVariable(c), Write(c) PROVE Typed'
<1>1. k[c] \in DOMAIN Wanted /\ k[c] \in 0 .. Len(Wanted) /\ pc[c] = "write"
  BY VariableAssumption, WriteCases, SMTT(30) DEF AtItsVariable, Typed, TypeOK
<1>2. PICK sent \in CreateVariant(Wanted[k[c]].json) :
         value' = value \/ value' = [value EXCEPT ![Ref(c)] =
                         [type |-> sent.type, from |-> k[c], sound |-> sent.sound]]
  BY WriteCases
<1>3. value' \in [Nodes -> Values]
  <2>1. [type |-> sent.type, from |-> k[c], sound |-> sent.sound] \in Values
    BY <1>1, CreateVariantFacts DEF Values
  <2>2. value \in [Nodes -> Values]
    BY DEF Typed, TypeOK
  <2> QED BY <1>2, <2>1, <2>2
<1>4. pc' \in [Clients -> Lines]
      /\ \A d \in Clients : pc'[d] = "write" => pc[d] = "write" /\ d # c
  <2>1. pc' = [pc EXCEPT ![c] = "match"] /\ pc \in [Clients -> Lines]
    BY WriteCases, ControlTypes
  <2> QED BY <2>1 DEF Lines
<1>5. findIndex' \in [Clients -> 0 .. Len(Wanted)]
  <2>1. findIndex' = [findIndex EXCEPT ![c] = k[c]]
    BY WriteCases
  <2>2. findIndex \in [Clients -> 0 .. Len(Wanted)]
    BY ControlTypes
  <2> QED BY <1>1, <2>1, <2>2
<1>6. /\ j' \in [Clients -> Nat]
      /\ \A d \in Clients : /\ j'[d] \in 1 .. Len(refs'[d]) + 1
                            /\ pc'[d] = "write" => j'[d] <= Len(refs'[d])
  BY <1>1, <1>4, WriteCases, StepTyped
<1>7. UNCHANGED <<folder, running, refs, k, varOut, rounds>>
      /\ clean' \in [Clients -> BOOLEAN]
  BY WriteCases
<1> QED BY <1>3, <1>4, <1>5, <1>6, <1>7 DEF Typed, TypeOK, Lines

\* The two ends of the inner loop.
Over(c) == Found(c) \/ CreateVariable(c)

LEMMA OverFacts ==
    ASSUME NEW c \in Clients, Over(c)
    PROVE  /\ ReferencesOver(c)
           /\ k' = [k EXCEPT ![c] = @ + 1]
           /\ j' = [j EXCEPT ![c] = 1]
           /\ findIndex' = [findIndex EXCEPT ![c] = 0]
           /\ UNCHANGED <<value, pc, running, refs, varOut, rounds, clean>>
           /\ folder' = folder \/ folder' = Append(folder, NewNode)
BY DEF Over, Found, CreateVariable, NextVariable, Requested

LEMMA OverTyped == ASSUME Typed, NEW c \in Clients, Over(c) PROVE Typed'
<1>1. folder' \in Seq(Nodes)
  <2>1. NewNode \in Nodes
    BY VariableAssumption
  <2>2. folder \in Seq(Nodes)
    BY ControlTypes
  <2>3. Append(folder, NewNode) \in Seq(Nodes)
    BY <2>1, <2>2
  <2> QED BY <2>2, <2>3, OverFacts
<1>2. Len(Wanted) \in Nat /\ \A d \in Clients : Len(refs[d]) \in Nat
  BY WantedFacts, ControlTypes
<1>3. k' \in [Clients -> 1 .. Len(Wanted) + 1]
  BY <1>2, OverFacts, ControlTypes DEF ReferencesOver
<1>4. j' \in [Clients -> Nat] /\ findIndex' \in [Clients -> 0 .. Len(Wanted)]
  <2>1. j' = [j EXCEPT ![c] = 1] /\ findIndex' = [findIndex EXCEPT ![c] = 0]
    BY OverFacts
  <2>2. j \in [Clients -> Nat] /\ findIndex \in [Clients -> 0 .. Len(Wanted)]
    BY ControlTypes
  <2>3. 1 \in Nat /\ 0 \in 0 .. Len(Wanted)
    BY <1>2
  <2> QED BY <2>1, <2>2, <2>3
<1>5. \A d \in Clients : /\ j'[d] \in 1 .. Len(refs[d]) + 1
                         /\ pc[d] = "write" => j'[d] <= Len(refs[d])
  <2>1. \A d \in Clients : /\ j[d] \in 1 .. Len(refs[d]) + 1
                           /\ pc[d] = "write" => j[d] <= Len(refs[d])
    BY DEF Typed, TypeOK
  <2>2. pc[c] = "match" /\ j'[c] = 1 /\ \A d \in Clients \ {c} : j'[d] = j[d]
    BY OverFacts, ControlTypes DEF ReferencesOver
  <2> QED BY <1>2, <2>1, <2>2
<1>6. UNCHANGED <<value, pc, running, refs, varOut, rounds, clean>>
  BY OverFacts
<1> QED BY <1>1, <1>3, <1>4, <1>5, <1>6 DEF Typed, TypeOK

LEMMA WorldTyped ==
    ASSUME Typed,
           \/ \E c \in Clients : Sigint(c)
           \/ \E n \in Nodes : OtherWrites(n)
           \/ UNCHANGED vars
    PROVE  Typed'
<1>1. ASSUME NEW c \in Clients, Sigint(c) PROVE Typed'
  BY <1>1 DEF Sigint, Typed, TypeOK
<1>2. ASSUME NEW n \in Nodes, OtherWrites(n) PROVE Typed'
  <2>1. Foreign \in Values
    BY VariableAssumption DEF Foreign, Values, Types
  <2> QED BY <1>2, <2>1 DEF OtherWrites, client, Typed, TypeOK
<1>3. CASE UNCHANGED vars
  BY <1>3 DEF vars, client, Typed, TypeOK
<1> QED BY <1>1, <1>2, <1>3

LEMMA StepKeepsTypes == ASSUME Typed, NEW c \in Clients, AtItsVariable(c), Step(c)
                        PROVE  Typed'
BY QuietTyped, BrowseTyped, SkipTyped, ReadTyped, WriteTyped, OverTyped
   DEF Step, Quiet, Over

-----------------------------------------------------------------------------
(* What the loops have done for their variables.                           *)

LEMMA EntryFacts == \A n, m : m \in Entries(n) => m \in 1 .. Len(Wanted)
BY WantedFacts DEF Entries

\* A step of another client leaves a client's loops alone, or ends the peace
\* of its round.
LEMMA OthersKeep ==
    ASSUME NEW d \in Clients, Loops(d), pc'[d] = pc[d], refs'[d] = refs[d],
           k'[d] = k[d], j'[d] = j[d], findIndex'[d] = findIndex[d],
           clean'[d] => clean[d] /\ value' = value
    PROVE  Loops(d)'
<1>1. AtItsVariable(d)'
  BY DEF Loops, AtItsVariable, Ref
<1>2. ASSUME clean'[d] PROVE CleanRound(d)'
  <2>1. clean[d] /\ value' = value /\ CleanRound(d)
    BY <1>2 DEF Loops
  <2> QED BY <2>1 DEF CleanRound, Ref, Served, ServedAt, Passed, FoundSoFar, IsFor
<1> QED BY <1>1, <1>2 DEF Loops

LEMMA QuietLoops ==
    ASSUME Typed, NEW c \in Clients, Loops(c), Quiet(c) PROVE Loops(c)'
<1>1. UNCHANGED <<value, refs, k, j, findIndex>>
      /\ \E line \in Lines \ {"write", "match"} : pc'[c] = line
  BY QuietFacts, ControlTypes
<1>2. AtItsVariable(c)'
  BY <1>1 DEF AtItsVariable
<1>3. ASSUME clean'[c], pc'[c] \in {"print", "sleep"}
      PROVE  clean[c] /\ (\/ pc[c] = "match" /\ k[c] > Len(Wanted)
                          \/ pc[c] = "print")
  BY <1>3, ControlTypes
     DEF Quiet, Begin, BadConfig, Leave, ConnectFails, Connect, WriteCrashes,
         MatchOver, PrintOutput, Wake, Goto
<1>4. ASSUME clean'[c] PROVE CleanRound(c)'
  <2>1. pc'[c] \in {"print", "sleep"} => k[c] > Len(Wanted) /\ Served(c)
    BY <1>3, <1>4 DEF Loops, CleanRound
  <2>2. Served(c)' <=> Served(c)
    BY <1>1 DEF Served, ServedAt, Passed
  <2> QED BY <1>1, <2>1, <2>2 DEF CleanRound
<1> QED BY <1>2, <1>4 DEF Loops

LEMMA BrowseLoops ==
    ASSUME Typed, NEW c \in Clients, Loops(c), Browse(c) PROVE Loops(c)'
<1>1. k'[c] = 1 /\ j'[c] = 1 /\ findIndex'[c] = 0 /\ value' = value
      /\ pc'[c] \in {"match", "print"} /\ (pc'[c] = "print" => ~clean'[c])
  BY ControlTypes DEF Browse, Goto
<1>2. refs'[c] \in Seq(Nodes)
  BY BrowseTyped DEF Typed, TypeOK
<1>3. \A i \in DOMAIN refs'[c] : ~(i < 1)
  BY <1>2
<1>4. Served(c)'
  BY <1>1, <1>3, EntryFacts, WantedFacts DEF Served, ServedAt, Passed, Entries
<1>5. FoundSoFar(c)'
  BY <1>1, <1>3 DEF FoundSoFar
<1> QED BY <1>1, <1>4, <1>5 DEF Loops, AtItsVariable, CleanRound

\* The inner loop passes a reference that the entry is not for.
LEMMA PassedOver ==
    ASSUME Typed, NEW c \in Clients, AtReference(c) \/ pc[c] = "write",
           UNCHANGED <<value, refs, k, findIndex>>, j' = [j EXCEPT ![c] = @ + 1]
    PROVE  /\ Served(c) /\ (Ref(c) \in IsVariable => k[c] \notin Entries(Ref(c)))
                 => Served(c)'
           /\ FoundSoFar(c) /\ ~IsFor(c, j[c], k[c]) => FoundSoFar(c)'
<1>1. j'[c] = j[c] + 1 /\ j[c] \in 1 .. Len(refs[c]) /\ k[c] \in 1 .. Len(Wanted) + 1
  BY ControlTypes, RefType
<1>2. refs[c] \in Seq(Nodes) /\ DOMAIN refs[c] = 1 .. Len(refs[c]) /\ Len(refs[c]) \in Nat
  BY RefType
<1>3. \A i \in DOMAIN refs[c] : i < j'[c] <=> i < j[c] \/ i = j[c]
  BY <1>1, <1>2
<1>4. ASSUME Served(c), Ref(c) \in IsVariable => k[c] \notin Entries(Ref(c)),
             NEW i \in DOMAIN refs[c]
      PROVE  ServedAt(c, i)'
  <2>1. ServedAt(c, i)
    BY <1>4 DEF Served
  <2>2. CASE i # j[c]
    BY <1>3, <2>1, <2>2 DEF ServedAt, Passed
  <2>3. CASE i = j[c]
    BY <1>3, <1>4, <2>1, <2>3 DEF ServedAt, Passed, Ref
  <2> QED BY <2>2, <2>3
<1>5. ASSUME FoundSoFar(c), ~IsFor(c, j[c], k[c]) PROVE FoundSoFar(c)'
  BY <1>3, <1>5 DEF FoundSoFar, IsFor
<1> QED BY <1>4, <1>5 DEF Served

LEMMA SkipLoops ==
    ASSUME Typed, NEW c \in Clients, Loops(c), SkipNoVariable(c) \/ ReadFails(c)
    PROVE  Loops(c)'
<1>1. /\ AtReference(c) /\ pc[c] = "match" /\ pc' = pc
      /\ UNCHANGED <<value, refs, k, findIndex>> /\ j' = [j EXCEPT ![c] = @ + 1]
      /\ clean'[c] => clean[c] /\ Ref(c) \notin IsVariable
  BY ControlTypes DEF SkipNoVariable, ReadFails, AtReference
<1>2. Ref(c) \notin IsVariable => ~IsFor(c, j[c], k[c])
  BY DEF IsFor, Ref
<1>3. clean'[c] => Served(c)' /\ FoundSoFar(c)'
  BY <1>1, <1>2, PassedOver DEF Loops, CleanRound
<1> QED BY <1>1, <1>3 DEF Loops, AtItsVariable, CleanRound

LEMMA ReadLoops ==
    ASSUME Typed, NEW c \in Clients, Loops(c), Read(c) PROVE Loops(c)'
<1> DEFINE name == NameOf[Ref(c)]
<1>1. /\ AtReference(c) /\ pc[c] = "match" /\ k[c] <= Len(Wanted) /\ j[c] <= Len(refs[c])
      /\ UNCHANGED <<value, refs, k, findIndex>> /\ Ref(c) \in IsVariable
  BY DEF Read, AtReference
<1>2. PICK same \in SameName(name, Wanted[k[c]].name) :
         /\ clean' = [clean EXCEPT ![c] = @ /\ (same <=> name = Wanted[k[c]].name)]
         /\ same => Goto(c, "write") /\ UNCHANGED j
         /\ ~same => j' = [j EXCEPT ![c] = @ + 1] /\ pc' = pc
  BY DEF Read
<1>3. clean'[c] => clean[c] /\ (same <=> name = Wanted[k[c]].name)
  <2>1. clean' = [clean EXCEPT ![c] = clean[c] /\ (same <=> name = Wanted[k[c]].name)]
    BY <1>2
  <2> QED BY <2>1, ControlTypes
<1>4. CASE same
  <2>1. pc'[c] = "write" /\ j' = j
    BY <1>2, <1>4, ControlTypes DEF Goto
  <2>2. Alike(name, Wanted[k[c]].name)
    BY <1>4 DEF SameName
  <2>3. AtItsVariable(c)'
    BY <1>1, <2>1, <2>2 DEF AtItsVariable, Ref
  <2>4. ASSUME clean'[c] PROVE CleanRound(c)'
    <3>1. Served(c) /\ FoundSoFar(c) /\ name = Wanted[k[c]].name
      BY <1>1, <1>3, <1>4, <2>4 DEF Loops, CleanRound
    <3> QED BY <1>1, <2>1, <3>1 DEF CleanRound, Served, ServedAt, Passed, FoundSoFar,
                IsFor, Ref
  <2> QED BY <2>3, <2>4 DEF Loops
<1>5. CASE ~same
  <2>1. pc'[c] = "match" /\ j' = [j EXCEPT ![c] = @ + 1]
    BY <1>1, <1>2, <1>5
  <2>2. ASSUME clean'[c] PROVE Served(c)' /\ FoundSoFar(c)'
    <3>1. Served(c) /\ FoundSoFar(c) /\ name # Wanted[k[c]].name
      BY <1>1, <1>3, <1>5, <2>2 DEF Loops, CleanRound
    <3>2. k[c] \notin Entries(Ref(c)) /\ ~IsFor(c, j[c], k[c])
      BY <3>1 DEF Entries, IsFor, Ref
    <3> QED BY <1>1, <2>1, <3>1, <3>2, PassedOver
  <2> QED BY <2>1, <2>2 DEF Loops, AtItsVariable, CleanRound
<1> QED BY <1>4, <1>5

LEMMA WriteLoops ==
    ASSUME Typed, NEW c \in Clients, Loops(c), Write(c) PROVE Loops(c)'
<1> PICK n \in Nodes : n = Ref(c)
  BY RefType, WriteCases
<1>1. /\ UNCHANGED <<refs, k>> /\ findIndex'[c] = k[c] /\ j' = [j EXCEPT ![c] = @ + 1]
      /\ j'[c] = j[c] + 1 /\ pc'[c] = "match" /\ pc[c] = "write"
  BY WriteCases, ControlTypes
<1>2. /\ n \in IsVariable /\ k[c] \in DOMAIN Wanted /\ k[c] \in 1 .. Len(Wanted)
      /\ j[c] \in 1 .. Len(refs[c]) /\ refs[c] \in Seq(Nodes)
  BY <1>1, RefType, ControlTypes, WantedFacts DEF Loops, AtItsVariable
<1>3. DOMAIN refs[c] = 1 .. Len(refs[c]) /\ Len(refs[c]) \in Nat
  BY <1>2
<1>4. ASSUME clean'[c] PROVE CleanRound(c)'
  <2>1. PICK sent \in CreateVariant(Wanted[k[c]].json) :
           /\ clean[c] /\ sent.sound
           /\ \/ /\ Accepts(n, sent.type)
                 /\ value' = [value EXCEPT ![n] =
                      [type |-> sent.type, from |-> k[c], sound |-> sent.sound]]
              \/ value' = value /\ ~Accepts(n, sent.type)
    BY <1>4, WriteCases
  <2>2. Served(c) /\ FoundSoFar(c) /\ NameOf[n] = Wanted[k[c]].name
    BY <1>1, <2>1 DEF Loops, CleanRound
  <2>3. Wanted[k[c]].json # "other" /\ sent.type = GetJsonType(Wanted[k[c]].json)
    BY <1>2, <2>1, CreateVariantFacts
  <2>4. k[c] \in Entries(n) <=> Accepts(n, sent.type)
    BY <1>2, <2>2, <2>3 DEF Entries
  <2>5. Served(c)'
    <3>1. CASE value' = value /\ ~Accepts(n, sent.type)
      <4>1. ASSUME NEW i \in DOMAIN refs[c] PROVE ServedAt(c, i)'
        <5>1. ServedAt(c, i)
          BY <2>2 DEF Served
        <5>2. CASE i # j[c]
          BY <1>1, <1>2, <1>3, <3>1, <5>1, <5>2 DEF ServedAt, Passed
        <5>3. CASE i = j[c]
          BY <1>1, <1>2, <1>3, <2>4, <3>1, <5>1, <5>3 DEF ServedAt, Passed, Ref
        <5> QED BY <5>2, <5>3
      <4> QED BY <1>1, <4>1 DEF Served
    <3>2. CASE /\ Accepts(n, sent.type)
               /\ value' = [value EXCEPT ![n] =
                    [type |-> sent.type, from |-> k[c], sound |-> sent.sound]]
      <4>1. value'[n].from = k[c] /\ \A m \in Nodes \ {n} : value'[m] = value[m]
        BY <3>2, ControlTypes
      <4>2. ASSUME NEW i \in DOMAIN refs[c] PROVE ServedAt(c, i)'
        <5>1. ServedAt(c, i) /\ refs[c][i] \in Nodes
          BY <1>2, <1>3, <2>2 DEF Served
        <5>2. CASE refs[c][i] = n
          <6>1. \A m \in Entries(n) : Passed(c, i, m)' => m <= k[c]
            BY <1>1, <1>2, EntryFacts DEF Passed
          <6> QED BY <1>1, <2>4, <3>2, <4>1, <5>2, <6>1 DEF ServedAt
        <5>3. CASE refs[c][i] # n
          <6>1. i # j[c]
            BY <5>3 DEF Ref
          <6>2. i < j'[c] <=> i < j[c]
            BY <1>1, <1>2, <1>3, <6>1
          <6> QED BY <1>1, <4>1, <5>1, <5>3, <6>2 DEF ServedAt, Passed
        <5> QED BY <5>2, <5>3
      <4> QED BY <1>1, <4>2 DEF Served
    <3> QED BY <2>1, <3>1, <3>2
  <2>6. FoundSoFar(c)'
    <3>1. j[c] \in DOMAIN refs[c] /\ j[c] < j'[c] /\ IsFor(c, j[c], k[c])
      BY <1>1, <1>2, <1>3, <2>2 DEF IsFor, Ref
    <3> QED BY <1>1, <1>2, <3>1 DEF FoundSoFar, IsFor
  <2> QED BY <1>1, <2>5, <2>6 DEF CleanRound
<1> QED BY <1>1, <1>4 DEF Loops, AtItsVariable

LEMMA OverLoops ==
    ASSUME Typed, NEW c \in Clients, Loops(c), Over(c) PROVE Loops(c)'
<1>1. /\ ReferencesOver(c) /\ pc[c] = "match" /\ j[c] > Len(refs[c])
      /\ k'[c] = k[c] + 1 /\ j'[c] = 1 /\ findIndex'[c] = 0
      /\ UNCHANGED <<value, pc, refs, clean>>
  BY OverFacts, ControlTypes DEF ReferencesOver
<1>2. /\ k[c] \in Nat /\ j[c] \in Nat /\ refs[c] \in Seq(Nodes)
      /\ DOMAIN refs[c] = 1 .. Len(refs[c]) /\ Len(refs[c]) \in Nat
  BY ControlTypes, WantedFacts DEF Typed, TypeOK
<1>3. ASSUME clean'[c] PROVE CleanRound(c)'
  <2>1. Served(c)
    BY <1>1, <1>3 DEF Loops, CleanRound
  <2>2. ASSUME NEW i \in DOMAIN refs[c], NEW m \in 1 .. Len(Wanted)
        PROVE  Passed(c, i, m)' => Passed(c, i, m)
    BY <1>1, <1>2, WantedFacts DEF Passed
  <2>3. Served(c)'
    BY <1>1, <2>1, <2>2, EntryFacts DEF Served, ServedAt
  <2>4. \A i \in DOMAIN refs[c] : ~(i < 1)
    BY <1>2
  <2>5. FoundSoFar(c)'
    BY <1>1, <2>4 DEF FoundSoFar
  <2> QED BY <1>1, <2>3, <2>5 DEF CleanRound
<1> QED BY <1>1, <1>3 DEF Loops, AtItsVariable

-----------------------------------------------------------------------------
(* The invariant.                                                          *)

\* Who does not move keeps his place in the loops; who disturbs the others
\* ends the peace of their rounds.
LEMMA OthersFrame ==
    ASSUME Typed, NEW c \in Clients, Step(c), NEW d \in Clients \ {c}
    PROVE  /\ pc'[d] = pc[d] /\ refs'[d] = refs[d] /\ k'[d] = k[d] /\ j'[d] = j[d]
           /\ findIndex'[d] = findIndex[d]
           /\ clean'[d] => clean[d] /\ value' = value
<1>1. CASE Quiet(c)
  BY <1>1, QuietFacts, ControlTypes
<1>2. CASE Browse(c)
  <2>1. refs' = refs \/ \E x : refs' = [refs EXCEPT ![c] = x]
    BY <1>2 DEF Browse
  <2>2. refs'[d] = refs[d]
    BY <2>1 DEF Typed, TypeOK
  <2> QED BY <1>2, <2>2, ControlTypes DEF Browse, Goto
<1>3. CASE SkipNoVariable(c) \/ ReadFails(c)
  BY <1>3, ControlTypes DEF SkipNoVariable, ReadFails
<1>4. CASE Read(c)
  BY <1>4, ControlTypes DEF Read, Goto
<1>5. CASE Write(c)
  BY <1>5, WriteCases, ControlTypes
<1>6. CASE Over(c)
  BY <1>6, OverFacts, ControlTypes
<1> QED BY <1>1, <1>2, <1>3, <1>4, <1>5, <1>6 DEF Step, Quiet, Over

LEMMA StepLoops ==
    ASSUME Typed, \A d \in Clients : Loops(d), NEW c \in Clients, Step(c)
    PROVE  \A d \in Clients : Loops(d)'
<1>1. Loops(c)'
  BY QuietLoops, BrowseLoops, SkipLoops, ReadLoops, WriteLoops, OverLoops
     DEF Step, Quiet, Over
<1>2. \A d \in Clients \ {c} : Loops(d)'
  BY OthersFrame, OthersKeep
<1> QED BY <1>1, <1>2

\* What a client sends is for the variable it stands at.
LEMMA StepReaches ==
    ASSUME Typed, ReachesItsVariable, NEW c \in Clients, Loops(c), Step(c)
    PROVE  ReachesItsVariable'
<1>1. CASE value' = value
  BY <1>1 DEF ReachesItsVariable
<1>2. CASE Write(c) /\ value' # value
  <2> PICK n \in Nodes : n = Ref(c)
    BY <1>2, RefType, WriteCases
  <2>1. PICK sent \in CreateVariant(Wanted[k[c]].json) :
           /\ Accepts(n, sent.type)
           /\ value' = [value EXCEPT ![n] =
                [type |-> sent.type, from |-> k[c], sound |-> sent.sound]]
    BY <1>2, WriteCases
  <2>2. /\ n \in IsVariable /\ k[c] \in DOMAIN Wanted
        /\ Alike(NameOf[n], Wanted[k[c]].name)
    BY <1>2, WriteCases, ControlTypes, WantedFacts DEF Loops, AtItsVariable
  <2>3. sent.sound => sent.type = GetJsonType(Wanted[k[c]].json)
    BY <2>2, CreateVariantFacts
  <2>4. /\ value'[n] = [type |-> sent.type, from |-> k[c], sound |-> sent.sound]
        /\ \A m \in Nodes \ {n} : value'[m] = value[m]
    BY <2>1, ControlTypes
  <2> QED BY <2>1, <2>2, <2>3, <2>4 DEF ReachesItsVariable
<1>3. value' = value \/ Write(c)
  BY QuietFacts, OverFacts
     DEF Step, Quiet, Over, Browse, SkipNoVariable, ReadFails, Read
<1> QED BY <1>1, <1>2, <1>3

LEMMA InitInv == Init => IInv
<1> SUFFICES ASSUME Init PROVE IInv
  OBVIOUS
<1>1. [name \in {} |-> "null"] \in [{} -> {"null", "value"}]
  OBVIOUS
<1>2. varOut \in [Clients -> Outs]
  BY <1>1 DEF Init, Outs
<1>3. \A c \in Clients : DOMAIN varOut[c] = {}
  BY DEF Init
<1>4. Foreign \in Values /\ Foreign.from = 0
  BY WantedFacts DEF Foreign, Values, Types
<1>5. value \in [Nodes -> Values]
  BY <1>4 DEF Init
<1>6. folder \in Seq(Nodes) /\ refs \in [Clients -> Seq(Nodes)]
      /\ \A c \in Clients : refs[c] = <<>>
  BY VariableAssumption DEF Init
<1>7. \A c \in Clients : j[c] = 1 /\ pc[c] = "start"
  BY DEF Init
<1>8. k \in [Clients -> 1 .. Len(Wanted) + 1] /\ findIndex \in [Clients -> 0 .. Len(Wanted)]
      /\ j \in [Clients -> Nat]
  BY WantedFacts DEF Init
<1>9. pc \in [Clients -> Lines] /\ running \in [Clients -> BOOLEAN]
      /\ rounds \in [Clients -> Nat] /\ clean \in [Clients -> BOOLEAN]
  BY DEF Init, Lines
<1>10. \A c \in Clients : j[c] \in 1 .. Len(refs[c]) + 1
  <2> SUFFICES ASSUME NEW c \in Clients PROVE j[c] \in 1 .. Len(refs[c]) + 1
    OBVIOUS
  <2>1. j[c] = 1 /\ refs[c] = <<>>
    BY <1>6, <1>7
  <2>2. Len(refs[c]) = 0
    BY <2>1
  <2> QED BY <2>1, <2>2
<1>11. Typed
  BY <1>2, <1>3, <1>5, <1>6, <1>7, <1>8, <1>9, <1>10 DEF Typed, TypeOK, Lines
<1>12. ReachesItsVariable
  BY <1>4 DEF Init, ReachesItsVariable
<1>13. \A c \in Clients : Loops(c)
  BY <1>7 DEF Loops, AtItsVariable, CleanRound
<1> QED BY <1>11, <1>12, <1>13 DEF IInv

LEMMA NextKeeps == IInv /\ [Next]_vars => IInv'
<1> SUFFICES ASSUME IInv, [Next]_vars PROVE IInv'
  OBVIOUS
<1>1. ASSUME NEW c \in Clients, Step(c) PROVE IInv'
  BY <1>1, StepKeepsTypes, StepLoops, StepReaches DEF IInv, Loops
<1>2. ASSUME NEW c \in Clients, Sigint(c) PROVE IInv'
  <2>1. UNCHANGED <<value, pc, refs, k, j, findIndex, clean>>
    BY <1>2 DEF Sigint
  <2>2. \A d \in Clients : Loops(d)'
    BY <2>1, OthersKeep DEF IInv
  <2> QED BY <1>2, <2>1, <2>2, WorldTyped DEF IInv, ReachesItsVariable
<1>3. ASSUME NEW n \in Nodes, OtherWrites(n) PROVE IInv'
  <2>1. UNCHANGED <<pc, refs, k, j, findIndex>> /\ \A d \in Clients : ~clean'[d]
    BY <1>3 DEF OtherWrites, client
  <2>2. \A d \in Clients : Loops(d)'
    BY <2>1, OthersKeep DEF IInv
  <2>3. value'[n] = Foreign /\ \A m \in Nodes \ {n} : value'[m] = value[m]
    BY <1>3, ControlTypes DEF OtherWrites, IInv
  <2>4. ReachesItsVariable'
    BY <2>3 DEF IInv, ReachesItsVariable, Foreign
  <2> QED BY <1>3, <2>2, <2>4, WorldTyped DEF IInv
<1>4. CASE UNCHANGED vars
  <2>1. UNCHANGED <<value, pc, refs, k, j, findIndex, clean>>
    BY <1>4 DEF vars, client
  <2>2. \A d \in Clients : Loops(d)'
    BY <2>1, OthersKeep DEF IInv
  <2> QED BY <1>4, <2>1, <2>2, WorldTyped DEF IInv, ReachesItsVariable
<1> QED BY <1>1, <1>2, <1>3, <1>4 DEF Next

LEMMA Inductive == Spec => []IInv
BY InitInv, NextKeeps, PTL DEF Spec

-----------------------------------------------------------------------------
(* The theorems.                                                           *)

\* What is sent for an entry reaches only a variable of a like name that takes
\* its type, and after a clean round each variable of the answer holds the
\* last of its entries, whatever the clients interleave and whatever fails.
THEOREM SentAsConfiguredAlways == Spec => []SentAsConfigured
<1>1. IInv => LastEntryWins
  <2> SUFFICES ASSUME IInv, NEW c \in Clients, pc[c] \in {"print", "sleep"}, clean[c],
                      NEW i \in DOMAIN refs[c], refs[c][i] \in IsVariable,
                      Entries(refs[c][i]) # {}
               PROVE  /\ value[refs[c][i]].from \in Entries(refs[c][i])
                      /\ \A m \in Entries(refs[c][i]) : m <= value[refs[c][i]].from
    BY DEF LastEntryWins
  <2>1. ServedAt(c, i) /\ k[c] > Len(Wanted)
    BY DEF IInv, Loops, CleanRound, Served
  <2>2. \A m \in Entries(refs[c][i]) : Passed(c, i, m)
    BY <2>1, EntryFacts, WantedFacts, ControlTypes DEF IInv, Passed
  <2> QED BY <2>1, <2>2 DEF ServedAt
<1>2. IInv => SentAsConfigured
  BY <1>1 DEF IInv, Typed, SentAsConfigured
<1> QED BY <1>2, Inductive, PTL

\* In a clean round a new node is asked for exactly for the entries whose name
\* no variable of the answer has.
THEOREM AsksExactly == Spec => []AsksForTheMissing
<1>1. IInv => AsksForTheMissing
  <2> SUFFICES ASSUME IInv, NEW c \in Clients, ReferencesOver(c), clean[c]
               PROVE  NotFound(c) <=>
                        ~\E i \in DOMAIN refs[c] :
                            /\ refs[c][i] \in IsVariable
                            /\ NameOf[refs[c][i]] = Wanted[k[c]].name
    BY DEF AsksForTheMissing
  <2>1. FoundSoFar(c) /\ k[c] <= Len(Wanted) /\ j[c] > Len(refs[c])
    BY DEF IInv, Loops, CleanRound, ReferencesOver
  <2>2. /\ j[c] \in Nat /\ findIndex[c] \in 0 .. Len(Wanted) /\ Len(Wanted) \in Nat
        /\ DOMAIN refs[c] = 1 .. Len(refs[c]) /\ Len(refs[c]) \in Nat
    BY ControlTypes, WantedFacts DEF IInv, Typed, TypeOK
  <2>3. \A i \in DOMAIN refs[c] : i < j[c]
    BY <2>1, <2>2
  <2>4. findIndex[c] > 0 <=> \E i \in DOMAIN refs[c] : IsFor(c, i, k[c])
    BY <2>1, <2>3 DEF FoundSoFar
  <2> QED BY <2>2, <2>4 DEF NotFound, IsFor
<1> QED BY <1>1, Inductive, PTL
=============================================================================
