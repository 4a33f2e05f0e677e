--------------------------- MODULE MCVariableClient --------------------------
(***************************************************************************)
(* A folder with an object, two variables of one configured name, of which *)
(* one takes an integer only, and a variable whose name begins that name.  *)
(* Of the three entries of the file two have the same name and another is  *)
(* on no server. Either one client runs, whose calls fail anywhere, or two *)
(* interleave their rounds.                                                *)
(***************************************************************************)
EXTENDS VariableClient

CONSTANTS c1, c2, object, any, int, short, new,
          Level, Lev, Other, Missing, Name123

MCClients == {c1, c2}
MCNodes == {object, any, int, short, new}
MCFolder == <<object, any, short, int>>
MCShortFolder == <<any, int>>
MCNames == {Level, Lev, Other, Missing, Name123}
MCPrefixOf == {<<Lev, Level>>}
MCNameOf == [n \in MCNodes |-> CASE n \in {any, int} -> Level
                                 [] n = short -> Lev
                                 [] n = object -> Other
                                 [] n = new -> Name123]
MCIsVariable == MCNodes \ {object}
MCDataType == [n \in MCNodes |-> IF n = int THEN "int32" ELSE "any"]

MCWanted == <<[name |-> Level, json |-> "integer"],
              [name |-> Missing, json |-> "double"],
              [name |-> Level, json |-> "string"]>>

VARIABLE paired   \* do two clients run, on calls that succeed

P == INSTANCE VariableClient
       WITH Folder <- MCShortFolder, Faulty <- FALSE, MaxRounds <- 1

MCInit == paired \in BOOLEAN /\ IF paired THEN P!Init ELSE Init

MCStep(c) == IF paired THEN P!Step(c) ELSE c = c1 /\ Step(c)

MCNext == /\ \/ \E c \in Clients : MCStep(c)
             \/ paired /\ \E c \in Clients : P!Sigint(c)
             \/ ~paired /\ Sigint(c1)
             \/ ~paired /\ \E n \in Nodes : OtherWrites(n)
          /\ UNCHANGED paired

MCFairSpec == /\ MCInit /\ [][MCNext]_<<vars, paired>>
              /\ \A c \in Clients : WF_<<vars, paired>>(MCStep(c) /\ UNCHANGED paired)
=============================================================================
