---------------------------- MODULE BrowsingVars -----------------------------
(***************************************************************************)
(* The listing that the current client prints once it is connected:        *)
(* BrowsingVars and BrowsingVarsRecursion of src/new_client.hpp.           *)
(*                                                                         *)
(* The call stack is a sequence of frames, the objects folder's frame      *)
(* first. The address space of the server is a constant graph: what the    *)
(* server answers to one call may still be anything from nothing (the call *)
(* failed) through a prefix (the server limits the references of one       *)
(* answer, and the client never asks for the continuation) to all of it.   *)
(* A value is abstracted to its provenance: the node it was read from.     *)
(*                                                                         *)
(* A definition called "a slip" is a variant of the one that follows it,   *)
(* a mistake the properties must catch; nothing uses it.                   *)
(***************************************************************************)
EXTENDS Integers, Sequences

CONSTANTS
    Nodes,       \* the nodes of the server's address space
    Objects,     \* the objects folder
    Refs,        \* Refs[n]: the references of n in the order the server gives
    Ns,          \* Ns[n]: the namespace index of n's id
    IdType,      \* IdType[n]: "numeric", "string" or "other" (guid, opaque)
    Variables,   \* the nodes that have a value attribute
    Printable,   \* those whose type PrintVariant knows
    Uninit,      \* an uninitialised UA_Variant
    Blank,       \* an empty VALUE column
    Garbage      \* whatever an uninitialised UA_Variant prints

ASSUME AddressSpaceAssumption ==
    /\ Objects \in Nodes
    /\ Refs \in [Nodes -> Seq(Nodes)]
    /\ Ns \in [Nodes -> Nat]
    /\ IdType \in [Nodes -> {"numeric", "string", "other"}]
    /\ Variables \subseteq Nodes
    /\ Printable \subseteq Variables

ASSUME SentinelAssumption ==
    /\ {Uninit, Blank, Garbage} \cap Nodes = {}
    /\ Uninit # Blank /\ Uninit # Garbage /\ Blank # Garbage

VARIABLES
    stack,   \* the active calls, BrowsingVars first; <<>> once it returned
    out,     \* the rows printed so far
    whole    \* history: every browse answer so far was whole

vars == <<stack, out, whole>>

-----------------------------------------------------------------------------
(* Frames and rows.                                                        *)

\* The locals of a call on `node` at depth `n`: whether the browse request
\* was answered, referencesSize, the loop index j and the variant `value`;
\* and `below`, what the last call it made left in the memory of its variant.
Frame(node, n, value) == [node |-> node, n |-> n, sent |-> FALSE, size |-> 0,
                          j |-> 1, value |-> value, below |-> Uninit]

Frames == [node : Nodes, n : Nat, sent : BOOLEAN, size : Nat, j : Nat \ {0},
           value : Nodes \cup {Uninit}, below : Nodes \cup {Uninit}]

\* A printed row: its position, its hyphens, its node, whether the read
\* before it succeeded (history: the code ignores it), and what VALUE shows.
Rows == [at : Nat \ {0}, sub : Nat, depth : Nat, node : Nodes,
         read : BOOLEAN, shown : Nodes \cup {Blank, Garbage}]

Top == stack[Len(stack)]
Ref == Refs[Top.node][Top.j]

\* Only numeric and string ids are printed.
Named(ref) == IdType[ref] \in {"numeric", "string"}

\* BrowsingVars looks below the nodes of namespaces 2 and 3 only.
Expanded(ref) == Ns[ref] \in {2, 3}

\* A slip: namespace 1 passed over too.
SkippedServerToo(ref) == Ns[ref] \in {0, 1}

Skipped(ref) == Ns[ref] = 0

\* A slip: one level too many.
TooDeepByOne(n) == n > 2

TooDeep(n) == n > 1

\* s with its top frame replaced, and with its top loop one step further.
WithTop(s, frame) == [s EXCEPT ![Len(s)] = frame]
Advance(s) == WithTop(s, [s[Len(s)] EXCEPT !.j = @ + 1])

\* BrowsingVarsRecursion(client, node, n) called from the top of s: at a
\* depth it refuses it returns at once and the caller's loop goes on. Its
\* variant is never initialised: it holds what `left` says.
Call(s, node, n, left) ==
    IF TooDeep(n) THEN Advance(s) ELSE Append(s, Frame(node, n, left))

\* What the variant of the next call from a frame may hold: the calls from one
\* loop have their locals at one place, so it is the last call's variant if
\* nothing overwrote it since.
Left(frame) == {Uninit, frame.below}

\* The calls below the top one, the last of which keeps its variant in memory.
Callers(s) ==
    [SubSeq(s, 1, Len(s) - 1) EXCEPT ![Len(s) - 1].below = s[Len(s)].value]

\* A slip: the caller's loop index is not stepped.
PopInPlace(s) == IF Len(s) = 1 THEN <<>> ELSE Callers(s)

Pop(s) == IF Len(s) = 1 THEN <<>> ELSE Advance(Callers(s))

\* A slip: a variant that holds a value keeps it.
ReadOnceInto(frame, ref, good) ==
    IF good /\ frame.value = Uninit THEN ref ELSE frame.value

\* UA_Client_readValueAttribute leaves its output alone when it fails, and
\* the status it returns is not looked at.
ReadInto(frame, ref, good) == IF good THEN ref ELSE frame.value

ReadOutcomes(ref) == IF ref \in Variables THEN BOOLEAN ELSE {FALSE}

\* A slip: no test of the variant's type.
PrintUntyped(value) == {value}

\* What PrintVariant may print for a variant.
PrintVariant(value) ==
    CASE value = Uninit     -> {Blank, Garbage}
      [] value \in Printable -> {value}
      [] OTHER              -> {Blank}

Row(node, read, shown) ==
    [at |-> stack[1].j, sub |-> IF Len(stack) = 1 THEN 0 ELSE Top.j,
     depth |-> Top.n, node |-> node, read |-> read, shown |-> shown]

-----------------------------------------------------------------------------
(* The traversal.                                                          *)

Init == /\ stack = <<Frame(Objects, 0, Uninit)>>
        /\ out = <<>>
        /\ whole = TRUE

Active == Len(stack) > 0

\* A slip: off by one at the last reference.
LoopingShort == Active /\ Top.sent /\ Top.j < Top.size

Looping == Active /\ Top.sent /\ Top.j <= Top.size

\* UA_Client_Service_browse: how many references the answer holds.
Browse == /\ Active
          /\ ~Top.sent
          /\ \E size \in 0 .. Len(Refs[Top.node]) :
                /\ stack' = WithTop(stack, [Top EXCEPT !.sent = TRUE,
                                                       !.size = size])
                /\ whole' = (whole /\ size = Len(Refs[Top.node]))
          /\ out' = out

\* BrowsingVars prints a row without a value and may expand the node.
ListObject == /\ Looping
              /\ Top.n = 0
              /\ Named(Ref)
              /\ out' = Append(out, Row(Ref, FALSE, Blank))
              /\ IF Expanded(Ref)
                   THEN \E left \in Left(Top) : stack' = Call(stack, Ref, 1, left)
                   ELSE stack' = Advance(stack)
              /\ whole' = whole

\* A guid or opaque id in the objects folder: no branch of the loop takes it.
SkipUnnamed == /\ Looping
               /\ Top.n = 0
               /\ ~Named(Ref)
               /\ stack' = Advance(stack)
               /\ UNCHANGED <<out, whole>>

\* BrowsingVarsRecursion passes over namespace 0 without reading it.
SkipNamespace0 == /\ Looping
                  /\ Top.n > 0
                  /\ Skipped(Ref)
                  /\ stack' = Advance(stack)
                  /\ UNCHANGED <<out, whole>>

\* It reads every other reference, prints the named ones and recurses.
ReadReference ==
    /\ Looping
    /\ Top.n > 0
    /\ ~Skipped(Ref)
    /\ \E good \in ReadOutcomes(Ref) :
        LET value == ReadInto(Top, Ref, good)
            read  == WithTop(stack, [Top EXCEPT !.value = value])
        IN  IF Named(Ref)
              THEN /\ \E shown \in PrintVariant(value) :
                         out' = Append(out, Row(Ref, good, shown))
                   /\ \E left \in Left(Top) :
                         stack' = Call(read, Ref, Top.n + 1, left)
              ELSE /\ stack' = Advance(read)
                   /\ out' = out
    /\ whole' = whole

\* The loop is over: the call returns to its caller's loop.
Return == /\ Active
          /\ Top.sent
          /\ Top.j > Top.size
          /\ stack' = Pop(stack)
          /\ UNCHANGED <<out, whole>>

Next == \/ Browse
        \/ ListObject
        \/ SkipUnnamed
        \/ SkipNamespace0
        \/ ReadReference
        \/ Return

\* The traversal is one thread of straight code, and each synchronous call
\* returns, if only by its time-out.
Fairness == WF_vars(Next)

Spec == Init /\ [][Next]_vars
FairSpec == Spec /\ Fairness

-----------------------------------------------------------------------------
(* The reference: what a whole listing holds, as a set of positions.       *)

ExpectedTop == {i \in DOMAIN Refs[Objects] : Named(Refs[Objects][i])}

ExpectedSub(i) ==
    LET node == Refs[Objects][i]
    IN  IF Expanded(node)
          THEN {j \in DOMAIN Refs[node] : /\ Ns[Refs[node][j]] # 0
                                          /\ Named(Refs[node][j])}
          ELSE {}

Expected == {[at |-> i, sub |-> 0] : i \in ExpectedTop}
            \cup UNION {{[at |-> i, sub |-> j] : j \in ExpectedSub(i)} :
                           i \in ExpectedTop}

Position(row) == [at |-> row.at, sub |-> row.sub]

Positions == [k \in DOMAIN out |-> Position(out[k])]

Listed == {Position(out[k]) : k \in DOMAIN out}

Done == stack = <<>>

Promise == INSTANCE Listing WITH listed <- Positions, done <- Done

-----------------------------------------------------------------------------
(* Properties.                                                             *)

\* The locals of every call and the rows printed stay in their types.
TypeOK == /\ stack \in Seq(Frames)
          /\ out \in Seq(Rows)
          /\ whole \in BOOLEAN

\* However deep or cyclic the address space, at most two calls are active
\* and no row is more than one level below the objects folder: the test of n
\* at the head of BrowsingVarsRecursion is the only thing that stops it.
DepthBound == /\ Len(stack) <= 2
              /\ \A k \in DOMAIN out : out[k].depth <= 1

\* A listing that ended without a failed or truncated browse answer left out
\* no row of a numeric or string id, whatever reads failed on the way.
ListingComplete ==
    Done /\ whole => Listed = Expected

\* The row of node is the last one up to row k whose read succeeded.
ReadLast(node, k) ==
    \E m \in 1 .. k : /\ out[m].node = node
                      /\ out[m].read
                      /\ \A l \in m + 1 .. k : ~out[l].read

\* A VALUE that a row shows was read from a reference of the recursion: from
\* the row's own if its read succeeded, else from the last listed reference,
\* under this parent or an earlier one, whose read did; only a reference that
\* is read and not listed, one of another id type, may come between. No call
\* initialises its variant, so nothing else bounds how old a value is.
ShownWasReadLast ==
    \A k \in DOMAIN out :
        LET row == out[k]
        IN  row.shown \in Nodes =>
                /\ Ns[row.shown] # 0
                /\ row.read => row.shown = row.node
                /\ Named(row.shown) => ReadLast(row.shown, k)

\* The VALUE column of a row holds the value of the row's own node or stays
\* empty: the heading of BrowsingVars says as much of the column. The code
\* ignores a failed read and prints what the variant held before.
RowShowsOwnValue ==
    \A k \in DOMAIN out : out[k].shown \in {out[k].node, Blank}

\* The traversal is the listing it promises: rows in order, each once.
ImplementsListing == Promise!Spec

\* The traversal ends, even over an address space with cycles.
Terminates == <>Done
=============================================================================
