----------------------------- MODULE JsonParser -----------------------------
(***************************************************************************)
(* class parser of json.hpp: sax_parse_internal turns tokens into calls of *)
(* a SAX handler with one stack of bits, true for an array, and no         *)
(* recursion. The lexer may return any token next.                         *)
(*                                                                         *)
(* json_sax_dom_parser, the handler, builds the value meanwhile: a stack   *)
(* of pointers to the open containers and a pointer to the member that     *)
(* waits for its value. Memory is a sequence of nodes, and a pointer an    *)
(* index into it; 0 is the null pointer. json_sax_dom_callback_parser also *)
(* asks a callback of the user what to keep.                               *)
(***************************************************************************)
EXTENDS JsonDocs, FiniteSets

CONSTANTS
    MaxTokens,   \* bound: the tokens of a text
    Limit(_)     \* bound: the tokens a handler gets before end_of_input, at most that

VARIABLES
    read,    \* the tokens read; the last one is last_token
    states,  \* the stack: TRUE in an array, FALSE in an object
    sax,     \* the handler
    at       \* where in sax_parse_internal, then how it ended

vars == <<read, states, sax, at>>

-----------------------------------------------------------------------------
(* json_sax_dom_parser.                                                    *)

Null == Tree("null", <<>>)

\* "discarded" marks a failed parse; .sound is FALSE once an assertion fails.
DomStart == [mem |-> <<>>, root |-> 0, refs |-> <<>>, element |-> 0,
             errored |-> FALSE, sound |-> TRUE, go |-> TRUE]

Top(s) == s.mem[Last(s.refs)]

\* The position of a key in std::map, or where it goes.
Slot(kids, k) ==
    LET Rank(x) == CHOOSE i \in DOMAIN KeyOrder : KeyOrder[i] = x
    IN  1 + Cardinality({i \in DOMAIN kids : Rank(kids[i].key) < Rank(k)})

\* A slip: pushed to the front.
AttachedFront(s, kind) ==
    LET new == Len(s.mem) + 1
        mem == Append(s.mem, Tree(kind, <<>>))
    IN  IF s.refs = <<>> THEN [s EXCEPT !.mem = mem, !.root = new]
        ELSE [s EXCEPT !.mem = [mem EXCEPT ![Last(s.refs)].kids = <<Member("", new)>> \o @]]

\* A new node, pushed onto the back of the array on top or made the root.
Attached(s, kind) ==
    LET new == Len(s.mem) + 1
        mem == Append(s.mem, Tree(kind, <<>>))
    IN  IF s.refs = <<>> THEN [s EXCEPT !.mem = mem, !.root = new]
        ELSE [s EXCEPT !.mem = [mem EXCEPT ![Last(s.refs)].kids = Append(@, Member("", new))]]

\* object_element points to a member of the object on top.
ElementOnTop(s) == /\ Top(s).kind = "object"
                   /\ \E i \in DOMAIN Top(s).kids : Top(s).kids[i].val = s.element

\* A slip: a value in an object is written wherever object_element points, also
\* when an array is on top.
handle_valueStale(s, kind) ==
    IF s.refs = <<>> \/ s.element = 0
    THEN [st |-> Attached(s, kind), ptr |-> Len(s.mem) + 1]
    ELSE [st |-> [s EXCEPT !.mem[s.element] = Tree(kind, <<>>)], ptr |-> s.element]

\* The value goes to the root, to the array on top, or where object_element points.
handle_value(s, kind) ==
    IF s.refs = <<>> \/ Top(s).kind = "array"
    THEN [st |-> Attached(s, kind), ptr |-> Len(s.mem) + 1]
    ELSE [st |-> [s EXCEPT !.sound = @ /\ ElementOnTop(s),
                           !.mem[s.element] = Tree(kind, <<>>)],
          ptr |-> s.element]

\* operator[]: the member with that key, made null if there is none.
DomKey(s, k) ==
    LET obj == Top(s)
        i == Slot(obj.kids, k)
        new == Len(s.mem) + 1
    IN  IF i \in DOMAIN obj.kids /\ obj.kids[i].key = k
        THEN [s EXCEPT !.element = obj.kids[i].val]
        ELSE [s EXCEPT !.mem = Append([@ EXCEPT ![Last(s.refs)].kids =
                                         InsertAt(obj.kids, i, Member(k, new))], Null),
                       !.element = new]

Container(s, kind) == LET h == handle_value(s, kind)
                      IN  [h.st EXCEPT !.refs = Append(@, h.ptr)]

Closed(s, kind) ==
    IF s.refs = <<>> \/ Top(s).kind # kind THEN [s EXCEPT !.sound = FALSE]
    ELSE [s EXCEPT !.refs = SubSeq(@, 1, Len(@) - 1)]

DomSax(s, e) ==
    {CASE e.name = "value" -> handle_value(s, e.what).st
       [] e.name = "start_object" -> Container(s, "object")
       [] e.name = "start_array" -> Container(s, "array")
       [] e.name = "key" -> IF s.refs = <<>> \/ Top(s).kind # "object"
                            THEN [s EXCEPT !.sound = FALSE] ELSE DomKey(s, e.what)
       [] e.name = "end_object" -> Closed(s, "object")
       [] e.name = "end_array" -> Closed(s, "array")
       [] e.name = "parse_error" -> [s EXCEPT !.errored = TRUE]}

-----------------------------------------------------------------------------
(* json_sax_dom_callback_parser: the user's callback is asked of every     *)
(* value, key and container whether to keep it. The stack of containers    *)
(* holds null for one that is not kept. The callback may answer anything;  *)
(* .refused says that it has once answered no.                             *)

FilterStart == [mem |-> <<>>, root |-> 0, refs |-> <<>>, element |-> 0,
                errored |-> FALSE, sound |-> TRUE, go |-> TRUE,
                keep |-> <<TRUE>>, keyKeep |-> <<>>, refused |-> FALSE]

Answer(s, keep) == [s EXCEPT !.refused = @ \/ ~keep]
Front1(q) == SubSeq(q, 1, Len(q) - 1)
NotKept(s) == [st |-> s, ptr |-> 0]
OnTop(s) == IF s.refs = <<>> THEN 0 ELSE Last(s.refs)

\* A slip: a member that waits gets the value, whatever is on top.
StoredStale(s, kind) ==
    IF s.refs # <<>> /\ OnTop(s) = 0 THEN NotKept(s)
    ELSE IF s.refs = <<>> \/ s.element = 0
         THEN [st |-> Attached(s, kind), ptr |-> Len(s.mem) + 1]
    ELSE [st |-> [s EXCEPT !.mem[s.element] = Tree(kind, <<>>)], ptr |-> s.element]

\* What handle_value does with a value that nobody has refused.
Stored(s, kind) ==
    IF s.refs # <<>> /\ OnTop(s) = 0 THEN NotKept(s)
    ELSE IF s.refs = <<>> \/ Top(s).kind = "array"
         THEN [st |-> Attached(s, kind), ptr |-> Len(s.mem) + 1]
    ELSE IF s.keyKeep = <<>> THEN NotKept([s EXCEPT !.sound = FALSE])
    ELSE LET popped == [s EXCEPT !.keyKeep = Front1(@)]
         IN  IF ~Last(s.keyKeep) THEN NotKept(popped)
             ELSE [st |-> [popped EXCEPT !.sound = @ /\ ElementOnTop(s),
                                         !.mem[s.element] = Tree(kind, <<>>)],
                   ptr |-> s.element]

handle_value_filtered(s, kind, keep) ==
    IF ~Last(s.keep) THEN NotKept(s)
    ELSE IF keep THEN Stored(s, kind) ELSE NotKept(Answer(s, keep))

Opened(s, kind, keep) ==
    LET asked == Answer([s EXCEPT !.keep = Append(@, keep)], keep)
        h == handle_value_filtered(asked, kind, TRUE)
    IN  [h.st EXCEPT !.refs = Append(@, h.ptr)]

\* A slip: only a key that is kept is remembered.
FilterKeyKept(s, k, keep) ==
    IF keep /\ OnTop(s) # 0
    THEN DomKey([s EXCEPT !.keyKeep = Append(@, keep)], k) ELSE Answer(s, keep)

\* The member is there, discarded, before its value is known.
FilterKey(s, k, keep) ==
    LET asked == Answer([s EXCEPT !.keyKeep = Append(@, keep)], keep)
    IN  IF keep /\ OnTop(s) # 0
        THEN LET d == DomKey(asked, k) IN [d EXCEPT !.mem[d.element] = Leaf("discarded")]
        ELSE asked

\* A slip: the first member goes, discarded or not.
EraseAny(kids, mem) == IF kids = <<>> THEN kids ELSE Tail(kids)

EraseFirst(kids, mem) ==
    LET bad == {i \in DOMAIN kids : mem[kids[i].val].kind = "discarded"}
    IN  IF bad = {} THEN kids ELSE RemoveAt(kids, Min(bad))

\* A container that is refused at its end is discarded and taken out of the one
\* around it: an object by a search that stops at the first discarded member, an
\* array as the last element, if that one is an array too.
FilterEndObject(s, keep) ==
    LET own == OnTop(s) # 0
        asked == IF own THEN Answer(s, keep) ELSE s
        marked == IF own /\ ~keep THEN [asked EXCEPT !.mem[Last(s.refs)] = Leaf("discarded")]
                  ELSE asked
        out == [marked EXCEPT !.refs = Front1(@), !.keep = Front1(@)]
    IN  IF OnTop(out) # 0 /\ Top(out).kind \in {"array", "object"}
        THEN [out EXCEPT !.mem[Last(out.refs)].kids = EraseFirst(@, out.mem)]
        ELSE out

FilterEndArray(s, keep) ==
    LET refused == OnTop(s) # 0 /\ ~keep
        asked == IF refused THEN Answer(s, keep) ELSE s
        marked == IF refused THEN [asked EXCEPT !.mem[Last(s.refs)] = Leaf("discarded")]
                  ELSE asked
        out == [marked EXCEPT !.refs = Front1(@), !.keep = Front1(@)]
    IN  IF refused /\ out.refs # <<>>
        THEN IF OnTop(out) = 0 THEN [out EXCEPT !.sound = FALSE]
             ELSE IF Top(out).kind = "array"
                  THEN [out EXCEPT !.mem[Last(out.refs)].kids = Front1(@)] ELSE out
        ELSE out

FilterSax(s, e) ==
    {CASE e.name = "value" -> handle_value_filtered(s, e.what, keep).st
       [] e.name = "start_object" -> Opened(s, "object", keep)
       [] e.name = "start_array" -> Opened(s, "array", keep)
       [] e.name = "key" -> FilterKey(s, e.what, keep)
       [] e.name = "end_object" -> FilterEndObject(s, keep)
       [] e.name = "end_array" -> FilterEndArray(s, keep)
       [] e.name = "parse_error" -> [s EXCEPT !.errored = TRUE] : keep \in BOOLEAN}

\* Either handler.
IsFilter(s) == "keep" \in DOMAIN s
EitherSax(s, e) == IF IsFilter(s) THEN FilterSax(s, e) ELSE DomSax(s, e)
BothStarts == {DomStart, FilterStart}

-----------------------------------------------------------------------------
(* The parser.                                                             *)

Tokens == {"{", "}", "[", "]", ":", ",", "overflow", "parse_error"} \cup Scalars

\* The constructor reads the first token. end_of_input comes again and again.
Upcoming(seen, handler) ==
    IF Len(seen) >= Limit(handler) \/ (seen # <<>> /\ Last(seen) = "end") THEN {"end"}
    ELSE Tokens \cup {"end"}

Init == /\ states = <<>> /\ sax \in BothStarts /\ at = "value"
        /\ read \in {<<t>> : t \in Upcoming(<<>>, sax)}

token == Last(read)
get_token == \E t \in Upcoming(read, sax) : read' = Append(read, t)
Stay == UNCHANGED read

\* One call of the handler; sax_parse_internal goes on if it returns true.
Event(name, what) == [name |-> name, what |-> what]
Tell(name, what, next) ==
    /\ sax' \in EitherSax(sax, Event(name, what))
    /\ at' = IF sax'.go THEN next ELSE "stopped"
Quiet(next) == UNCHANGED sax /\ at' = next

parse_error == /\ sax' \in EitherSax(sax, Event("parse_error", "")) /\ at' = "error"
               /\ UNCHANGED <<read, states>>

Pop == SubSeq(states, 1, Len(states) - 1)

BeginObject == /\ at = "value" /\ token = "{"
               /\ Tell("start_object", "", "first key") /\ get_token /\ UNCHANGED states

\* "}" at once, or a key.
FirstKey == /\ at = "first key"
            /\ \/ token = "}" /\ Tell("end_object", "", "evaluate") /\ Stay
               \/ token \in Strings /\ Tell("key", token, "first separator") /\ get_token
            /\ UNCHANGED states

FirstSeparator == /\ at = "first separator" /\ token = ":"
                  /\ states' = Append(states, FALSE)
                  /\ get_token /\ Quiet("value")

BeginArray == /\ at = "value" /\ token = "["
              /\ Tell("start_array", "", "first element") /\ get_token /\ UNCHANGED states

\* A slip: an array needs an element.
FirstElementNeeded == /\ at = "first element" /\ Quiet("value")
                      /\ states' = Append(states, TRUE) /\ Stay

\* A slip: no element is begun.
FirstElementWaits == /\ at = "first element"
                     /\ IF token = "]" THEN Tell("end_array", "", "evaluate")
                        ELSE Quiet("first element")
                     /\ Stay /\ UNCHANGED states

FirstElement == /\ at = "first element"
                /\ \/ /\ token = "]" /\ Tell("end_array", "", "evaluate")
                      /\ UNCHANGED states
                   \/ /\ token # "]" /\ Quiet("value")
                      /\ states' = Append(states, TRUE)
                /\ Stay

ScalarValue == /\ at = "value" /\ token \in Scalars
               /\ Tell("value", token, "evaluate") /\ Stay /\ UNCHANGED states

Evaluate == /\ at = "evaluate"
            /\ IF states = <<>> THEN Quiet("strict") ELSE Quiet("next")
            /\ get_token /\ UNCHANGED states

\* A slip: the state is left in place when a container ends.
EndArrayKeeps == /\ at = "next" /\ Last(states) /\ token = "]"
                 /\ Tell("end_array", "", "evaluate") /\ Stay /\ UNCHANGED states

NextElement == /\ at = "next" /\ Last(states) /\ token = ","
               /\ get_token /\ Quiet("value") /\ UNCHANGED states
EndArray == /\ at = "next" /\ Last(states) /\ token = "]"
            /\ Tell("end_array", "", "evaluate") /\ states' = Pop /\ Stay

NextMember == /\ at = "next" /\ ~Last(states) /\ token = ","
              /\ get_token /\ Quiet("key") /\ UNCHANGED states
EndObject == /\ at = "next" /\ ~Last(states) /\ token = "}"
             /\ Tell("end_object", "", "evaluate") /\ states' = Pop /\ Stay

\* A slip: a comma may be followed by the end.
KeyOrEnd == /\ at = "key"
            /\ \/ token \in Strings /\ Tell("key", token, "separator") /\ get_token
               \/ token = "}" /\ Quiet("next") /\ Stay
            /\ UNCHANGED states

Key == /\ at = "key" /\ token \in Strings
       /\ Tell("key", token, "separator") /\ get_token /\ UNCHANGED states

Separator == /\ at = "separator" /\ token = ":"
             /\ get_token /\ Quiet("value") /\ UNCHANGED states

\* parse() and sax_parse() with strict.
Strict == /\ at = "strict" /\ token = "end" /\ Quiet("accepted") /\ Stay /\ UNCHANGED states

\* What each place takes; any other token is an error.
Expected == CASE at = "value" -> {"{", "["} \cup Scalars
              [] at = "first key" -> {"}"} \cup Strings
              [] at \in {"first separator", "separator"} -> {":"}
              [] at = "next" -> {","} \cup IF Last(states) THEN {"]"} ELSE {"}"}
              [] at = "key" -> Strings
              [] at = "strict" -> {"end"}
              [] OTHER -> Tokens \cup {"end"}
Unexpected == token \notin Expected /\ parse_error

Ended == at \in {"accepted", "error", "stopped"} /\ UNCHANGED vars

Next == \/ BeginObject \/ FirstKey \/ FirstSeparator \/ BeginArray \/ FirstElement
        \/ ScalarValue \/ Evaluate \/ NextElement \/ EndArray \/ NextMember \/ EndObject
        \/ Key \/ Separator \/ Strict \/ Unexpected \/ Ended

Spec == Init /\ [][Next]_vars
FairSpec == Spec /\ WF_vars(Next)

-----------------------------------------------------------------------------

\* All texts of at most MaxTokens tokens; what was read before the end.
AllDocs == LET g == Grammar(MaxTokens) IN UNION {g[n].values : n \in 1 .. MaxTokens}
Texts == {d.text : d \in AllDocs}
Text == SelectSeq(read, LAMBDA t : t # "end")

\* The parser accepts nothing but JSON, and refuses only what is not the start of
\* a text (sax_parse_internal, parse with strict).
AcceptsJson ==
    /\ at = "accepted" => Text \in Texts
    /\ at = "error" => ~\E t \in Texts : IsPrefix(read, Append(t, "end"))

\* Whatever comes from the lexer, parsing ends.
Terminates == <>(at \in {"accepted", "error", "stopped"})

\* The assertions of json_sax_dom_parser hold.
AssertionsHold == sax.sound

\* Each open container is the one that was put last into the one below, so that no
\* vector that grows holds something a pointer of the stack points to.
PointersStay ==
    \A i \in 1 .. Len(sax.refs) - 1 : sax.refs[i + 1] # 0 =>
      sax.refs[i] # 0 /\
      LET below == sax.mem[sax.refs[i]]
      IN  \E j \in DOMAIN below.kids : /\ below.kids[j].val = sax.refs[i + 1]
                                       /\ below.kind = "array" => j = Len(below.kids)

\* The bits of states and the open containers of the handler agree; only the filter's
\* may be null.
StacksAgree == at \notin {"accepted", "error", "stopped"} =>
    LET open == Len(sax.refs) - Len(states)
    IN  /\ open = IF at \in {"first key", "first separator", "first element"} THEN 1 ELSE 0
        /\ \A i \in DOMAIN states :
             IF sax.refs[i] = 0 THEN IsFilter(sax)
             ELSE sax.mem[sax.refs[i]].kind = IF states[i] THEN "array" ELSE "object"

\* On the way the handler's stack agrees with the parser's, the handler's assertions hold
\* and no pointer in its stack dangles (json_sax_dom_parser, json_sax_dom_callback_parser).
PointersSound == StacksAgree /\ AssertionsHold /\ PointersStay
=============================================================================
