----------------------------- MODULE JsonPatch -----------------------------
(***************************************************************************)
(* JSON pointers of json.hpp: their texts, and a document reached through  *)
(* one that is built token by token: at(), which only looks, operator[],   *)
(* which makes what is missing, and contains(). What can throw returns the *)
(* number of its exception, or 0, with its value.                          *)
(*                                                                         *)
(* Then JSON Patch and JSON Merge Patch on a document: patch_inplace, one  *)
(* operation of the patch at a time, diff, merge_patch, flatten and        *)
(* unflatten.  The pointers of a patch are texts, as in its json.          *)
(***************************************************************************)
EXTENDS JsonDocs

CONSTANTS
    Tokens,             \* what a pointer is built of
    Written,            \* the values that are assigned
    MaxDepth, MaxNodes, \* bounds: tokens of a pointer, nodes of a document
    Sources, Targets,   \* the documents diff is asked for
    Starts,             \* the documents that are patched
    Operations,         \* the operations of patches
    Merges              \* merge patches

VARIABLES
    doc,        \* the document
    ptr,        \* the reference tokens of the pointer
    err,        \* the exception of the last call, 0 if none
    todo,       \* the operations of the patch that are left
    goal,       \* what the patch is meant to make of the document
    asserts     \* JSON_ASSERT(false) was reached

vars == <<doc, ptr, err>>

-----------------------------------------------------------------------------
(* Texts: sequences of characters.                                         *)

Ok(v) == [err |-> 0, val |-> v]
Failure(code, v) == [err |-> code, val |-> v]
Failed(r) == r.err # 0

Digits == <<"0", "1", "2", "3", "4", "5", "6", "7", "8", "9">>
IsDigit(c) == \E i \in DOMAIN Digits : Digits[i] = c
AllDigits(s) == \A i \in DOMAIN s : IsDigit(s[i])
Dash == <<"-">>

\* Each occurrence of one piece by another, from the left; what was put in is
\* not looked at again.
replace_substring(s, f, t) ==
    LET n == Len(f)
        R[i \in 1 .. Len(s) + n] ==
          IF i > Len(s) THEN <<>>
          ELSE IF i + n - 1 <= Len(s) /\ \A j \in 1 .. n : s[i + j - 1] = f[j]
               THEN t \o R[i + n] ELSE <<s[i]>> \o R[i + 1]
    IN  R[1]

\* Slips: the two replacements in the other order.
escapeSwapped(s) ==
    replace_substring(replace_substring(s, <<"/">>, <<"~", "1">>), <<"~">>, <<"~", "0">>)
unescapeSwapped(s) ==
    replace_substring(replace_substring(s, <<"~", "0">>, <<"~">>), <<"~", "1">>, <<"/">>)

escape(s) ==
    replace_substring(replace_substring(s, <<"~">>, <<"~", "0">>), <<"/">>, <<"~", "1">>)
unescape(s) ==
    replace_substring(replace_substring(s, <<"~", "1">>, <<"/">>), <<"~", "0">>, <<"~">>)

to_string(tokens) == FlattenSeq([i \in DOMAIN tokens |-> <<"/">> \o escape(tokens[i])])

\* Slip: a tilde at the very end is let through.
BadTildeInside(s) == \E i \in DOMAIN s : s[i] = "~" /\ i < Len(s) /\ s[i + 1] \notin {"0", "1"}

\* A tilde that does not begin ~0 or ~1.
BadTilde(s) == \E i \in DOMAIN s : s[i] = "~" /\ (i = Len(s) \/ s[i + 1] \notin {"0", "1"})

\* The pieces between the slashes.
Pieces(s) ==
    LET slashes == SelectSeq([i \in DOMAIN s |-> i], LAMBDA i : s[i] = "/")
        EndOf(n) == IF n < Len(slashes) THEN slashes[n + 1] - 1 ELSE Len(s)
    IN  [n \in DOMAIN slashes |-> SubSeq(s, slashes[n] + 1, EndOf(n))]

split(s) ==
    IF s = <<>> THEN Ok(<<>>)
    ELSE IF s[1] # "/" THEN Failure(107, <<>>)
    ELSE LET pieces == Pieces(s)
         IN  IF \E n \in DOMAIN pieces : BadTilde(pieces[n]) THEN Failure(108, <<>>)
             ELSE Ok([n \in DOMAIN pieces |-> unescape(pieces[n])])

\* The number that digits are; no index the instances reach is too large for it.
NumberOf(s) == FoldLeft(LAMBDA n, c : (10 * n) + SelectInSeq(Digits, LAMBDA d : d = c) - 1, 0, s)

\* Slip: 01 is taken for 1.
array_indexLenient(s) == IF s # <<>> /\ AllDigits(s) THEN Ok(NumberOf(s)) ELSE Failure(404, 0)

array_index(s) ==
    IF Len(s) > 1 /\ s[1] = "0" THEN Failure(106, 0)
    ELSE IF Len(s) > 1 /\ ~IsDigit(s[1]) THEN Failure(109, 0)
    ELSE IF s = <<>> \/ ~AllDigits(s) THEN Failure(404, 0)
    ELSE Ok(NumberOf(s))

\* How std::to_string writes an index.
RECURSIVE TokenOf(_)
TokenOf(n) == IF n < 10 THEN <<Digits[n + 1]>> ELSE TokenOf(n \div 10) \o TokenOf(n % 10)

\* The order of std::string, by the codes of the characters that occur.
Characters == <<"-", "/">> \o Digits \o <<"a", "~">>
Code(c) == SelectInSeq(Characters, LAMBDA d : d = c)
TextLess(s, t) ==
    \/ IsStrictPrefix(s, t)
    \/ \E i \in DOMAIN s \cap DOMAIN t :
         SubSeq(s, 1, i - 1) = SubSeq(t, 1, i - 1) /\ Code(s[i]) < Code(t[i])

-----------------------------------------------------------------------------
(* Documents.                                                              *)

Null == Leaf("null")

\* The place of a key among the members, 0 if it is not there.
SlotOf(v, k) == SelectInSeq(v.kids, LAMBDA m : m.key = k)
Without(v, i) == Tree(v.kind, RemoveAt(v.kids, i))
With(v, i, w) == Tree(v.kind, SubSeq(v.kids, 1, i - 1) \o <<Member(v.kids[i].key, w)>>
                                \o SubSeq(v.kids, i + 1, Len(v.kids)))

\* operator[] of an object and of an array: missing members and elements are null.
OpenKey(v, k) == IF SlotOf(v, k) # 0 THEN v ELSE Obj(Append(v.kids, Member(k, Null)))

\* Slip: the elements before the new one are forgotten.
FilledAnew(v, idx) == IF idx < Len(v.kids) THEN v ELSE Arr([i \in 1 .. idx + 1 |-> Null])
Filled(v, idx) == IF idx < Len(v.kids) THEN v
                  ELSE Arr([i \in 1 .. idx + 1 |-> IF i <= Len(v.kids) THEN v.kids[i].val ELSE Null])

\* at() of an object and of an array: the place of the member or of the element.
MemberAt(v, k) == IF SlotOf(v, k) = 0 THEN Failure(403, 0) ELSE Ok(SlotOf(v, k))

\* Slip: the last element is out of range.
ElementAtShort(v, idx) == IF Failed(idx) THEN idx
                          ELSE IF idx.val + 1 >= Len(v.kids) THEN Failure(401, 0) ELSE Ok(idx.val + 1)
ElementAt(v, idx) == IF Failed(idx) THEN idx
                     ELSE IF idx.val >= Len(v.kids) THEN Failure(401, 0) ELSE Ok(idx.val + 1)

\* What at(ptr) finds one level down.
Place(v, token) ==
    CASE v.kind = "object" -> MemberAt(v, token)
      [] v.kind = "array" /\ token = Dash -> Failure(402, 0)
      [] v.kind = "array" /\ token # Dash -> ElementAt(v, array_index(token))
      [] OTHER -> Failure(404, 0)

RECURSIVE get_checked(_, _)
get_checked(v, p) ==
    IF p = <<>> THEN Ok(v)
    ELSE LET i == Place(v, Head(p))
         IN  IF Failed(i) THEN Failure(i.err, Null) ELSE get_checked(v.kids[i.val].val, Tail(p))

\* The container that a null becomes on the way: get_unchecked looks at all the
\* characters of the token, get_and_create only for an index 0.
Started(v, token, unflattening) ==
    IF v.kind # "null" THEN v
    ELSE IF unflattening THEN IF token = <<"0">> THEN Arr(<<>>) ELSE Obj(<<>>)
    ELSE IF AllDigits(token) \/ token = Dash THEN Arr(<<>>) ELSE Obj(<<>>)

\* The reference that get_unchecked and get_and_create return, with w assigned to
\* it. An exception on the way leaves what has been made so far.
RECURSIVE Put(_, _, _, _)
Put(v, p, w, unflattening) ==
    IF p = <<>> THEN Ok(w)
    ELSE LET token == Head(p)
             c == Started(v, token, unflattening)
             idx == IF token = Dash /\ ~unflattening THEN Ok(Len(c.kids)) ELSE array_index(token)
             below(u, i) == LET r == Put(u.kids[i].val, Tail(p), w, unflattening)
                            IN  Failure(r.err, With(u, i, r.val))
         IN  CASE c.kind = "object" ->
                    below(OpenKey(c, token), SlotOf(OpenKey(c, token), token))
               [] c.kind = "array" -> IF Failed(idx) THEN Failure(idx.err, c)
                                      ELSE below(Filled(c, idx.val), idx.val + 1)
               [] OTHER -> Failure(IF unflattening THEN 313 ELSE 404, c)

\* Slip: only the first character is looked at.
NoIndexFirst(token) == token = Dash \/ (token # <<>> /\ ~IsDigit(token[1]))

\* The characters that contains() refuses before it computes an index.
NoIndex(token) ==
    \/ token = Dash
    \/ Len(token) = 1 /\ ~IsDigit(token[1])
    \/ Len(token) > 1 /\ (~AllDigits(token) \/ token[1] = "0")

RECURSIVE contains(_, _)
contains(v, p) ==
    IF p = <<>> THEN Ok(TRUE)
    ELSE LET token == Head(p)
             slot == IF v.kind = "object" THEN Ok(SlotOf(v, token))
                     ELSE IF v.kind # "array" \/ NoIndex(token) THEN Ok(0)
                     ELSE LET i == array_index(token)
                          IN  IF Failed(i) THEN i
                              ELSE IF i.val >= Len(v.kids) THEN Ok(0) ELSE Ok(i.val + 1)
         IN  IF Failed(slot) THEN Failure(slot.err, FALSE)
             ELSE IF slot.val = 0 THEN Ok(FALSE) ELSE contains(v.kids[slot.val].val, Tail(p))

-----------------------------------------------------------------------------
RECURSIVE Size(_)
Size(v) == 1 + FoldLeft(LAMBDA n, m : n + Size(m.val), 0, v.kids)

Init == doc = Null /\ ptr = <<>> /\ err = 0

push_back == /\ Len(ptr) < MaxDepth
             /\ \E token \in Tokens : ptr' = Append(ptr, token)
             /\ err' = 0 /\ UNCHANGED doc

pop_back == /\ IF ptr = <<>> THEN err' = 405 /\ UNCHANGED ptr
               ELSE err' = 0 /\ ptr' = Front(ptr)
            /\ UNCHANGED doc

\* j[ptr] = w
Assign(w) == LET r == Put(doc, ptr, w, FALSE)
             IN  /\ Size(r.val) <= MaxNodes
                 /\ doc' = r.val /\ err' = r.err /\ UNCHANGED ptr

Next == push_back \/ pop_back \/ \E w \in Written : Assign(w)

-----------------------------------------------------------------------------
Pointers == UNION {[1 .. n -> Tokens] : n \in 0 .. MaxDepth}

\* contains() (14383) says yes exactly for the pointers that at() (14334) can
\* follow, in the documents that the assignments build: the first decides from
\* the characters of a token, the second from the index. It says no, and throws
\* nothing, where at() throws, also at the tokens for which its own comment
\* (14380, 14381) announces parse_error.106 and 109, as 01 or a below an array.
\* The exception is the empty token of an array, at which contains() throws 404.
ContainsMeansAt ==
    LET c == contains(doc, ptr)
    IN  (\A i \in DOMAIN ptr : ptr[i] # <<>>) =>
          ~Failed(c) /\ (c.val <=> ~Failed(get_checked(doc, ptr)))

\* What operator[] has written is what at() reads at the same pointer, also where
\* the containers on the way were made from null or grown. A "-" names the place
\* behind the last element, and nothing afterwards.
WriteThenRead ==
    [][\A w \in Written :
          /\ Assign(w) /\ err' = 0
          /\ \A i \in DOMAIN ptr : ptr[i] = Dash =>
               get_checked(doc', SubSeq(ptr, 1, i - 1)).val.kind = "object"
          => get_checked(doc', ptr) = Ok(w)]_vars

\* A write disturbs nothing beside its own way through the document: whatever
\* at() reads from a pointer that is neither above nor below it stays, and a write
\* that throws half-way has lost nothing.
WriteKeepsTheRest ==
    [][\A w \in Written : Assign(w) =>
         \A p \in Pointers :
            LET before == get_checked(doc, p)
                apart == ~IsPrefix(p, ptr) /\ (IsPrefix(ptr, p) => err' # 0)
            IN  ~Failed(before) /\ apart => get_checked(doc', p) = before]_vars

-----------------------------------------------------------------------------
(* Patches.                                                                *)

patchVars == <<vars, todo, goal, asserts>>

\* An operation; its path and its from are texts of pointers.
Op(op, path, from, value) == [op |-> op, path |-> path, from |-> from, value |-> value]
Outcome(code, v, assertion) == [err |-> code, val |-> v, asserts |-> assertion]
Done(v) == Outcome(0, v, FALSE)

\* What throws ends the operation and leaves the document.
Try(r, d, Rest(_)) == IF Failed(r) THEN Outcome(r.err, d, FALSE) ELSE Rest(r.val)

\* Assigning through the reference of a path that at() has found.
RECURSIVE SetAt(_, _, _)
SetAt(v, p, w) == IF p = <<>> THEN w
                  ELSE LET i == Place(v, Head(p)).val
                       IN  With(v, i, SetAt(v.kids[i].val, Tail(p), w))

\* insert() of an array: i elements stay where they are.
Spliced(v, i, w) == Arr([n \in 1 .. Len(v.kids) + 1 |->
    IF n <= i THEN v.kids[n].val ELSE IF n = i + 1 THEN w ELSE v.kids[n - 1].val])

\* Slip: an element is inserted behind its index.
InsertedBehind(v, i, w) == Spliced(v, IF i < Len(v.kids) THEN i + 1 ELSE i, w)
Inserted(v, i, w) == Spliced(v, i, w)

\* What the parent becomes: a key is set, "-" is behind the last element, and the
\* last case is the one with the assertion.
Extended(v, token, w) ==
    CASE v.kind \in {"null", "object"} ->
           LET o == OpenKey(IF v.kind = "null" THEN Obj(<<>>) ELSE v, token)
           IN  Done(With(o, SlotOf(o, token), w))
      [] v.kind = "array" ->
           Try(IF token = Dash THEN Ok(Len(v.kids)) ELSE array_index(token), v,
               LAMBDA i : IF i > Len(v.kids) THEN Outcome(401, v, FALSE) ELSE Done(Inserted(v, i, w)))
      [] OTHER -> Outcome(0, v, TRUE)

\* What has become of the value at a path.
Within(d, path, r) == Outcome(r.err, SetAt(d, path, r.val), r.asserts)

\* The lookup of the first token that comes before throws what this one would.
operation_add(d, path, w) ==
    IF path = <<>> THEN Done(w)
    ELSE Try(get_checked(d, Front(path)), d,
             LAMBDA parent : Within(d, Front(path), Extended(parent, Last(path), w)))

\* erase() of a member, whose absence the patch reports, and of an element.
Erased(v, place) == IF Failed(place) THEN Failure(place.err, v) ELSE Ok(Without(v, place.val))
ErasedElement(v, idx) == Erased(v, ElementAt(v, idx))

\* Slip: a key that is not there is no error.
ShrunkQuietly(v, token) ==
    CASE v.kind = "object" -> IF SlotOf(v, token) = 0 THEN Ok(v) ELSE Erased(v, MemberAt(v, token))
      [] v.kind = "array" -> ErasedElement(v, array_index(token))
      [] OTHER -> Ok(v)

\* Of a parent that is neither object nor array nothing is said.
Shrunk(v, token) == CASE v.kind = "object" -> Erased(v, MemberAt(v, token))
                      [] v.kind = "array" -> ErasedElement(v, array_index(token))
                      [] OTHER -> Ok(v)

operation_remove(d, path) ==
    IF path = <<>> THEN Outcome(405, d, FALSE)
    ELSE Try(get_checked(d, Front(path)), d, LAMBDA parent :
             Try(Shrunk(parent, Last(path)), d, LAMBDA v : Done(SetAt(d, Front(path), v))))

\* Slip: a move adds before it removes.
moveAddsFirst(d, from, path) ==
    Try(get_checked(d, from), d, LAMBDA v :
        Try(operation_add(d, path, v), d, LAMBDA added : operation_remove(added, from)))

move(d, from, path) ==
    Try(get_checked(d, from), d, LAMBDA v :
        Try(operation_remove(d, from), d, LAMBDA removed : operation_add(removed, path, v)))

\* The path is split before the operation is known, from when its turn comes. The
\* test catches out_of_range (400 and above) and nothing else: the exceptions of
\* array_index that are parse errors leave the patch.
Performed(d, o, path) ==
    LET FromWhere(Use(_)) == Try(split(o.from), d, Use)
    IN  CASE o.op = "add" -> operation_add(d, path, o.value)
          [] o.op = "remove" -> operation_remove(d, path)
          [] o.op = "replace" -> Try(get_checked(d, path), d, LAMBDA v : Done(SetAt(d, path, o.value)))
          [] o.op = "move" -> FromWhere(LAMBDA from : move(d, from, path))
          [] o.op = "copy" -> FromWhere(LAMBDA from :
                                Try(get_checked(d, from), d, LAMBDA v : operation_add(d, path, v)))
          [] o.op = "test" -> LET found == get_checked(d, path)
                              IN  IF found = Ok(o.value) THEN Done(d)
                                  ELSE Outcome(IF found.err \in 1 .. 399 THEN found.err ELSE 501,
                                               d, FALSE)
          [] OTHER -> Outcome(105, d, FALSE)

Applied(d, o) == Try(split(o.path), d, LAMBDA path : Performed(d, o, path))

-----------------------------------------------------------------------------
Below(path, text) == path \o <<"/">> \o text

\* Slip: a key is written as it is.
KeyPathRaw(path, key) == Below(path, key)
KeyPath(path, key) == Below(path, escape(key))

\* Slip: the superfluous elements are removed from the first one on.
RemovalsUpwards(path, n, count) ==
    [i \in 1 .. count - n |-> Op("remove", Below(path, TokenOf(n + i - 1)), <<>>, Null)]

\* Each removal is inserted before the ones already there, so that the elements
\* behind the common part go from the last one on.
Removals(path, n, count) ==
    [i \in 1 .. count - n |-> Op("remove", Below(path, TokenOf(count - i)), <<>>, Null)]

RECURSIVE diff(_, _, _)
diff(source, target, path) ==
    LET n == Len(source.kids)
        m == Len(target.kids)
        common == IF n < m THEN n ELSE m
        elements == [i \in 1 .. common |->
                       diff(source.kids[i].val, target.kids[i].val, Below(path, TokenOf(i - 1)))]
        appended == [i \in 1 .. m - common |->
                       Op("add", Below(path, Dash), <<>>, target.kids[common + i].val)]
        members == [i \in 1 .. n |->
                      LET key == source.kids[i].key
                          slot == SlotOf(target, key)
                      IN  IF slot = 0 THEN <<Op("remove", KeyPath(path, key), <<>>, Null)>>
                          ELSE diff(source.kids[i].val, target.kids[slot].val, KeyPath(path, key))]
        news == SelectSeq(target.kids, LAMBDA e : SlotOf(source, e.key) = 0)
    IN  IF source = target THEN <<>>
        ELSE IF source.kind # target.kind \/ source.kind \notin {"array", "object"}
             THEN <<Op("replace", path, <<>>, target)>>
        ELSE IF source.kind = "array"
             THEN FlattenSeq(elements) \o Removals(path, common, n) \o appended
        ELSE FlattenSeq(members)
             \o [i \in DOMAIN news |-> Op("add", KeyPath(path, news[i].key), <<>>, news[i].val)]

\* Slip: null is a value like any other.
RECURSIVE merge_patchKeepsNull(_, _)
merge_patchKeepsNull(v, p) ==
    IF p.kind # "object" THEN p
    ELSE FoldLeft(LAMBDA o, e : LET u == OpenKey(o, e.key)
                                    i == SlotOf(u, e.key)
                                IN  With(u, i, merge_patchKeepsNull(u.kids[i].val, e.val)),
                  IF v.kind = "object" THEN v ELSE Obj(<<>>), p.kids)

RECURSIVE merge_patch(_, _)
merge_patch(v, p) ==
    LET Merge(o, e) ==
          IF e.val.kind = "null"
          THEN IF SlotOf(o, e.key) = 0 THEN o ELSE Without(o, SlotOf(o, e.key))
          ELSE LET u == OpenKey(o, e.key)
                   i == SlotOf(u, e.key)
               IN  With(u, i, merge_patch(u.kids[i].val, e.val))
    IN  IF p.kind # "object" THEN p
        ELSE FoldLeft(Merge, IF v.kind = "object" THEN v ELSE Obj(<<>>), p.kids)

-----------------------------------------------------------------------------
\* The leaves with the texts of their pointers; what is empty counts as null.
RECURSIVE FlatMembers(_, _)
FlatMembers(v, path) ==
    IF v.kind \notin {"array", "object"} THEN <<Member(to_string(path), v)>>
    ELSE IF v.kids = <<>> THEN <<Member(to_string(path), Null)>>
    ELSE FlattenSeq([i \in DOMAIN v.kids |->
           FlatMembers(v.kids[i].val,
             Append(path, IF v.kind = "array" THEN TokenOf(i - 1) ELSE v.kids[i].key))])

\* Slip: the keys are not escaped.
RECURSIVE Unescaped(_, _)
Unescaped(v, text) ==
    IF v.kind \notin {"array", "object"} \/ v.kids = <<>> THEN <<Member(text, v)>>
    ELSE FlattenSeq([i \in DOMAIN v.kids |->
           Unescaped(v.kids[i].val,
             text \o <<"/">> \o IF v.kind = "array" THEN TokenOf(i - 1) ELSE v.kids[i].key)])
flattenUnescaped(v) ==
    Tree("object", SortSeq(Unescaped(v, <<>>), LAMBDA x, y : TextLess(x.key, y.key)))

\* The object that flatten fills is in the order of the texts.
flatten(v) == Tree("object", SortSeq(FlatMembers(v, <<>>), LAMBDA x, y : TextLess(x.key, y.key)))

unflatten(v) ==
    LET Add(r, e) ==
          IF Failed(r) THEN r
          ELSE IF e.val.kind \in {"array", "object"} THEN Failure(315, r.val)
          ELSE IF Failed(split(e.key)) THEN Failure(split(e.key).err, r.val)
          ELSE Put(r.val, split(e.key).val, e.val, TRUE)
    IN  IF v.kind # "object" THEN Failure(314, Null) ELSE FoldLeft(Add, Ok(Null), v.kids)

-----------------------------------------------------------------------------
Run(o) == \E r \in {Applied(doc, o)} :
             doc' = r.val /\ err' = r.err /\ asserts' = r.asserts

\* patch_inplace: the first operation that throws ends it.
Step == /\ todo # <<>> /\ err = 0
        /\ Run(Head(todo)) /\ todo' = Tail(todo)
        /\ UNCHANGED <<ptr, goal>>

\* One operation after another, as a user's patches, and merge patches between; the
\* first exception ends them here too.
Patch == /\ err = 0 /\ ~asserts
         /\ \E o \in Operations : Run(o) /\ Size(doc') <= MaxNodes
         /\ UNCHANGED <<ptr, goal, todo>>
Merge == /\ err = 0 /\ ~asserts
         /\ \E p \in Merges : \E v \in {merge_patch(doc, p)} : Size(v) <= MaxNodes /\ doc' = v
         /\ UNCHANGED <<ptr, err, goal, todo, asserts>>

PatchInit == /\ ptr = <<>> /\ err = 0 /\ asserts = FALSE
             /\ doc \in Starts /\ goal = Null /\ todo = <<>>
DiffInit == /\ ptr = <<>> /\ err = 0 /\ asserts = FALSE
            /\ doc \in Sources /\ goal \in Targets /\ todo = diff(doc, goal, <<>>)
=============================================================================
