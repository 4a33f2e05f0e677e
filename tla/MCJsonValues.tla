---------------------------- MODULE MCJsonValues ----------------------------
(***************************************************************************)
(* What json.hpp does with texts of pointers, with pointers into a         *)
(* document, with patches, and with values in binary formats: one of them  *)
(* in each behaviour, the variables of the others at rest.                 *)
(***************************************************************************)
EXTENDS JsonPatch

CONSTANTS Alphabet, MaxText   \* of the text of a pointer

VARIABLES subject, text, value, depth, format, input, pieces

binary == <<value, depth, format, input, pieces>>
all == <<patchVars, subject, text, binary>>

B == INSTANCE JsonBinary
       WITH doc <- value, Exponents <- {5, 7, 8, 15, 16, 31, 32, 63},
            Lengths <- {0, 1, 2, 3, 4, 8, 15, 16, 17, 23, 24, 31, 32, 255, 256, 65535, 65536},
            Sizes <- {0, 1, 15, 16, 23, 24}, Depth <- 1,
            MaxPieces <- [cbor |-> 4, msgpack |-> 3, bson |-> 4]

-----------------------------------------------------------------------------
(* The documents.                                                          *)

\* In the order of std::map.
MCKeyOrder == <<<<>>, <<"-">>, <<"/">>, <<"0">>, <<"0", "1">>, <<"1">>, <<"a">>, <<"~", "1">>>>
Empty == <<>>
Num == Leaf("true")

\* The empty token, the end of an array, indices, one that is none, and a name.
MCTokens == Strings \ {<<"/">>, <<"~", "1">>}
MCWritten == {Num, Arr(<<>>), Obj(<<>>)}

\* For diff: arrays of up to three and objects of up to two small values, under
\* an index, a slash, and a key that is the escape of that slash.
Names == {<<"0">>, <<"/">>, <<"~", "1">>}
Small == {Null, Num, Arr(<<Num>>), Obj(<<Member(<<"a">>, Null)>>)}
ArraysOf(S, n) == UNION {{Arr(vs) : vs \in [1 .. k -> S]} : k \in 0 .. n}
ObjectsOf(S) == {Obj(<<Member(k, v), Member(l, w)>>) :
                   k \in Names, l \in Names, v \in S, w \in S} \cup {Obj(<<>>)}
MCTargets == Small \cup ArraysOf(Small, 2) \cup ArraysOf({Null, Num}, 3) \cup ObjectsOf(Small)

\* Deeper ones, and an array of twelve elements.
MCSources == MCTargets \cup ArraysOf(ObjectsOf({Num}), 2) \cup ObjectsOf(ArraysOf({Num}, 2))
             \cup {Arr([i \in 1 .. 12 |-> IF i = 3 THEN Num ELSE Obj(<<Member(<<"a">>, Num)>>)])}

\* For patches: two indices and the end of an array beside a name.
Steps == {<<"-">>, <<"0">>, <<"1">>, <<"a">>}
Paths == {<<>>} \cup {<<a>> : a \in Steps} \cup {<<a, b>> : a \in Steps, b \in Steps}
Texts == {to_string(p) : p \in Paths}
NoTexts == {<<"a">>, <<"/", "~">>}
MCStarts == {Null, Arr(<<Num, Null>>)}
\* Moves between two different parents below the root are left out.
Near(p, f) == Len(p) + Len(f) < 4 \/ p[1] = f[1]
MCOperations ==
    {Op(o, t, <<>>, v) : o \in {"add", "replace"}, t \in Texts,
                         v \in {Num, Arr(<<>>), Obj(<<Member(<<"a">>, Num)>>)}}
    \cup {Op("test", t, <<>>, Num) : t \in Texts}
    \cup {Op("remove", t, <<>>, Null) : t \in Texts \cup NoTexts}
    \cup {Op("move", to_string(m[1]), to_string(m[2]), Null) :
             m \in {pf \in Paths \X Paths : Near(pf[1], pf[2])}}
    \cup {Op("copy", t, f, Null) : t \in Texts,
             f \in NoTexts \cup {to_string(p) : p \in {<<>>} \cup {<<a>> : a \in Steps}}}
    \cup {Op("invalid", <<>>, <<>>, Null)}
MCMerges == {Num, Obj(<<Member(<<"0">>, Num), Member(<<"a">>, Null)>>),
             Obj(<<Member(<<"a">>, Obj(<<Member(<<"0">>, Null), Member(<<"a">>, Num)>>))>>),
             Obj(<<Member(<<"a">>, Arr(<<Null>>))>>)}

-----------------------------------------------------------------------------

NoBinary == value = B!Null /\ depth = 0 /\ format = "none" /\ input = <<>> /\ pieces = 0
NoPatch == goal = Null /\ asserts = FALSE /\ todo = <<>>
MCInit == /\ text = <<>>
          /\ \/ subject \in {"text", "pointer"} /\ Init /\ NoPatch /\ NoBinary
             \/ subject = "diff" /\ DiffInit /\ NoBinary
             \/ subject = "patch" /\ PatchInit /\ NoBinary
             \/ subject = "binary" /\ B!Init /\ Init /\ NoPatch

Grow == Len(text) < MaxText /\ \E c \in Alphabet : text' = Append(text, c)

MCNext ==
    /\ \/ subject = "text" /\ Grow /\ UNCHANGED <<patchVars, binary>>
       \/ subject = "pointer" /\ Next /\ UNCHANGED <<todo, goal, asserts, text, binary>>
       \/ subject = "diff" /\ Step /\ UNCHANGED <<text, binary>>
       \/ subject = "patch" /\ (Patch \/ Merge) /\ UNCHANGED <<text, binary>>
       \/ subject = "binary" /\ B!Next /\ UNCHANGED <<patchVars, text>>
    /\ UNCHANGED subject

MCSpec == MCInit /\ [][MCNext]_all

-----------------------------------------------------------------------------
(* Texts of pointers.                                                      *)

\* What RFC 6901 calls a JSON pointer, written without looking at the code: the
\* texts in which every character is a slash, or follows one, and each tilde is
\* followed by 0 or 1.
IsPointer(s) ==
    /\ s # <<>> => s[1] = "/"
    /\ \A i \in DOMAIN s : s[i] = "~" => i < Len(s) /\ s[i + 1] \in {"0", "1"}

\* split (14472-14530) accepts exactly the texts that are JSON pointers.
SplitAccepts == IsPointer(text) <=> ~Failed(split(text))

\* A text that split takes apart is the one that to_string (13874) writes.
TextReturns == IsPointer(text) => to_string(split(text).val) = text

\* Every token comes back from its text, alone and beside another one, whatever
\* slashes, tildes and digits it holds: the order of the replacements in escape
\* and unescape (2990, 3005) matters, as the comments there say.
TokenReturns ==
    /\ split(to_string(<<text>>)) = Ok(<<text>>)
    /\ split(to_string(<<text, text>>)) = Ok(<<text, text>>)

\* A token is an index for array_index (14019) only if it is how that index is
\* written, so that no two tokens reach one element.
OneTokenPerIndex ==
    LET i == array_index(text) IN ~Failed(i) => TokenOf(i.val) = text

-----------------------------------------------------------------------------
(* Patches.                                                                *)

\* A document that patches have made. What a call does depends on the document alone,
\* so that the states an exception or the assertion ends need not be asked again.
Patched == subject = "patch" /\ err = 0 /\ ~asserts

\* The patch that diff (24283) writes makes the target of the source, whatever
\* the two are, and none of its operations throws: the removals of the elements
\* of an array must not move the ones still to be removed, an appended element
\* must find its place, and a key with a tilde or a slash its member.
DiffReaches == subject = "diff" =>
    /\ err = 0 /\ ~asserts
    /\ todo = <<>> => doc = goal

Succeeds(r) == r.err = 0 /\ ~r.asserts

\* The tokens of a text that is a pointer.
TokensOf(t) == split(t).val

\* What an add operation puts into a document, the remove operation at the same
\* place takes out again, and nothing else (24039, 24107).
AddThenRemove == Patched =>
    \A o \in Operations :
      LET r == Applied(doc, o)
          path == TokensOf(o.path)
          parent == get_checked(doc, Front(path)).val
          fresh == \/ parent.kind = "array" /\ Last(path) # Dash
                   \/ parent.kind = "object" /\ SlotOf(parent, Last(path)) = 0
      IN  o.op = "add" /\ Succeeds(r) /\ path # <<>> /\ fresh =>
            operation_remove(r.val, path) = Done(doc)

\* RFC 6902: replace is a remove followed by an add at the same place, though the
\* code assigns through at() instead (24201).
ReplaceIsRemoveAndAdd == Patched =>
    \A o \in Operations :
      LET r == Applied(doc, o)
          path == TokensOf(o.path)
          removed == operation_remove(doc, path)
      IN  o.op = "replace" /\ Succeeds(r) /\ path # <<>> =>
            removed.err = 0 /\ operation_add(removed.val, path, o.value) = r

\* What a move has moved is found where it was moved to, also inside one array,
\* where the removal has shifted the elements (24211-24218).
MovedArrives == Patched =>
    \A o \in Operations :
      LET r == Applied(doc, o)
          path == TokensOf(o.path)
      IN  /\ o.op = "move" /\ Succeeds(r)
          /\ path # <<>> => Last(path) # Dash
          => get_checked(r.val, path) = get_checked(doc, TokensOf(o.from))

\* RFC 6902: the places that an operation takes from, replaces or tests are there, and
\* what it adds has a container to go into. The code departs from it three times: a
\* remove below a value that is no container succeeds and does nothing (24107-24132), an
\* add below null makes an object of it (24062), and an add below any other such value
\* reaches JSON_ASSERT(false) (24102), with NDEBUG as if nothing had been asked. Nothing
\* else does, and nothing else is let through.
LocationsExist == Patched =>
    \A o \in Operations :
      LET r == Applied(doc, o)
          path == TokensOf(o.path)
          there(p) == ~Failed(get_checked(doc, p))
          above(p) == get_checked(doc, Front(p)).val.kind
          containers == {"array", "object"}
      IN  /\ Succeeds(r) =>
                /\ o.op = "remove" => path # <<>> /\ (there(path) \/ above(path) \notin containers)
                /\ o.op \in {"replace", "test"} => there(path)
                /\ o.op \in {"move", "copy"} => there(TokensOf(o.from))
                /\ o.op \in {"add", "copy"} /\ path # <<>> =>
                     there(Front(path)) /\ above(path) \in containers \cup {"null"}
          /\ r.asserts /\ o.op # "move" =>
                o.op \in {"add", "copy"} /\ above(path) \notin containers \cup {"null"}

\* RFC 7386 by its effect: below the objects of the merge patch, a null has
\* removed its member, any other leaf and any array is the member's value now, and
\* a member the patch does not name is as it was; and the same merge patch again
\* changes nothing (24425).
MergeObeys == Patched =>
    \A p \in Merges :
      LET merged == merge_patch(doc, p)
          \* the pointers whose way leads through objects only
          Through(v) == {q \in Pointers \ {<<>>} : \A i \in DOMAIN q :
                           LET u == get_checked(v, SubSeq(q, 1, i - 1))
                           IN  ~Failed(u) /\ u.val.kind = "object"}
      IN  /\ merge_patch(merged, p) = merged
          /\ \A q \in Through(p) :
               LET given == get_checked(p, q)
                   after == get_checked(merged, q)
               IN  IF Failed(given)
                   THEN q \in Through(doc) /\ ~Failed(get_checked(doc, q)) =>
                          after = get_checked(doc, q)
                   ELSE CASE given.val.kind = "null" -> Failed(after)
                          [] given.val.kind = "object" -> after.val.kind = "object"
                          [] OTHER -> after = given

RECURSIVE NoneEmpty(_)
NoneEmpty(v) == /\ v.kind \in {"array", "object"} => v.kids # <<>>
                /\ \A i \in DOMAIN v.kids : NoneEmpty(v.kids[i].val)

\* An object whose first member, by the text of its key, has the key 0.
RECURSIVE LooksLikeArray(_)
LooksLikeArray(v) ==
    \/ /\ v.kind = "object" /\ \E i \in DOMAIN v.kids : v.kids[i].key = <<"0">>
       /\ \A i \in DOMAIN v.kids : ~TextLess(escape(v.kids[i].key), <<"0">>)
    \/ \E i \in DOMAIN v.kids : LooksLikeArray(v.kids[i].val)

\* unflatten (14613) restores what flatten (14541) took apart, although the order
\* of the texts is not the order of the elements (10 comes before 2) and although
\* every container is guessed from one token: each source of diff, once.
FlattenRestores ==
    subject = "diff" /\ goal = Null /\ NoneEmpty(doc) /\ ~LooksLikeArray(doc) =>
        unflatten(flatten(doc)) = Ok(doc)

-----------------------------------------------------------------------------

\* A text is a pointer or refused, comes back from its tokens, reaches one element, and
\* what is written through a pointer is found there, with the rest as it was.
PointersMean == /\ [](SplitAccepts /\ TextReturns /\ TokenReturns /\ OneTokenPerIndex /\ ContainsMeansAt)
                /\ WriteThenRead /\ WriteKeepsTheRest

\* The patch that diff writes arrives at its goal, and flatten is undone. Of the operations
\* of a patch that succeed: a remove undoes an add, a replace is both, what was moved is
\* there, and only places that exist are used, with the three exceptions that
\* LocationsExist names. A merge patch has the effect that RFC 7386 describes.
PatchesArrive == /\ DiffReaches /\ FlattenRestores /\ AddThenRemove
                 /\ ReplaceIsRemoveAndAdd /\ MovedArrives /\ LocationsExist /\ MergeObeys

\* What the binary formats write they read as the same (JsonBinary).
BytesReturn == B!BytesReturn
=============================================================================
