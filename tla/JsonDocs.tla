----------------------------- MODULE JsonDocs -----------------------------
(***************************************************************************)
(* JSON values, and the grammar of JSON as the set of texts of each length *)
(* with the value each stands for: what a parser of json.hpp should do.    *)
(***************************************************************************)
EXTENDS Integers, Sequences, SequencesExt

CONSTANTS
    KeyOrder,   \* the strings that occur, in the order of std::map
    Literals,   \* the tokens of numbers, true, false and null
    NoKey       \* the key of an element of an array

Strings == {KeyOrder[i] : i \in DOMAIN KeyOrder}
Scalars == Strings \cup Literals

\* A member of an object, or of an array, which has no key.
Member(k, v) == [key |-> k, val |-> v]
Tree(kind, members) == [kind |-> kind, kids |-> members]
Leaf(token) == Tree(token, <<>>)
Arr(vs) == Tree("array", [i \in DOMAIN vs |-> Member(NoKey, vs[i])])

\* The members in the order of their keys; of equal keys the last one counts.
Obj(ms) ==
    LET keys == SelectSeq(KeyOrder, LAMBDA k : \E i \in DOMAIN ms : ms[i].key = k)
        LastOf(k) == CHOOSE i \in DOMAIN ms :
                       ms[i].key = k /\ \A j \in i + 1 .. Len(ms) : ms[j].key # k
    IN  Tree("object", [n \in DOMAIN keys |-> ms[LastOf(keys[n])]])

\* A text and what it stands for.
Doc(text, meaning) == [text |-> text, value |-> meaning]
Docs1 == {Doc(<<s>>, Leaf(s)) : s \in Scalars}

\* kind, number of tokens |-> the values, and the lists of elements and members
\* without their brackets.
Grammar(max) ==
    LET lists == {"elements", "members"}
        G[n \in 0 .. max] ==
          LET one == IF n = 1 THEN Docs1 ELSE {}
              brackets == IF n < 2 THEN {}
                ELSE {Doc(<<"[">> \o e.text \o <<"]">>, Arr(e.value)) : e \in G[n - 2].elements}
                     \cup {Doc(<<"{">> \o m.text \o <<"}">>, Obj(m.value)) : m \in G[n - 2].members}
              values == one \cup brackets
              empty == IF n = 0 THEN {Doc(<<>>, <<>>)} ELSE {}
              member(k) == IF k < 3 THEN {}
                ELSE {Doc(<<s, ":">> \o d.text, Member(s, d.value)) :
                        s \in Strings, d \in IF k - 2 = n THEN values ELSE G[k - 2].values}
              join(a, b) == {Doc(x.text \o <<",">> \o y.text, Append(x.value, y.value)) :
                               x \in a, y \in b}
              single(S) == {Doc(d.text, <<d.value>>) : d \in S}
          IN  [values |-> values,
               elements |-> empty \cup single(values) \cup
                 UNION {join(G[i].elements, G[n - 1 - i].values) : i \in 1 .. n - 1},
               members |-> empty \cup single(member(n)) \cup
                 UNION {join(G[i].members, member(n - 1 - i)) : i \in 1 .. n - 1}]
    IN  G
=============================================================================
