-------------------------- MODULE JsonParserProofs --------------------------
(***************************************************************************)
(* The handlers of json.hpp build a value with pointers into a memory that *)
(* grows. For any text, any keys and any answers of the callback, their    *)
(* stack agrees with the parser's, their assertions hold, and each pointer *)
(* in the stack leads to the container that was put last into the one      *)
(* below it. The invariant orders the memory: a member comes after the     *)
(* container that holds it, so what is written to a member that waits, or  *)
(* is taken out, never is a container that is still open.                  *)
(***************************************************************************)
EXTENDS JsonParser, TLAPS, FiniteSetTheorems, SequenceTheorems, WellFoundedInduction

-----------------------------------------------------------------------------
(* The inductive invariant.                                                *)

Kinds == Scalars \cup {"object", "array", "null", "discarded"}
Kid == [key : Strings \cup {""}, val : Nat]
Node == [kind : Kinds, kids : Seq(Kid)]

DomFields == {"mem", "root", "refs", "element", "errored", "sound", "go"}
FilterFields == DomFields \cup {"keep", "keyKeep", "refused"}

\* A member comes after the container that holds it.
Members(node, first, last) ==
    \A i \in 1 .. Len(node.kids) : node.kids[i].val \in first .. last
Downwards(mem) == \A n \in 1 .. Len(mem) : Members(mem[n], n + 1, Len(mem))

\* p is a member of node n, and the last one if that is an array.
PutLast(mem, n, p) ==
    \E j \in 1 .. Len(mem[n].kids) : /\ mem[n].kids[j].val = p
                                     /\ mem[n].kind = "array" => j = Len(mem[n].kids)

\* The stack leads from each container that is kept to the one that was put last into it.
Linked(mem, refs) ==
    /\ refs \in Seq(0 .. Len(mem))
    /\ \A i, j \in 1 .. Len(refs) : i < j /\ refs[j] # 0 => refs[i] # 0 /\ refs[i] < refs[j]
    /\ \A i \in 1 .. Len(refs) - 1 : refs[i + 1] # 0 => PutLast(mem, refs[i], refs[i + 1])

Good(s) ==
    /\ DOMAIN s \in {DomFields, FilterFields}
    /\ s.sound = TRUE /\ s.go = TRUE
    /\ s.mem \in Seq(Node) /\ Downwards(s.mem) /\ Linked(s.mem, s.refs)
    /\ IF IsFilter(s) THEN s.keyKeep \in Seq(BOOLEAN)
       ELSE \A i \in 1 .. Len(s.refs) : s.refs[i] # 0

\* The member that gets the next value is there.
Ready(s) ==
    /\ s.refs # <<>>
    /\ IF IsFilter(s)
       THEN /\ s.keyKeep # <<>>
            /\ Last(s.keyKeep) /\ OnTop(s) # 0 => ElementOnTop(s)
       ELSE ElementOnTop(s)

\* The open containers are of these kinds, from the outermost on.
Matches(s, bits) ==
    /\ Len(s.refs) = Len(bits)
    /\ \A i \in 1 .. Len(bits) :
         s.refs[i] # 0 => s.mem[s.refs[i]].kind = IF bits[i] THEN "array" ELSE "object"

Places == {"value", "first key", "first separator", "first element", "evaluate",
           "next", "key", "separator", "strict"}
Over == {"accepted", "error", "stopped"}

\* All open containers: states, and one that is open and not yet in states.
Open(place, bits) ==
    IF place \in {"first key", "first separator"} THEN Append(bits, FALSE)
    ELSE IF place = "first element" THEN Append(bits, TRUE) ELSE bits

Fits(place, bits, s) ==
    /\ bits \in Seq(BOOLEAN) /\ place \in Places \cup Over /\ Good(s)
    /\ place \in Places => Matches(s, Open(place, bits))
    /\ place \in {"next", "key", "separator"} => bits # <<>>
    /\ place \in {"key", "separator"} => ~Last(bits)
    /\ place \in {"first separator", "separator"} => Ready(s)
    /\ place = "value" /\ bits # <<>> => Last(bits) \/ Ready(s)

Inv == Fits(at, states, sax)

-----------------------------------------------------------------------------
(* The memory.                                                             *)

LEMMA Sequence ==
    ASSUME NEW S, NEW q \in Seq(S)
    PROVE  /\ Len(q) \in Nat /\ DOMAIN q = 1 .. Len(q)
           /\ \A i \in 1 .. Len(q) : q[i] \in S
           /\ q # <<>> <=> Len(q) # 0
BY EmptySeq

\* Indices.
LEMMA BelowLast ==
    ASSUME NEW n \in Nat, NEW i \in 1 .. n - 1
    PROVE  i \in 1 .. n /\ i + 1 \in 1 .. n /\ i < i + 1 /\ i < n /\ i # n /\ n \in 1 .. n
OBVIOUS

LEMMA NotLast ==
    ASSUME NEW n \in Nat, NEW i \in 1 .. n, i # n
    PROVE  i \in 1 .. n - 1 /\ i < n /\ i + 1 \in 1 .. n
OBVIOUS

LEMMA NodeFacts ==
    ASSUME NEW mem \in Seq(Node), NEW n \in 1 .. Len(mem)
    PROVE  /\ mem[n].kind \in Kinds /\ mem[n].kids \in Seq(Kid)
           /\ Len(mem[n].kids) \in Nat /\ DOMAIN mem[n].kids = 1 .. Len(mem[n].kids)
           /\ \A i \in 1 .. Len(mem[n].kids) : mem[n].kids[i].val \in Nat
<1>1. mem[n] \in Node
  BY Sequence
<1>2. mem[n].kind \in Kinds /\ mem[n].kids \in Seq(Kid)
  BY <1>1 DEF Node
<1>3. \A i \in 1 .. Len(mem[n].kids) : mem[n].kids[i] \in Kid
  BY <1>2, Sequence
<1> QED BY <1>2, <1>3, Sequence DEF Kid

\* A node takes the place of another.
LEMMA SetNode ==
    ASSUME NEW mem \in Seq(Node), Downwards(mem), NEW e \in 1 .. Len(mem), NEW node \in Node,
           Members(node, e + 1, Len(mem))
    PROVE  LET new == [mem EXCEPT ![e] = node]
           IN  /\ new \in Seq(Node) /\ Downwards(new) /\ Len(new) = Len(mem)
               /\ new[e] = node
               /\ \A n \in 1 .. Len(mem) : n # e => new[n] = mem[n]
<1> DEFINE new == [mem EXCEPT ![e] = node]
<1>1. DOMAIN mem = 1 .. Len(mem) /\ Len(mem) \in Nat
  BY Sequence
<1>2. new[e] = node /\ \A n \in 1 .. Len(mem) : n # e => new[n] = mem[n]
  BY <1>1
<1>3. new \in Seq(Node) /\ Len(new) = Len(mem)
  BY ExceptSeq
<1> HIDE DEF new
<1>4. ASSUME NEW n \in 1 .. Len(new), NEW i \in 1 .. Len(new[n].kids)
      PROVE  new[n].kids[i].val \in n + 1 .. Len(new)
  <2>1. CASE n = e
    BY <2>1, <1>2, <1>3, <1>4 DEF Members
  <2>2. CASE n # e
    BY <2>2, <1>2, <1>3, <1>4 DEF Downwards, Members
  <2> QED BY <2>1, <2>2
<1>5. Downwards(new)
  BY <1>4 DEF Downwards, Members
<1>6. new \in Seq(Node) /\ Downwards(new) /\ Len(new) = Len(mem) /\ new[e] = node
      /\ \A n \in 1 .. Len(mem) : n # e => new[n] = mem[n]
  BY <1>2, <1>3, <1>5
<1> QED BY <1>6 DEF new

\* A leaf has no members; a node that gets others keeps its kind.
LEMMA Leaves ==
    ASSUME NEW kind \in Kinds
    PROVE  /\ Tree(kind, <<>>) \in Node /\ Len(Tree(kind, <<>>).kids) = 0
           /\ Tree(kind, <<>>).kind = kind /\ Leaf(kind) = Tree(kind, <<>>)
BY EmptySeq DEF Tree, Node, Leaf

LEMMA OtherKids ==
    ASSUME NEW node \in Node, NEW kids \in Seq(Kid)
    PROVE  /\ [node EXCEPT !.kids = kids] \in Node
           /\ [node EXCEPT !.kids = kids].kind = node.kind
           /\ [node EXCEPT !.kids = kids].kids = kids
BY DEF Node

\* A node is added that nothing points to yet.
LEMMA NewNode ==
    ASSUME NEW mem \in Seq(Node), Downwards(mem), NEW kind \in Kinds
    PROVE  LET new == Append(mem, Tree(kind, <<>>))
           IN  /\ new \in Seq(Node) /\ Downwards(new) /\ Len(new) = Len(mem) + 1
               /\ new[Len(mem) + 1] = Tree(kind, <<>>)
               /\ \A n \in 1 .. Len(mem) : new[n] = mem[n]
<1> DEFINE new == Append(mem, Tree(kind, <<>>))
<1>1. Tree(kind, <<>>) \in Node /\ Len(Tree(kind, <<>>).kids) = 0
  BY Leaves
<1>2. /\ new \in Seq(Node) /\ Len(new) = Len(mem) + 1 /\ Len(mem) \in Nat
      /\ new[Len(mem) + 1] = Tree(kind, <<>>)
      /\ \A n \in 1 .. Len(mem) : new[n] = mem[n]
  BY <1>1, AppendProperties, Sequence
<1> HIDE DEF new
<1>3. ASSUME NEW n \in 1 .. Len(new), NEW i \in 1 .. Len(new[n].kids)
      PROVE  new[n].kids[i].val \in n + 1 .. Len(new)
  <2>1. n # Len(mem) + 1
    BY <1>1, <1>2
  <2>2. n \in 1 .. Len(mem) /\ new[n] = mem[n]
    BY <1>2, <2>1
  <2>3. mem[n].kids[i].val \in n + 1 .. Len(mem)
    BY <1>3, <2>2 DEF Downwards, Members
  <2> QED BY <1>2, <2>2, <2>3
<1>4. Downwards(new)
  BY <1>3 DEF Downwards, Members
<1>5. new \in Seq(Node) /\ Downwards(new) /\ Len(new) = Len(mem) + 1
      /\ new[Len(mem) + 1] = Tree(kind, <<>>)
      /\ \A n \in 1 .. Len(mem) : new[n] = mem[n]
  BY <1>2, <1>4
<1> QED BY <1>5 DEF new

-----------------------------------------------------------------------------
(* The stack.                                                              *)

LEMMA FrontGives ==
    ASSUME NEW S, NEW q \in Seq(S), q # <<>>
    PROVE  /\ Front1(q) \in Seq(S) /\ Len(Front1(q)) = Len(q) - 1
           /\ \A i \in 1 .. Len(q) - 1 : Front1(q)[i] = q[i]
<1>1. Len(q) \in Nat /\ Len(q) # 0
  BY Sequence
<1>2. 1 .. Len(q) - 1 \subseteq 1 .. Len(q) /\ Len(q) - 1 \in Nat
  BY <1>1
<1>3. Front1(q) = [i \in 1 .. Len(q) - 1 |-> q[i]]
  BY <1>1 DEF Front1
<1>4. \A i \in 1 .. Len(q) - 1 : q[i] \in S
  BY <1>2, Sequence
<1> QED BY <1>1, <1>2, <1>3, <1>4

\* A stack stays linked while what is below its top is left alone.
LEMMA StaysLinked ==
    ASSUME NEW mem \in Seq(Node), NEW refs, Linked(mem, refs),
           NEW new \in Seq(Node), Len(mem) <= Len(new),
           \A i \in 1 .. Len(refs) - 1 : refs[i] # 0 => new[refs[i]] = mem[refs[i]]
    PROVE  Linked(new, refs)
<1>1. refs \in Seq(0 .. Len(mem)) /\ Len(mem) \in Nat /\ Len(new) \in Nat
  BY Sequence DEF Linked
<1>2. \A i \in 1 .. Len(refs) : refs[i] \in 0 .. Len(mem)
  BY <1>1, Sequence
<1>3. refs \in Seq(0 .. Len(new))
  <2>1. \A i \in 1 .. Len(refs) : refs[i] \in 0 .. Len(new)
    BY <1>1, <1>2
  <2>2. refs = [i \in 1 .. Len(refs) |-> refs[i]] /\ Len(refs) \in Nat
    BY <1>1
  <2> QED BY <2>1, <2>2
<1>4. ASSUME NEW i \in 1 .. Len(refs) - 1, refs[i + 1] # 0
      PROVE  PutLast(new, refs[i], refs[i + 1])
  <2>1. i \in 1 .. Len(refs) /\ i + 1 \in 1 .. Len(refs) /\ i < i + 1
    BY <1>1, Sequence
  <2>2. refs[i] # 0
    BY <1>4, <2>1 DEF Linked
  <2>3. new[refs[i]] = mem[refs[i]]
    BY <2>2
  <2>4. PutLast(mem, refs[i], refs[i + 1])
    BY <1>4 DEF Linked
  <2> QED BY <2>3, <2>4 DEF PutLast
<1> QED BY <1>3, <1>4 DEF Linked

LEMMA PopLinked ==
    ASSUME NEW mem \in Seq(Node), NEW refs, Linked(mem, refs), refs # <<>>
    PROVE  Linked(mem, Front1(refs))
<1>1. refs \in Seq(0 .. Len(mem)) /\ Len(refs) \in Nat
  BY Sequence DEF Linked
<1>2. /\ Front1(refs) \in Seq(0 .. Len(mem)) /\ Len(Front1(refs)) = Len(refs) - 1
      /\ \A i \in 1 .. Len(refs) - 1 : Front1(refs)[i] = refs[i]
  BY <1>1, FrontGives
<1>3. ASSUME NEW i \in 1 .. Len(Front1(refs)), NEW j \in 1 .. Len(Front1(refs)),
             i < j, Front1(refs)[j] # 0
      PROVE  Front1(refs)[i] # 0 /\ Front1(refs)[i] < Front1(refs)[j]
  <2>1. /\ Front1(refs)[i] = refs[i] /\ Front1(refs)[j] = refs[j]
        /\ i \in 1 .. Len(refs) /\ j \in 1 .. Len(refs)
    <3>1. i \in 1 .. Len(refs) - 1 /\ j \in 1 .. Len(refs) - 1
      BY <1>2
    <3> QED BY <1>1, <1>2, <3>1, BelowLast
  <2> QED BY <1>3, <2>1 DEF Linked
<1>4. ASSUME NEW i \in 1 .. Len(Front1(refs)) - 1, Front1(refs)[i + 1] # 0
      PROVE  PutLast(mem, Front1(refs)[i], Front1(refs)[i + 1])
  <2>1. /\ Front1(refs)[i] = refs[i] /\ Front1(refs)[i + 1] = refs[i + 1]
        /\ i \in 1 .. Len(refs) - 1
    <3>1. Len(refs) - 1 \in Nat /\ i \in 1 .. Len(refs) - 1 - 1
      BY <1>1, <1>2
    <3>2. i \in 1 .. Len(refs) - 1 /\ i + 1 \in 1 .. Len(refs) - 1
      BY <3>1, BelowLast
    <3> QED BY <1>2, <3>2
  <2> QED BY <1>4, <2>1 DEF Linked
<1> QED BY <1>2, <1>3, <1>4 DEF Linked

\* A container may be pushed if it was put last into the one on top.
Pushable(mem, refs, p) ==
    \/ p = 0
    \/ p \in 1 .. Len(mem) /\ refs = <<>>
    \/ p \in 1 .. Len(mem) /\ refs # <<>> /\ Last(refs) # 0 /\ PutLast(mem, Last(refs), p)

LEMMA PushLinked ==
    ASSUME NEW mem \in Seq(Node), Downwards(mem), NEW refs, Linked(mem, refs),
           NEW p, Pushable(mem, refs, p)
    PROVE  /\ Linked(mem, Append(refs, p)) /\ Len(Append(refs, p)) = Len(refs) + 1
           /\ Append(refs, p)[Len(refs) + 1] = p
           /\ \A i \in 1 .. Len(refs) : Append(refs, p)[i] = refs[i]
<1> DEFINE new == Append(refs, p)
           n == Len(refs)
<1>1. refs \in Seq(0 .. Len(mem)) /\ n \in Nat /\ Len(mem) \in Nat
      /\ \A i \in 1 .. n : refs[i] \in 0 .. Len(mem)
  BY Sequence DEF Linked
<1>2. p \in 0 .. Len(mem)
  BY <1>1 DEF Pushable
<1>3. /\ new \in Seq(0 .. Len(mem)) /\ Len(new) = n + 1 /\ new[n + 1] = p
      /\ \A i \in 1 .. n : new[i] = refs[i]
  BY <1>1, <1>2, AppendProperties
<1>4. p # 0 /\ n # 0 => refs[n] # 0 /\ PutLast(mem, refs[n], p) /\ refs[n] < p
  <2>1. SUFFICES ASSUME p # 0, n # 0 PROVE refs[n] # 0 /\ PutLast(mem, refs[n], p) /\ refs[n] < p
    OBVIOUS
  <2>2. refs # <<>> /\ Last(refs) = refs[n] /\ n \in 1 .. n
    BY <1>1, <2>1, EmptySeq DEF Last
  <2>3. refs[n] # 0 /\ PutLast(mem, refs[n], p)
    BY <2>1, <2>2 DEF Pushable
  <2>4. refs[n] \in 1 .. Len(mem)
    BY <1>1, <2>2, <2>3
  <2>5. PICK j \in 1 .. Len(mem[refs[n]].kids) : mem[refs[n]].kids[j].val = p
    BY <2>3 DEF PutLast
  <2>6. p \in refs[n] + 1 .. Len(mem)
    BY <2>4, <2>5 DEF Downwards, Members
  <2> QED BY <2>3, <2>4, <2>6
<1> HIDE DEF new
<1>5. ASSUME NEW i \in 1 .. Len(new), NEW j \in 1 .. Len(new), i < j, new[j] # 0
      PROVE  new[i] # 0 /\ new[i] < new[j]
  <2>1. i \in 1 .. n /\ new[i] = refs[i]
    <3>1. i \in 1 .. n + 1 /\ i # n + 1
      BY <1>1, <1>3, <1>5
    <3>2. i \in 1 .. n
      BY <1>1, <3>1
    <3> QED BY <1>3, <3>2
  <2>2. CASE j \in 1 .. n
    BY <1>3, <1>5, <2>1, <2>2 DEF Linked
  <2>3. CASE j = n + 1
    <3>1. refs[n] # 0 /\ refs[n] < p /\ n \in 1 .. n
      BY <1>1, <1>3, <1>4, <1>5, <2>1, <2>3
    <3>2. CASE i = n
      BY <1>3, <2>1, <2>3, <3>1, <3>2
    <3>3. CASE i # n
      <4>1. i < n
        BY <1>1, <2>1, <3>3
      <4>2. refs[i] # 0 /\ refs[i] < refs[n]
        BY <2>1, <3>1, <4>1 DEF Linked
      <4>3. refs[i] \in Nat /\ refs[n] \in Nat /\ p \in Nat
        BY <1>1, <1>2, <2>1, <3>1
      <4>4. refs[i] < p
        BY <3>1, <4>2, <4>3
      <4> QED BY <1>3, <2>1, <2>3, <4>2, <4>4
    <3> QED BY <3>2, <3>3
  <2> QED BY <1>1, <1>3, <2>2, <2>3
<1>6. ASSUME NEW i \in 1 .. Len(new) - 1, new[i + 1] # 0
      PROVE  PutLast(mem, new[i], new[i + 1])
  <2>1. i \in 1 .. n /\ new[i] = refs[i]
    BY <1>1, <1>3
  <2>2. CASE i = n
    BY <1>3, <1>4, <1>6, <2>1, <2>2
  <2>3. CASE i # n
    <3>1. i \in 1 .. n - 1 /\ i + 1 \in 1 .. n
      BY <1>1, <2>1, <2>3, NotLast
    <3>2. new[i + 1] = refs[i + 1]
      BY <1>3, <3>1
    <3> QED BY <1>6, <2>1, <3>1, <3>2 DEF Linked
  <2> QED BY <2>2, <2>3
<1>7. Linked(mem, new)
  BY <1>3, <1>5, <1>6 DEF Linked
<1> QED BY <1>3, <1>7 DEF new

\* Nothing that is open comes after the top of the stack.
LEMMA BelowTop ==
    ASSUME NEW mem \in Seq(Node), NEW refs, Linked(mem, refs), refs # <<>>, Last(refs) # 0
    PROVE  /\ Last(refs) \in 1 .. Len(mem) /\ Last(refs) = refs[Len(refs)]
           /\ Len(refs) \in 1 .. Len(refs)
           /\ \A i \in 1 .. Len(refs) - 1 : refs[i] \in 1 .. Last(refs) - 1
           /\ \A i \in 1 .. Len(refs) : refs[i] \in 1 .. Len(mem)
<1>1. refs \in Seq(0 .. Len(mem)) /\ Len(refs) \in Nat /\ Len(refs) # 0 /\ Len(mem) \in Nat
      /\ \A i \in 1 .. Len(refs) : refs[i] \in 0 .. Len(mem)
  BY Sequence DEF Linked
<1>2. Last(refs) = refs[Len(refs)] /\ Len(refs) \in 1 .. Len(refs)
  BY <1>1 DEF Last
<1>3. Last(refs) \in 1 .. Len(mem)
  BY <1>1, <1>2
<1>4. ASSUME NEW i \in 1 .. Len(refs) - 1
      PROVE  refs[i] \in 1 .. Last(refs) - 1
  <2>1. i \in 1 .. Len(refs) /\ i < Len(refs)
    BY <1>1
  <2>2. refs[i] # 0 /\ refs[i] < refs[Len(refs)]
    BY <1>2, <2>1 DEF Linked
  <2> QED BY <1>1, <1>2, <1>3, <2>1, <2>2
<1>5. ASSUME NEW i \in 1 .. Len(refs)
      PROVE  refs[i] \in 1 .. Len(mem)
  BY <1>1, <1>2, <1>3, <1>4
<1> QED BY <1>2, <1>3, <1>4, <1>5

-----------------------------------------------------------------------------
(* Values.                                                                 *)

\* The stack stays as it is, and so do the kinds of what is on it.
Like(s, t) ==
    /\ DOMAIN t = DOMAIN s /\ t.refs = s.refs
    /\ \A i \in 1 .. Len(s.refs) : s.refs[i] # 0 => t.mem[s.refs[i]].kind = s.mem[s.refs[i]].kind

\* A value of that kind is where the handler says.
Placed(s, t, p, kind) ==
    /\ Good(t) /\ Like(s, t) /\ Pushable(t.mem, t.refs, p)
    /\ p # 0 => t.mem[p].kind = kind

\* A value may come: somewhere to put it is there.
CanTake(s) == s.refs = <<>> \/ OnTop(s) = 0 \/ Top(s).kind = "array" \/ Ready(s)

LEMMA GoodFields ==
    ASSUME NEW s, Good(s)
    PROVE  /\ DOMAIN s = IF IsFilter(s) THEN FilterFields ELSE DomFields
           /\ "mem" \in DOMAIN s /\ "refs" \in DOMAIN s /\ "element" \in DOMAIN s
           /\ "root" \in DOMAIN s /\ "sound" \in DOMAIN s /\ "go" \in DOMAIN s
           /\ "errored" \in DOMAIN s
           /\ IsFilter(s) => /\ "keyKeep" \in DOMAIN s /\ "keep" \in DOMAIN s
                             /\ "refused" \in DOMAIN s
           /\ Len(s.mem) \in Nat /\ Len(s.refs) \in Nat
           /\ s.refs \in Seq(0 .. Len(s.mem))
           /\ s.refs # <<>> <=> Len(s.refs) # 0
           /\ OnTop(s) = IF s.refs = <<>> THEN 0 ELSE Last(s.refs)
<1>1. "keep" \in FilterFields /\ "keep" \notin DomFields
  BY DEF FilterFields, DomFields
<1>2. DOMAIN s = IF IsFilter(s) THEN FilterFields ELSE DomFields
  BY <1>1 DEF Good, IsFilter
<1>3. DomFields \subseteq DOMAIN s /\ (IsFilter(s) => FilterFields \subseteq DOMAIN s)
  BY <1>2 DEF FilterFields
<1>4. /\ "mem" \in DOMAIN s /\ "refs" \in DOMAIN s /\ "element" \in DOMAIN s
      /\ "root" \in DOMAIN s /\ "sound" \in DOMAIN s /\ "go" \in DOMAIN s
      /\ "errored" \in DOMAIN s
  BY <1>3 DEF DomFields
<1>5. IsFilter(s) => "keyKeep" \in DOMAIN s /\ "keep" \in DOMAIN s /\ "refused" \in DOMAIN s
  BY <1>3 DEF FilterFields
<1>6. /\ Len(s.mem) \in Nat /\ Len(s.refs) \in Nat /\ s.refs \in Seq(0 .. Len(s.mem))
      /\ (s.refs # <<>> <=> Len(s.refs) # 0)
  BY Sequence DEF Good, Linked
<1> QED BY <1>2, <1>4, <1>5, <1>6 DEF OnTop

\* A handler with a container on top.
LEMMA TopFacts ==
    ASSUME NEW s, Good(s), s.refs # <<>>, Last(s.refs) # 0
    PROVE  /\ Last(s.refs) \in 1 .. Len(s.mem) /\ Last(s.refs) = s.refs[Len(s.refs)]
           /\ Len(s.refs) \in 1 .. Len(s.refs) /\ OnTop(s) = Last(s.refs)
           /\ \A i \in 1 .. Len(s.refs) - 1 : s.refs[i] \in 1 .. Last(s.refs) - 1
           /\ \A i \in 1 .. Len(s.refs) : s.refs[i] \in 1 .. Len(s.mem)
           /\ s.mem[Last(s.refs)].kids \in Seq(Kid)
           /\ \A i \in 1 .. Len(s.mem[Last(s.refs)].kids) :
                s.mem[Last(s.refs)].kids[i].val \in Last(s.refs) + 1 .. Len(s.mem)
<1>1. s.mem \in Seq(Node) /\ Linked(s.mem, s.refs) /\ Downwards(s.mem)
  BY DEF Good
<1>2. /\ Last(s.refs) \in 1 .. Len(s.mem) /\ Last(s.refs) = s.refs[Len(s.refs)]
      /\ Len(s.refs) \in 1 .. Len(s.refs)
      /\ \A i \in 1 .. Len(s.refs) - 1 : s.refs[i] \in 1 .. Last(s.refs) - 1
      /\ \A i \in 1 .. Len(s.refs) : s.refs[i] \in 1 .. Len(s.mem)
  BY <1>1, BelowTop
<1>3. /\ s.mem[Last(s.refs)].kids \in Seq(Kid)
      /\ \A i \in 1 .. Len(s.mem[Last(s.refs)].kids) :
           s.mem[Last(s.refs)].kids[i].val \in Last(s.refs) + 1 .. Len(s.mem)
  BY <1>1, <1>2, NodeFacts DEF Downwards, Members
<1> QED BY <1>2, <1>3, GoodFields

LEMMA AttachedPlaced ==
    ASSUME NEW s, Good(s), NEW kind \in Kinds,
           s.refs = <<>> \/ (s.refs # <<>> /\ Last(s.refs) # 0)
    PROVE  Placed(s, Attached(s, kind), Len(s.mem) + 1, kind)
<1> DEFINE m == s.mem
           p == Len(m) + 1
           m1 == Append(m, Tree(kind, <<>>))
           t == Attached(s, kind)
<1>1. m \in Seq(Node) /\ Linked(m, s.refs) /\ Downwards(m) /\ Len(m) \in Nat /\ p \in Nat
  BY Sequence DEF Good
<1>2. /\ m1 \in Seq(Node) /\ Downwards(m1) /\ Len(m1) = p /\ m1[p] = Tree(kind, <<>>)
      /\ \A n \in 1 .. Len(m) : m1[n] = m[n]
  BY <1>1, NewNode
<1> HIDE DEF m1
<1>3. CASE s.refs = <<>>
  <2>1. t = [s EXCEPT !.mem = m1, !.root = p]
    BY <1>3 DEF Attached, m1
  <2>2. DOMAIN t = DOMAIN s /\ t.mem = m1 /\ t.refs = s.refs /\ t.sound = s.sound /\ t.go = s.go
        /\ (IsFilter(s) => t.keyKeep = s.keyKeep)
    BY <2>1, GoodFields
  <2>3. Len(s.refs) = 0
    BY <1>3, GoodFields
  <2> HIDE DEF t
  <2>4. Linked(m1, s.refs)
    <3>1. \A i \in 1 .. Len(s.refs) - 1 : s.refs[i] # 0 => m1[s.refs[i]] = m[s.refs[i]]
      BY <2>3
    <3>2. Len(m) <= Len(m1)
      BY <1>1, <1>2
    <3> HIDE DEF m
    <3> QED BY <1>1, <1>2, <3>1, <3>2, StaysLinked
  <2>5. Good(t)
    BY <1>2, <2>2, <2>4 DEF Good, IsFilter
  <2>6. Like(s, t)
    BY <2>2, <2>3 DEF Like
  <2>7. Pushable(t.mem, t.refs, p) /\ t.mem[p].kind = kind
    BY <1>1, <1>2, <1>3, <2>2 DEF Pushable, Tree
  <2> QED BY <2>5, <2>6, <2>7 DEF Placed, t
<1>4. CASE s.refs # <<>> /\ Last(s.refs) # 0
  <2> DEFINE top == Last(s.refs)
             kids == Append(m1[top].kids, Member("", p))
             node == [m1[top] EXCEPT !.kids = kids]
             m2 == [m1 EXCEPT ![top] = node]
  <2>1. /\ top \in 1 .. Len(m) /\ \A i \in 1 .. Len(s.refs) - 1 : s.refs[i] \in 1 .. top - 1
        /\ \A i \in 1 .. Len(s.refs) : s.refs[i] \in 1 .. Len(m)
        /\ top = s.refs[Len(s.refs)] /\ Len(s.refs) \in 1 .. Len(s.refs)
    BY <1>4, TopFacts
  <2>2. m1[top] = m[top] /\ m[top].kids \in Seq(Kid) /\ top \in 1 .. Len(m1)
        /\ (\A i \in 1 .. Len(m[top].kids) : m[top].kids[i].val \in top + 1 .. Len(m))
    <3>1. m[top].kids \in Seq(Kid)
          /\ (\A i \in 1 .. Len(m[top].kids) : m[top].kids[i].val \in top + 1 .. Len(m))
      BY <1>4, TopFacts
    <3>2. top \in 1 .. Len(m1)
      <4> HIDE DEF m, top, m1
      <4> QED BY <1>1, <1>2, <2>1 DEF p
    <3> QED BY <1>2, <2>1, <3>1, <3>2
  <2>3. Member("", p) \in Kid /\ Member("", p).val = p
    BY <1>1 DEF Member, Kid
  <2>4. /\ kids \in Seq(Kid) /\ Len(kids) = Len(m[top].kids) + 1 /\ Len(m[top].kids) \in Nat
        /\ kids[Len(kids)].val = p
        /\ \A i \in 1 .. Len(m[top].kids) : kids[i] = m[top].kids[i]
    <3>1. kids = Append(m[top].kids, Member("", p))
      BY <2>2
    <3> DEFINE old == m[top].kids
               new == Member("", p)
    <3>2. old \in Seq(Kid) /\ new \in Kid /\ Len(old) \in Nat /\ new.val = p
      BY <2>2, <2>3, Sequence
    <3> HIDE DEF kids, old, new
    <3>3. /\ Append(old, new) \in Seq(Kid) /\ Len(Append(old, new)) = Len(old) + 1
          /\ Append(old, new)[Len(old) + 1] = new
          /\ \A i \in 1 .. Len(old) : Append(old, new)[i] = old[i]
      BY <3>2, AppendProperties
    <3>4. kids = Append(old, new)
      BY <3>1 DEF old, new
    <3> QED BY <3>2, <3>3, <3>4 DEF old
  <2> HIDE DEF top, kids
  <2>5. \A i \in 1 .. Len(kids) : kids[i].val \in top + 1 .. Len(m1)
    <3>1. SUFFICES ASSUME NEW i \in 1 .. Len(kids) PROVE kids[i].val \in top + 1 .. Len(m1)
      OBVIOUS
    <3>2. CASE i = Len(kids)
      <4>1. p \in top + 1 .. p
        BY <1>1, <2>1
      <4> QED BY <1>2, <2>4, <3>2, <4>1
    <3>3. CASE i # Len(kids)
      <4>1. i \in 1 .. Len(m[top].kids)
        BY <2>4, <3>3
      <4>2. kids[i].val \in top + 1 .. Len(m)
        BY <2>2, <2>4, <4>1
      <4> QED BY <1>1, <1>2, <2>1, <4>2
    <3> QED BY <3>2, <3>3
  <2>6. /\ m2 \in Seq(Node) /\ Downwards(m2) /\ Len(m2) = p
        /\ m2[top].kind = m[top].kind /\ m2[top].kids = kids
        /\ \A n \in 1 .. Len(m1) : n # top => m2[n] = m1[n]
    <3>1. m1[top] \in Node
      BY <1>2, <2>2, Sequence
    <3>2. node \in Node /\ node.kind = m1[top].kind /\ node.kids = kids
      BY <2>4, <3>1, OtherKids
    <3> HIDE DEF node, m, p
    <3>3. Members(node, top + 1, Len(m1))
      BY <2>5, <3>2 DEF Members
    <3>4. m1 \in Seq(Node) /\ Downwards(m1) /\ top \in 1 .. Len(m1)
      BY <1>2, <2>2
    <3>5. /\ m2 \in Seq(Node) /\ Downwards(m2) /\ Len(m2) = Len(m1) /\ m2[top] = node
          /\ \A n \in 1 .. Len(m1) : n # top => m2[n] = m1[n]
      BY <3>2, <3>3, <3>4, SetNode
    <3> QED BY <1>2, <2>2, <3>2, <3>5
  <2>7. t = [s EXCEPT !.mem = m2]
    BY <1>4 DEF Attached, m1, top, kids
  <2> HIDE DEF m2
  <2>8. DOMAIN t = DOMAIN s /\ t.mem = m2 /\ t.refs = s.refs /\ t.sound = s.sound /\ t.go = s.go
        /\ (IsFilter(s) => t.keyKeep = s.keyKeep)
    BY <2>7, GoodFields
  <2> HIDE DEF t
  <2>9. \A n \in 1 .. Len(m) : n # top => m2[n] = m[n]
    BY <1>1, <1>2, <2>6
  <2>10. Linked(m2, s.refs)
    <3>1. \A i \in 1 .. Len(s.refs) - 1 : s.refs[i] # 0 => m2[s.refs[i]] = m[s.refs[i]]
      <4>1. \A i \in 1 .. Len(s.refs) - 1 : s.refs[i] \in 1 .. Len(m) /\ s.refs[i] # top
        BY <1>1, <2>1
      <4> QED BY <2>9, <4>1
    <3>2. Len(m) <= Len(m2)
      BY <1>1, <2>6
    <3> HIDE DEF m
    <3> QED BY <1>1, <2>6, <3>1, <3>2, StaysLinked
  <2>11. Good(t)
    BY <2>6, <2>8, <2>10 DEF Good, IsFilter
  <2>12. Like(s, t)
    <3>1. ASSUME NEW i \in 1 .. Len(s.refs) PROVE m2[s.refs[i]].kind = m[s.refs[i]].kind
      BY <2>1, <2>6, <2>9
    <3> QED BY <2>8, <3>1 DEF Like
  <2>13. PutLast(m2, top, p)
    <3>1. Len(kids) \in 1 .. Len(kids)
      BY <2>4
    <3> QED BY <2>4, <2>6, <3>1 DEF PutLast
  <2>14. m2[p] = Tree(kind, <<>>)
    <3>1. p \in 1 .. p /\ p # top
      BY <1>1, <2>1
    <3> QED BY <1>2, <2>6, <3>1
  <2>15. Pushable(t.mem, t.refs, p) /\ t.mem[p].kind = kind
    BY <1>1, <1>4, <2>1, <2>6, <2>8, <2>13, <2>14 DEF Pushable, Tree, top
  <2> QED BY <2>11, <2>12, <2>15 DEF Placed, t
<1> QED BY <1>3, <1>4

\* The member that waits is written.
LEMMA ElementWritten ==
    ASSUME NEW s, Good(s), s.refs # <<>>, Last(s.refs) # 0, ElementOnTop(s), NEW kind \in Kinds
    PROVE  LET new == [s.mem EXCEPT ![s.element] = Tree(kind, <<>>)]
           IN  /\ new \in Seq(Node) /\ Downwards(new) /\ Linked(new, s.refs)
               /\ Pushable(new, s.refs, s.element) /\ new[s.element].kind = kind
               /\ s.element # 0
               /\ \A i \in 1 .. Len(s.refs) : new[s.refs[i]] = s.mem[s.refs[i]]
<1> DEFINE m == s.mem
           top == Last(s.refs)
           e == s.element
           new == [m EXCEPT ![e] = Tree(kind, <<>>)]
<1>1. m \in Seq(Node) /\ Linked(m, s.refs) /\ Downwards(m) /\ Len(m) \in Nat
  BY Sequence DEF Good
<1>2. /\ top \in 1 .. Len(m) /\ \A i \in 1 .. Len(s.refs) - 1 : s.refs[i] \in 1 .. top - 1
      /\ \A i \in 1 .. Len(s.refs) : s.refs[i] \in 1 .. Len(m)
      /\ top = s.refs[Len(s.refs)] /\ Len(s.refs) \in 1 .. Len(s.refs)
      /\ m[top].kids \in Seq(Kid)
      /\ \A i \in 1 .. Len(m[top].kids) : m[top].kids[i].val \in top + 1 .. Len(m)
  BY TopFacts
<1>3. PICK j \in 1 .. Len(m[top].kids) : m[top].kids[j].val = e
  BY <1>2, Sequence DEF ElementOnTop, Top
<1>4. m[top].kind = "object"
  BY DEF ElementOnTop, Top
<1>5. e \in top + 1 .. Len(m) /\ e \in 1 .. Len(m) /\ e # 0
  <2>1. e \in top + 1 .. Len(m) /\ top \in 1 .. Len(m)
    BY <1>2, <1>3
  <2> HIDE DEF e, top, m
  <2> QED BY <1>1, <2>1
<1>6. /\ new \in Seq(Node) /\ Downwards(new) /\ Len(new) = Len(m) /\ new[e] = Tree(kind, <<>>)
      /\ \A n \in 1 .. Len(m) : n # e => new[n] = m[n]
  <2>1. /\ Tree(kind, <<>>) \in Node
        /\ Members(Tree(kind, <<>>), e + 1, Len(m))
    BY Leaves DEF Members
  <2> HIDE DEF m, e
  <2> QED BY <1>1, <1>5, <2>1, SetNode
<1> HIDE DEF new
<1>7. \A i \in 1 .. Len(s.refs) : s.refs[i] # e
  <2>1. SUFFICES ASSUME NEW i \in 1 .. Len(s.refs), s.refs[i] = e PROVE FALSE
    OBVIOUS
  <2>2. CASE i = Len(s.refs)
    <3>1. e = top /\ top \in 1 .. Len(m)
      BY <1>2, <2>1, <2>2
    <3> HIDE DEF e, top, m
    <3> QED BY <1>1, <1>5, <3>1
  <2>3. CASE i # Len(s.refs)
    <3>1. i \in 1 .. Len(s.refs) - 1
      BY <2>3, GoodFields, NotLast
    <3>2. e \in 1 .. top - 1 /\ top \in 1 .. Len(m)
      BY <1>2, <2>1, <3>1
    <3> HIDE DEF e, top, m
    <3> QED BY <1>1, <1>5, <3>2
  <2> QED BY <2>2, <2>3
<1>8. \A i \in 1 .. Len(s.refs) : new[s.refs[i]] = m[s.refs[i]]
  BY <1>2, <1>6, <1>7
<1>9. Linked(new, s.refs)
  <2>1. \A i \in 1 .. Len(s.refs) - 1 : s.refs[i] # 0 => new[s.refs[i]] = m[s.refs[i]]
    <3>1. \A i \in 1 .. Len(s.refs) - 1 : i \in 1 .. Len(s.refs)
      BY GoodFields, BelowLast
    <3> QED BY <1>8, <3>1
  <2>2. Len(m) <= Len(new)
    BY <1>1, <1>6
  <2> HIDE DEF m
  <2> QED BY <1>1, <1>6, <2>1, <2>2, StaysLinked
<1>10. PutLast(new, top, e)
  <2>1. new[top] = m[top]
    BY <1>2, <1>8
  <2> QED BY <2>1, <1>3, <1>4 DEF PutLast
<1>11. Pushable(new, s.refs, e) /\ new[e].kind = kind
  BY <1>5, <1>6, <1>10 DEF Pushable, Tree
<1> QED BY <1>5, <1>6, <1>8, <1>9, <1>11 DEF new

-----------------------------------------------------------------------------
(* Keys.                                                                   *)

LEMMA Inserted ==
    ASSUME NEW q \in Seq(Kid), NEW k \in 1 .. Len(q) + 1, NEW e \in Kid
    PROVE  /\ InsertAt(q, k, e) \in Seq(Kid)
           /\ \E j \in 1 .. Len(InsertAt(q, k, e)) : InsertAt(q, k, e)[j] = e
           /\ \A j \in 1 .. Len(InsertAt(q, k, e)) :
                \/ InsertAt(q, k, e)[j] = e
                \/ \E n \in 1 .. Len(q) : InsertAt(q, k, e)[j] = q[n]
<1> DEFINE a == SubSeq(q, 1, k - 1)
           b == SubSeq(q, k, Len(q))
           x == a \o <<e>>
           y == x \o b
<1>1. Len(q) \in Nat /\ k \in Nat /\ k - 1 \in Nat /\ \A j \in 1 .. Len(q) : q[j] \in Kid
  BY Sequence
<1>2. /\ a = [j \in 1 .. k - 1 |-> q[j]] /\ Len(a) = k - 1
      /\ \A j \in 1 .. k - 1 : a[j] = q[j] /\ j \in 1 .. Len(q)
  BY <1>1
<1>3. a \in Seq(Kid)
  BY <1>1, <1>2
<1>4. /\ b = [j \in 1 .. Len(q) - k + 1 |-> q[k + j - 1]] /\ Len(b) = Len(q) - k + 1
      /\ \A j \in 1 .. Len(q) - k + 1 : b[j] = q[k + j - 1] /\ k + j - 1 \in 1 .. Len(q)
  BY <1>1
<1>5. b \in Seq(Kid)
  <2>1. Len(q) - k + 1 \in Nat
    BY <1>1
  <2> QED BY <1>1, <1>4, <2>1
<1> HIDE DEF a, b
<1>6. x \in Seq(Kid) /\ Len(x) = k /\ x[k] = e /\ \A j \in 1 .. k - 1 : x[j] = q[j]
  BY <1>1, <1>2, <1>3
<1> HIDE DEF x
<1>7. /\ y \in Seq(Kid) /\ Len(y) = Len(q) + 1
      /\ \A j \in 1 .. k : y[j] = x[j]
      /\ \A j \in k + 1 .. Len(q) + 1 : y[j] = b[j - k] /\ j - k \in 1 .. Len(q) - k + 1
  <2>1. /\ y \in Seq(Kid) /\ Len(y) = Len(x) + Len(b)
        /\ \A j \in 1 .. Len(x) + Len(b) : y[j] = IF j <= Len(x) THEN x[j] ELSE b[j - Len(x)]
    BY <1>5, <1>6, ConcatProperties
  <2> HIDE DEF y
  <2>2. Len(x) + Len(b) = Len(q) + 1
    BY <1>1, <1>4, <1>6
  <2>3. \A j \in 1 .. k : y[j] = x[j]
    BY <1>1, <1>6, <2>1, <2>2
  <2>4. \A j \in k + 1 .. Len(q) + 1 : y[j] = b[j - k] /\ j - k \in 1 .. Len(q) - k + 1
    BY <1>1, <1>6, <2>1, <2>2
  <2> QED BY <2>1, <2>2, <2>3, <2>4
<1>8. InsertAt(q, k, e) = y
  BY DEF InsertAt, y, x, a, b
<1> HIDE DEF y
<1>9. y[k] = e /\ k \in 1 .. Len(y)
  BY <1>1, <1>6, <1>7
<1>10. ASSUME NEW j \in 1 .. Len(y)
       PROVE  y[j] = e \/ \E n \in 1 .. Len(q) : y[j] = q[n]
  <2>1. CASE j = k
    BY <1>9, <2>1
  <2>2. CASE j \in 1 .. k - 1
    BY <1>1, <1>2, <1>6, <1>7, <2>2
  <2>3. CASE j \in k + 1 .. Len(q) + 1
    <3>1. y[j] = b[j - k] /\ j - k \in 1 .. Len(q) - k + 1
      BY <1>7, <2>3
    <3>2. b[j - k] = q[k + (j - k) - 1] /\ k + (j - k) - 1 \in 1 .. Len(q)
      BY <1>4, <3>1
    <3> QED BY <3>1, <3>2
  <2> QED BY <1>1, <1>7, <2>1, <2>2, <2>3
<1> QED BY <1>7, <1>8, <1>9, <1>10

\* A key goes before, between or after those that are there.
LEMMA SlotInRange ==
    ASSUME NEW kids \in Seq(Kid), NEW k
    PROVE  Slot(kids, k) \in 1 .. Len(kids) + 1
<1> DEFINE Rank(z) == CHOOSE i \in DOMAIN KeyOrder : KeyOrder[i] = z
           before == {i \in DOMAIN kids : Rank(kids[i].key) < Rank(k)}
<1>1. Len(kids) \in Nat /\ DOMAIN kids = 1 .. Len(kids)
  BY Sequence
<1>2. Slot(kids, k) = 1 + Cardinality(before)
  BY DEF Slot
<1>3. before \in SUBSET (1 .. Len(kids))
  BY <1>1
<1> HIDE DEF before
<1>4. IsFiniteSet(1 .. Len(kids)) /\ Cardinality(1 .. Len(kids)) = Len(kids)
  BY <1>1, FS_Interval
<1>5. IsFiniteSet(before) /\ Cardinality(before) <= Len(kids)
  BY <1>3, <1>4, FS_Subset
<1>6. Cardinality(before) \in Nat
  BY <1>5, FS_CardinalityType
<1> QED BY <1>1, <1>2, <1>5, <1>6

\* The member with the key is there, and the next value goes to it.
LEMMA KeyGood ==
    ASSUME NEW s, Good(s), s.refs # <<>>, Last(s.refs) # 0, Top(s).kind = "object",
           NEW k \in Strings
    PROVE  /\ Good(DomKey(s, k)) /\ Like(s, DomKey(s, k)) /\ ElementOnTop(DomKey(s, k))
           /\ IsFilter(s) => DomKey(s, k).keyKeep = s.keyKeep
<1> DEFINE m == s.mem
           top == Last(s.refs)
           old == m[top].kids
           i == Slot(old, k)
           p == Len(m) + 1
           t == DomKey(s, k)
<1>1. m \in Seq(Node) /\ Linked(m, s.refs) /\ Downwards(m) /\ Len(m) \in Nat /\ p \in Nat
      /\ DOMAIN m = 1 .. Len(m)
  BY Sequence DEF Good
<1>2. /\ top \in 1 .. Len(m) /\ \A n \in 1 .. Len(s.refs) - 1 : s.refs[n] \in 1 .. top - 1
      /\ \A n \in 1 .. Len(s.refs) : s.refs[n] \in 1 .. Len(m)
      /\ top = s.refs[Len(s.refs)] /\ Len(s.refs) \in 1 .. Len(s.refs)
      /\ old \in Seq(Kid)
      /\ \A n \in 1 .. Len(old) : old[n].val \in top + 1 .. Len(m)
  BY TopFacts
<1>3. Len(old) \in Nat /\ DOMAIN old = 1 .. Len(old) /\ i \in 1 .. Len(old) + 1
  BY <1>2, SlotInRange, Sequence
<1>4. m[top].kind = "object"
  BY DEF Top
<1> HIDE DEF i
<1>5. CASE i \in DOMAIN old /\ old[i].key = k
  <2>1. t = [s EXCEPT !.element = old[i].val]
    BY <1>5 DEF DomKey, Top, i
  <2>2. DOMAIN t = DOMAIN s /\ t.mem = m /\ t.refs = s.refs /\ t.sound = s.sound /\ t.go = s.go
        /\ (IsFilter(s) => t.keyKeep = s.keyKeep) /\ t.element = old[i].val
    BY <2>1, GoodFields
  <2> HIDE DEF t
  <2>3. Good(t)
    BY <2>2 DEF Good, IsFilter
  <2>4. Like(s, t)
    BY <2>2 DEF Like
  <2>5. ElementOnTop(t)
    BY <1>4, <1>5, <2>2 DEF ElementOnTop, Top
  <2> QED BY <2>2, <2>3, <2>4, <2>5 DEF t
<1>6. CASE ~(i \in DOMAIN old /\ old[i].key = k)
  <2> DEFINE kids == InsertAt(old, i, Member(k, p))
             m1 == Append(m, Null)
             node == [m1[top] EXCEPT !.kids = kids]
             m2 == [m1 EXCEPT ![top] = node]
  <2>1. /\ m1 \in Seq(Node) /\ Downwards(m1) /\ Len(m1) = p /\ m1[p] = Null
        /\ \A n \in 1 .. Len(m) : m1[n] = m[n]
    <3>1. "null" \in Kinds
      BY DEF Kinds
    <3> HIDE DEF m
    <3> QED BY <1>1, <3>1, NewNode DEF Null
  <2>3. Member(k, p) \in Kid /\ Member(k, p).val = p
    BY <1>1 DEF Member, Kid
  <2>4. /\ kids \in Seq(Kid)
        /\ \E j \in 1 .. Len(kids) : kids[j].val = p
        /\ \A j \in 1 .. Len(kids) : kids[j].val \in top + 1 .. p
    <3> DEFINE e == Member(k, p)
    <3> HIDE DEF e, old, p
    <3>1. /\ kids \in Seq(Kid)
          /\ \E j \in 1 .. Len(kids) : kids[j] = e
          /\ \A j \in 1 .. Len(kids) : kids[j] = e \/ \E n \in 1 .. Len(old) : kids[j] = old[n]
      BY <1>2, <1>3, <2>3, Inserted DEF e
    <3>2. e.val = p /\ p = Len(m) + 1 /\ Len(m) \in Nat /\ top \in 1 .. Len(m)
      BY <1>1, <1>2, <2>3 DEF e, p
    <3> HIDE DEF kids
    <3>4. \A n \in 1 .. Len(old) : old[n].val \in top + 1 .. Len(m)
      BY <1>2 DEF old
    <3> HIDE DEF top, m
    <3>3. ASSUME NEW j \in 1 .. Len(kids) PROVE kids[j].val \in top + 1 .. p
      <4>1. CASE kids[j] = e
        BY <3>2, <4>1
      <4>2. CASE \E n \in 1 .. Len(old) : kids[j] = old[n]
        BY <3>2, <3>4, <4>2
      <4> QED BY <3>1, <4>1, <4>2
    <3> QED BY <3>1, <3>2, <3>3
  <2>2. node \in Node /\ node.kind = "object" /\ node.kids = kids
    <3>1. m1[top] \in Node /\ m1[top].kind = "object"
      BY <1>1, <1>2, <1>4, <2>1, Sequence
    <3> HIDE DEF kids
    <3> QED BY <2>4, <3>1, OtherKids
  <2>5. t = [s EXCEPT !.mem = m2, !.element = p]
    <3>1. Append([m EXCEPT ![top].kids = kids], Null) = m2
      <4>1. [m EXCEPT ![top].kids = kids] = [m EXCEPT ![top] = node]
        BY <1>2, <2>1
      <4> HIDE DEF kids, node, m, top
      <4> DEFINE o == [m EXCEPT ![top] = node]
      <4>2. /\ o \in Seq(Node) /\ Len(o) = Len(m)
            /\ \A n \in 1 .. Len(m) : o[n] = IF n = top THEN node ELSE m[n]
        BY <1>1, <1>2, <2>2, ExceptSeq
      <4> HIDE DEF o
      <4>3. Null \in Node
        BY Leaves DEF Null, Kinds
      <4>4. /\ Append(o, Null) \in Seq(Node) /\ Len(Append(o, Null)) = p
            /\ Append(o, Null)[p] = Null /\ \A n \in 1 .. Len(m) : Append(o, Null)[n] = o[n]
        BY <4>2, <4>3, AppendProperties
      <4>5. top \in 1 .. Len(m1)
        <5>1. top \in 1 .. Len(m) /\ Len(m) \in Nat /\ Len(m1) = Len(m) + 1
          BY <1>1, <1>2, <2>1 DEF top, m, p
        <5> HIDE DEF m1
        <5> QED BY <5>1
      <4> HIDE DEF m1
      <4>6. /\ m2 \in Seq(Node) /\ Len(m2) = Len(m1)
            /\ \A n \in 1 .. Len(m1) : m2[n] = IF n = top THEN node ELSE m1[n]
        BY <2>1, <2>2, <4>5, ExceptSeq
      <4> HIDE DEF m2
      <4>7. top \in 1 .. Len(m) /\ Len(m) \in Nat
        BY <1>1, <1>2 DEF top, m
      <4>8. \A n \in 1 .. p : Append(o, Null)[n] = m2[n]
        BY <2>1, <4>2, <4>4, <4>6, <4>7
      <4>9. Append(o, Null) = m2
        BY <2>1, <4>4, <4>6, <4>8, SeqEqual
      <4> QED BY <4>1, <4>9 DEF o
    <3> HIDE DEF m2
    <3> QED BY <1>6, <3>1 DEF DomKey, Top, i
  <2> HIDE DEF kids
  <2>6. /\ m2 \in Seq(Node) /\ Downwards(m2) /\ Len(m2) = p
        /\ m2[top].kind = "object" /\ m2[top].kids = kids
        /\ \A n \in 1 .. p : n # top => m2[n] = m1[n]
    <3>1. top \in 1 .. Len(m1)
      <4>1. top \in 1 .. Len(m) /\ Len(m) \in Nat /\ Len(m1) = Len(m) + 1
        BY <1>1, <1>2, <2>1
      <4> HIDE DEF m1, top, m
      <4> QED BY <4>1
    <3> HIDE DEF node, m, p, m1, top
    <3>2. Members(node, top + 1, Len(m1)) /\ m1 \in Seq(Node) /\ Downwards(m1)
      BY <2>1, <2>2, <2>4 DEF Members
    <3>3. /\ m2 \in Seq(Node) /\ Downwards(m2) /\ Len(m2) = Len(m1) /\ m2[top] = node
          /\ \A n \in 1 .. Len(m1) : n # top => m2[n] = m1[n]
      BY <2>2, <3>1, <3>2, SetNode
    <3> QED BY <2>1, <2>2, <3>3
  <2> HIDE DEF m2
  <2>7. DOMAIN t = DOMAIN s /\ t.mem = m2 /\ t.refs = s.refs /\ t.sound = s.sound /\ t.go = s.go
        /\ (IsFilter(s) => t.keyKeep = s.keyKeep) /\ t.element = p
    BY <2>5, GoodFields
  <2> HIDE DEF t
  <2>8. \A n \in 1 .. Len(m) : n # top => m2[n] = m[n]
    BY <1>1, <2>1, <2>6
  <2>9. Linked(m2, s.refs)
    <3>1. \A n \in 1 .. Len(s.refs) - 1 : s.refs[n] # 0 => m2[s.refs[n]] = m[s.refs[n]]
      <4>1. ASSUME NEW n \in 1 .. Len(s.refs) - 1 PROVE s.refs[n] \in 1 .. Len(m) /\ s.refs[n] # top
        <5>1. s.refs[n] \in 1 .. top - 1 /\ top \in 1 .. Len(m)
          BY <1>2
        <5> HIDE DEF top, m
        <5> QED BY <1>1, <5>1
      <4> QED BY <2>8, <4>1
    <3>2. Len(m) <= Len(m2)
      BY <1>1, <2>6
    <3> HIDE DEF m
    <3> QED BY <1>1, <2>6, <3>1, <3>2, StaysLinked
  <2>10. Good(t)
    BY <2>6, <2>7, <2>9 DEF Good, IsFilter
  <2>11. Like(s, t)
    <3>1. ASSUME NEW n \in 1 .. Len(s.refs) PROVE m2[s.refs[n]].kind = m[s.refs[n]].kind
      BY <1>2, <1>4, <2>6, <2>8
    <3> QED BY <2>7, <3>1 DEF Like
  <2>12. ElementOnTop(t)
    <3>1. DOMAIN kids = 1 .. Len(kids)
      BY <2>4, Sequence
    <3> QED BY <2>4, <2>6, <2>7, <3>1 DEF ElementOnTop, Top
  <2> QED BY <2>7, <2>10, <2>11, <2>12 DEF t
<1> QED BY <1>5, <1>6

-----------------------------------------------------------------------------
(* The handlers' operations on values and keys.                            *)

Pushed(bits, kind) == Append(bits, kind = "array")

\* The handlers differ in what they have asked, not in what they have built.
SameValue(s, t) ==
    /\ DOMAIN t = DOMAIN s /\ t.mem = s.mem /\ t.refs = s.refs /\ t.element = s.element
    /\ t.sound = s.sound /\ t.go = s.go
    /\ IsFilter(s) => t.keyKeep = s.keyKeep

LEMMA SameValueGood ==
    ASSUME NEW s, NEW t, Good(s), SameValue(s, t)
    PROVE  Good(t) /\ Like(s, t) /\ (CanTake(s) => CanTake(t)) /\ IsFilter(t) = IsFilter(s)
<1>1. IsFilter(t) = IsFilter(s)
  BY DEF SameValue, IsFilter
<1>2. Good(t)
  BY <1>1 DEF SameValue, Good
<1>3. Like(s, t)
  BY DEF SameValue, Like
<1>4. Ready(s) => Ready(t)
  BY <1>1 DEF Ready, SameValue, ElementOnTop, Top, OnTop
<1>5. CanTake(s) => CanTake(t)
  BY <1>4 DEF CanTake, SameValue, Top, OnTop
<1> QED BY <1>1, <1>2, <1>3, <1>5

LEMMA LikeMatches ==
    ASSUME NEW s, NEW t, Like(s, t), NEW bits, Matches(s, bits)
    PROVE  Matches(t, bits)
<1>1. Len(t.refs) = Len(bits)
  BY DEF Like, Matches
<1>2. ASSUME NEW i \in 1 .. Len(bits), t.refs[i] # 0
      PROVE  t.mem[t.refs[i]].kind = IF bits[i] THEN "array" ELSE "object"
  BY <1>2 DEF Like, Matches
<1> QED BY <1>1, <1>2 DEF Matches

LEMMA ValuePlaced ==
    ASSUME NEW s, Good(s), ~IsFilter(s), CanTake(s), NEW kind \in Kinds
    PROVE  /\ Placed(s, handle_value(s, kind).st, handle_value(s, kind).ptr, kind)
           /\ handle_value(s, kind).ptr # 0
<1>1. s.refs # <<>> => Last(s.refs) # 0 /\ OnTop(s) # 0
  <2>1. SUFFICES ASSUME s.refs # <<>> PROVE Last(s.refs) # 0 /\ OnTop(s) # 0
    OBVIOUS
  <2>2. Last(s.refs) = s.refs[Len(s.refs)] /\ Len(s.refs) \in 1 .. Len(s.refs)
    BY <2>1, GoodFields DEF Last
  <2>3. Last(s.refs) # 0
    BY <2>2 DEF Good
  <2> QED BY <2>1, <2>3 DEF OnTop
<1>2. CASE s.refs = <<>> \/ Top(s).kind = "array"
  <2>1. handle_value(s, kind) = [st |-> Attached(s, kind), ptr |-> Len(s.mem) + 1]
    BY <1>2 DEF handle_value
  <2>2. Placed(s, Attached(s, kind), Len(s.mem) + 1, kind)
    BY <1>1, AttachedPlaced
  <2> QED BY <2>1, <2>2, GoodFields
<1>3. CASE ~(s.refs = <<>> \/ Top(s).kind = "array")
  <2> DEFINE new == [s.mem EXCEPT ![s.element] = Tree(kind, <<>>)]
             t == [s EXCEPT !.sound = @ /\ ElementOnTop(s), !.mem = new]
  <2>1. ElementOnTop(s) /\ Last(s.refs) # 0 /\ s.refs # <<>>
    BY <1>1, <1>3 DEF CanTake, Ready
  <2>2. handle_value(s, kind) = [st |-> t, ptr |-> s.element]
    BY <1>3 DEF handle_value
  <2>3. /\ new \in Seq(Node) /\ Downwards(new) /\ Linked(new, s.refs)
        /\ Pushable(new, s.refs, s.element) /\ new[s.element].kind = kind
        /\ s.element # 0
        /\ \A i \in 1 .. Len(s.refs) : new[s.refs[i]] = s.mem[s.refs[i]]
    BY <2>1, ElementWritten
  <2> HIDE DEF new
  <2>4. DOMAIN t = DOMAIN s /\ t.mem = new /\ t.refs = s.refs /\ t.go = s.go
    BY GoodFields
  <2>5. t.sound = TRUE
    BY <2>1, GoodFields DEF Good
  <2> HIDE DEF t
  <2>6. Good(t)
    BY <2>3, <2>4, <2>5 DEF Good, IsFilter
  <2>7. Like(s, t)
    BY <2>3, <2>4 DEF Like
  <2>8. Placed(s, t, s.element, kind)
    BY <2>3, <2>4, <2>6, <2>7 DEF Placed
  <2> QED BY <2>2, <2>3, <2>8
<1> QED BY <1>2, <1>3

LEMMA StoredPlaced ==
    ASSUME NEW s, Good(s), IsFilter(s), CanTake(s), NEW kind \in Kinds
    PROVE  Placed(s, Stored(s, kind).st, Stored(s, kind).ptr, kind)
<1>1. Placed(s, s, 0, kind)
  BY DEF Placed, Like, Pushable
<1>2. CASE s.refs # <<>> /\ OnTop(s) = 0
  <2>1. Stored(s, kind) = [st |-> s, ptr |-> 0]
    BY <1>2 DEF Stored, NotKept
  <2> QED BY <1>1, <2>1
<1>3. CASE ~(s.refs # <<>> /\ OnTop(s) = 0) /\ (s.refs = <<>> \/ Top(s).kind = "array")
  <2>1. Stored(s, kind) = [st |-> Attached(s, kind), ptr |-> Len(s.mem) + 1]
    BY <1>3 DEF Stored
  <2>2. Placed(s, Attached(s, kind), Len(s.mem) + 1, kind)
    BY <1>3, AttachedPlaced DEF OnTop
  <2> QED BY <2>1, <2>2
<1>4. CASE ~(s.refs # <<>> /\ OnTop(s) = 0) /\ ~(s.refs = <<>> \/ Top(s).kind = "array")
  <2> DEFINE new == [s.mem EXCEPT ![s.element] = Tree(kind, <<>>)]
             popped == [s EXCEPT !.keyKeep = Front1(@)]
             t == [popped EXCEPT !.sound = @ /\ ElementOnTop(s),
                                 !.mem[s.element] = Tree(kind, <<>>)]
  <2>1. /\ s.keyKeep # <<>> /\ s.refs # <<>> /\ Last(s.refs) # 0
        /\ Last(s.keyKeep) => ElementOnTop(s)
    BY <1>4 DEF CanTake, Ready, OnTop
  <2>2. s.keyKeep \in Seq(BOOLEAN) /\ "keyKeep" \in DOMAIN s
    BY GoodFields DEF Good
  <2>3. Front1(s.keyKeep) \in Seq(BOOLEAN)
    BY <2>1, <2>2, FrontGives
  <2>4. /\ DOMAIN popped = DOMAIN s /\ popped.mem = s.mem /\ popped.refs = s.refs
        /\ popped.sound = s.sound /\ popped.go = s.go /\ popped.keyKeep = Front1(s.keyKeep)
    BY <2>2, GoodFields
  <2>5. CASE ~Last(s.keyKeep)
    <3>1. Stored(s, kind) = [st |-> popped, ptr |-> 0]
      BY <1>4, <2>1, <2>5 DEF Stored, NotKept
    <3> HIDE DEF popped
    <3>2. Good(popped)
      BY <2>3, <2>4 DEF Good, IsFilter
    <3>3. Placed(s, popped, 0, kind)
      BY <2>4, <3>2 DEF Placed, Like, Pushable
    <3> QED BY <3>1, <3>3
  <2>6. CASE Last(s.keyKeep)
    <3>1. Stored(s, kind) = [st |-> t, ptr |-> s.element]
      BY <1>4, <2>1, <2>6 DEF Stored
    <3>2. /\ new \in Seq(Node) /\ Downwards(new) /\ Linked(new, s.refs)
          /\ Pushable(new, s.refs, s.element) /\ new[s.element].kind = kind
          /\ \A i \in 1 .. Len(s.refs) : new[s.refs[i]] = s.mem[s.refs[i]]
      BY <2>1, <2>6, ElementWritten
    <3>3. /\ DOMAIN t = DOMAIN s /\ t.mem = new /\ t.refs = s.refs /\ t.go = s.go
          /\ t.keyKeep = Front1(s.keyKeep)
      <4> HIDE DEF popped
      <4> QED BY <2>2, <2>4, GoodFields
    <3>4. t.sound = TRUE
      <4> HIDE DEF popped
      <4> QED BY <2>1, <2>4, <2>6, GoodFields DEF Good
    <3> HIDE DEF t, new, popped
    <3>5. Good(t)
      BY <2>3, <3>2, <3>3, <3>4 DEF Good, IsFilter
    <3>6. Like(s, t)
      BY <3>2, <3>3 DEF Like
    <3>7. Placed(s, t, s.element, kind)
      BY <3>2, <3>3, <3>5, <3>6 DEF Placed
    <3> QED BY <3>1, <3>7
  <2> QED BY <2>5, <2>6
<1> QED BY <1>2, <1>3, <1>4

LEMMA AnswerKeeps ==
    ASSUME NEW s, Good(s), IsFilter(s), NEW keep \in BOOLEAN
    PROVE  SameValue(s, Answer(s, keep))
<1>1. "refused" \in DOMAIN s
  BY GoodFields
<1> QED BY <1>1 DEF Answer, SameValue

LEMMA FilteredPlaced ==
    ASSUME NEW s, Good(s), IsFilter(s), CanTake(s), NEW kind \in Kinds, NEW keep \in BOOLEAN
    PROVE  LET h == handle_value_filtered(s, kind, keep) IN Placed(s, h.st, h.ptr, kind)
<1> DEFINE h == handle_value_filtered(s, kind, keep)
<1>1. CASE ~Last(s.keep)
  <2>1. h = [st |-> s, ptr |-> 0]
    BY <1>1 DEF handle_value_filtered, NotKept
  <2> QED BY <2>1 DEF Placed, Like, Pushable
<1>2. CASE Last(s.keep) /\ keep
  <2>1. h = Stored(s, kind)
    BY <1>2 DEF handle_value_filtered
  <2> QED BY <2>1, StoredPlaced
<1>3. CASE Last(s.keep) /\ ~keep
  <2>1. h = [st |-> Answer(s, keep), ptr |-> 0]
    BY <1>3 DEF handle_value_filtered, NotKept
  <2>2. Good(Answer(s, keep)) /\ Like(s, Answer(s, keep))
    BY AnswerKeeps, SameValueGood
  <2> QED BY <2>1, <2>2 DEF Placed, Pushable
<1> QED BY <1>1, <1>2, <1>3

\* The container just placed goes onto the stack.
LEMMA PushedGood ==
    ASSUME NEW s, NEW t, NEW p, NEW kind \in {"array", "object"}, Placed(s, t, p, kind),
           ~IsFilter(s) => p # 0, NEW bits \in Seq(BOOLEAN), Matches(s, bits)
    PROVE  LET u == [t EXCEPT !.refs = Append(@, p)]
           IN  Good(u) /\ Matches(u, Pushed(bits, kind))
<1> DEFINE u == [t EXCEPT !.refs = Append(@, p)]
<1>1. Good(t) /\ Like(s, t) /\ Pushable(t.mem, t.refs, p) /\ (p # 0 => t.mem[p].kind = kind)
  BY DEF Placed
<1>2. Matches(t, bits)
  BY <1>1, LikeMatches
<1>3. /\ DOMAIN u = DOMAIN t /\ u.mem = t.mem /\ u.refs = Append(t.refs, p)
      /\ u.sound = t.sound /\ u.go = t.go /\ (IsFilter(t) => u.keyKeep = t.keyKeep)
  BY <1>1, GoodFields
<1> HIDE DEF u
<1>4. /\ Linked(t.mem, u.refs) /\ Len(u.refs) = Len(t.refs) + 1 /\ u.refs[Len(t.refs) + 1] = p
      /\ \A i \in 1 .. Len(t.refs) : u.refs[i] = t.refs[i]
  BY <1>1, <1>3, PushLinked DEF Good
<1>5. Len(t.refs) \in Nat /\ Len(t.refs) = Len(bits)
  BY <1>1, <1>2, GoodFields DEF Matches
<1>6. Good(u)
  <2>1. IsFilter(u) = IsFilter(t) /\ IsFilter(t) = IsFilter(s)
    BY <1>1, <1>3 DEF IsFilter, Like
  <2>2. ~IsFilter(t) => \A i \in 1 .. Len(u.refs) : u.refs[i] # 0
    BY <1>1, <1>4, <1>5, <2>1 DEF Good
  <2> QED BY <1>1, <1>3, <1>4, <2>1, <2>2 DEF Good
<1>7. /\ Len(Pushed(bits, kind)) = Len(bits) + 1
      /\ Pushed(bits, kind)[Len(bits) + 1] = (kind = "array")
      /\ \A i \in 1 .. Len(bits) : Pushed(bits, kind)[i] = bits[i]
  BY AppendProperties DEF Pushed
<1>8. ASSUME NEW i \in 1 .. Len(bits) + 1, u.refs[i] # 0
      PROVE  u.mem[u.refs[i]].kind = IF Pushed(bits, kind)[i] THEN "array" ELSE "object"
  <2>1. CASE i = Len(bits) + 1
    <3>1. u.refs[i] = p /\ u.mem[p].kind = kind
      BY <1>1, <1>3, <1>4, <1>5, <1>8, <2>1
    <3>2. Pushed(bits, kind)[i] = (kind = "array")
      BY <1>7, <2>1
    <3>3. CASE kind = "array"
      BY <3>1, <3>2, <3>3
    <3>4. CASE kind = "object"
      BY <3>1, <3>2, <3>4
    <3> QED BY <3>3, <3>4
  <2>2. CASE i \in 1 .. Len(bits)
    BY <1>2, <1>3, <1>4, <1>5, <1>7, <1>8, <2>2 DEF Matches
  <2> QED BY <1>5, <2>1, <2>2
<1> QED BY <1>4, <1>5, <1>6, <1>7, <1>8 DEF Matches, u

-----------------------------------------------------------------------------
(* Containers and keys.                                                    *)

LEMMA ContainerGood ==
    ASSUME NEW s, Good(s), ~IsFilter(s), CanTake(s), NEW kind \in {"array", "object"},
           NEW bits \in Seq(BOOLEAN), Matches(s, bits)
    PROVE  Good(Container(s, kind)) /\ Matches(Container(s, kind), Pushed(bits, kind))
<1> DEFINE h == handle_value(s, kind)
           t == h.st
           p == h.ptr
           u == [t EXCEPT !.refs = Append(@, p)]
<1>1. Placed(s, t, p, kind) /\ p # 0
  BY ValuePlaced DEF Kinds
<1>2. Container(s, kind) = u
  BY DEF Container
<1> HIDE DEF t, p
<1>3. Good(u) /\ Matches(u, Pushed(bits, kind))
  BY <1>1, PushedGood
<1> QED BY <1>2, <1>3

LEMMA OpenedGood ==
    ASSUME NEW s, Good(s), IsFilter(s), CanTake(s), NEW kind \in {"array", "object"},
           NEW keep \in BOOLEAN, NEW bits \in Seq(BOOLEAN), Matches(s, bits)
    PROVE  Good(Opened(s, kind, keep)) /\ Matches(Opened(s, kind, keep), Pushed(bits, kind))
<1> DEFINE first == [s EXCEPT !.keep = Append(@, keep)]
           asked == Answer(first, keep)
           h == handle_value_filtered(asked, kind, TRUE)
           t == h.st
           p == h.ptr
           u == [t EXCEPT !.refs = Append(@, p)]
<1>1. SameValue(s, first)
  BY GoodFields DEF SameValue
<1>2. Good(first) /\ IsFilter(first) /\ CanTake(first) /\ Like(s, first)
  BY <1>1, SameValueGood
<1> HIDE DEF first
<1>3. SameValue(first, asked)
  BY <1>2, AnswerKeeps
<1>4. Good(asked) /\ IsFilter(asked) /\ CanTake(asked) /\ Like(first, asked)
  BY <1>2, <1>3, SameValueGood
<1> HIDE DEF asked
<1>5. Matches(asked, bits)
  BY <1>2, <1>4, LikeMatches
<1>6. Placed(asked, t, p, kind)
  BY <1>4, FilteredPlaced DEF Kinds
<1>7. Opened(s, kind, keep) = u
  BY DEF Opened, asked, first
<1> HIDE DEF t, p
<1>8. Good(u) /\ Matches(u, Pushed(bits, kind))
  BY <1>4, <1>5, <1>6, PushedGood
<1> QED BY <1>7, <1>8

\* The container on top is left.
LEMMA PoppedGood ==
    ASSUME NEW s, Good(s), s.refs # <<>>, NEW t, Good(t), DOMAIN t = DOMAIN s, t.refs = s.refs,
           \A i \in 1 .. Len(s.refs) - 1 : s.refs[i] # 0 => t.mem[s.refs[i]] = s.mem[s.refs[i]],
           NEW u, DOMAIN u = DOMAIN t, u.mem = t.mem, u.refs = Front1(t.refs),
           u.sound = t.sound, u.go = t.go, IsFilter(t) => u.keyKeep = t.keyKeep,
           NEW bits \in Seq(BOOLEAN), bits # <<>>, Matches(s, bits)
    PROVE  Good(u) /\ Matches(u, Front1(bits))
<1>1. /\ s.refs \in Seq(0 .. Len(s.mem)) /\ Len(s.refs) \in Nat /\ Len(s.refs) = Len(bits)
      /\ Len(bits) \in Nat /\ Len(bits) # 0
  BY GoodFields, Sequence DEF Matches
<1>2. /\ u.refs = Front1(s.refs) /\ Len(u.refs) = Len(s.refs) - 1
      /\ \A i \in 1 .. Len(s.refs) - 1 : u.refs[i] = s.refs[i]
  <2> DEFINE r == s.refs
  <2>1. r \in Seq(0 .. Len(s.mem)) /\ r # <<>> /\ u.refs = Front1(r)
    BY <1>1
  <2> HIDE DEF r
  <2>2. /\ u.refs = Front1(r) /\ Len(u.refs) = Len(r) - 1
        /\ \A i \in 1 .. Len(r) - 1 : u.refs[i] = r[i]
    BY <2>1, FrontGives
  <2> QED BY <2>2 DEF r
<1>3. Linked(u.mem, u.refs)
  BY PopLinked DEF Good
<1>4. Good(u)
  <2>1. IsFilter(u) = IsFilter(t)
    BY DEF IsFilter
  <2>2. ~IsFilter(t) => \A i \in 1 .. Len(u.refs) : u.refs[i] # 0
    <3>1. \A i \in 1 .. Len(s.refs) - 1 : i \in 1 .. Len(s.refs)
      BY <1>1
    <3>2. ~IsFilter(t) => \A i \in 1 .. Len(s.refs) : s.refs[i] # 0
      BY DEF Good
    <3> QED BY <1>2, <3>1, <3>2
  <2> QED BY <1>3, <2>1, <2>2 DEF Good
<1>5. /\ Len(Front1(bits)) = Len(bits) - 1
      /\ \A i \in 1 .. Len(bits) - 1 : Front1(bits)[i] = bits[i]
  BY FrontGives
<1>6. ASSUME NEW i \in 1 .. Len(bits) - 1, u.refs[i] # 0
      PROVE  u.mem[u.refs[i]].kind = IF Front1(bits)[i] THEN "array" ELSE "object"
  <2>1. u.refs[i] = s.refs[i] /\ i \in 1 .. Len(bits)
    <3>1. i \in 1 .. Len(s.refs) - 1 /\ i \in 1 .. Len(bits)
      BY <1>1
    <3> QED BY <1>2, <3>1
  <2>2. u.mem[u.refs[i]] = s.mem[s.refs[i]]
    BY <1>1, <1>6, <2>1
  <2>3. s.mem[s.refs[i]].kind = IF bits[i] THEN "array" ELSE "object"
    BY <1>6, <2>1 DEF Matches
  <2> QED BY <1>5, <2>2, <2>3
<1> QED BY <1>1, <1>2, <1>4, <1>5, <1>6 DEF Matches

LEMMA TopKind ==
    ASSUME NEW s, Good(s), s.refs # <<>>, Last(s.refs) # 0,
           NEW bits \in Seq(BOOLEAN), Matches(s, bits)
    PROVE  Top(s).kind = IF Last(bits) THEN "array" ELSE "object"
<1>1. Last(s.refs) = s.refs[Len(s.refs)] /\ Len(s.refs) \in 1 .. Len(s.refs)
      /\ Len(s.refs) = Len(bits) /\ Last(bits) = bits[Len(bits)]
  BY TopFacts DEF Matches, Last
<1> QED BY <1>1 DEF Matches, Top

LEMMA ClosedGood ==
    ASSUME NEW s, Good(s), ~IsFilter(s), NEW kind \in {"array", "object"},
           NEW bits \in Seq(BOOLEAN), bits # <<>>, Last(bits) = (kind = "array"), Matches(s, bits)
    PROVE  Good(Closed(s, kind)) /\ Matches(Closed(s, kind), Front1(bits))
<1> DEFINE u == [s EXCEPT !.refs = SubSeq(@, 1, Len(@) - 1)]
<1>1. s.refs # <<>>
  BY GoodFields, Sequence DEF Matches
<1>2. Last(s.refs) # 0
  <2>1. Last(s.refs) = s.refs[Len(s.refs)] /\ Len(s.refs) \in 1 .. Len(s.refs)
    BY <1>1, GoodFields DEF Last
  <2> QED BY <2>1 DEF Good
<1>3. Top(s).kind = kind
  <2>1. Top(s).kind = IF Last(bits) THEN "array" ELSE "object"
    BY <1>1, <1>2, TopKind
  <2>2. CASE kind = "array"
    BY <2>1, <2>2
  <2>3. CASE kind = "object"
    BY <2>1, <2>3
  <2> QED BY <2>2, <2>3
<1>4. Closed(s, kind) = u
  BY <1>1, <1>3 DEF Closed
<1>5. /\ DOMAIN u = DOMAIN s /\ u.mem = s.mem /\ u.refs = Front1(s.refs)
      /\ u.sound = s.sound /\ u.go = s.go /\ (IsFilter(s) => u.keyKeep = s.keyKeep)
  BY GoodFields DEF Front1
<1> HIDE DEF u
<1>6. Good(u) /\ Matches(u, Front1(bits))
  BY <1>1, <1>5, PoppedGood
<1> QED BY <1>4, <1>6

\* After a key the member it names waits for its value.
LEMMA DomKeyReady ==
    ASSUME NEW s, Good(s), ~IsFilter(s), NEW bits \in Seq(BOOLEAN), bits # <<>>, ~Last(bits),
           Matches(s, bits), NEW k \in Strings
    PROVE  /\ s.refs # <<>> /\ Top(s).kind = "object"
           /\ Good(DomKey(s, k)) /\ Matches(DomKey(s, k), bits) /\ Ready(DomKey(s, k))
<1>1. s.refs # <<>>
  BY GoodFields, Sequence DEF Matches
<1>2. Last(s.refs) # 0
  <2>1. Last(s.refs) = s.refs[Len(s.refs)] /\ Len(s.refs) \in 1 .. Len(s.refs)
    BY <1>1, GoodFields DEF Last
  <2> QED BY <2>1 DEF Good
<1>3. Top(s).kind = "object"
  BY <1>1, <1>2, TopKind
<1>4. Good(DomKey(s, k)) /\ Like(s, DomKey(s, k)) /\ ElementOnTop(DomKey(s, k))
  BY <1>1, <1>2, <1>3, KeyGood
<1>5. Matches(DomKey(s, k), bits)
  BY <1>4, LikeMatches
<1>6. Ready(DomKey(s, k))
  BY <1>1, <1>4 DEF Ready, Like, IsFilter
<1> QED BY <1>1, <1>3, <1>4, <1>5, <1>6

LEMMA FilterKeyReady ==
    ASSUME NEW s, Good(s), IsFilter(s), NEW bits \in Seq(BOOLEAN), bits # <<>>, ~Last(bits),
           Matches(s, bits), NEW k \in Strings, NEW keep \in BOOLEAN
    PROVE  LET t == FilterKey(s, k, keep)
           IN  Good(t) /\ Matches(t, bits) /\ Ready(t)
<1> DEFINE first == [s EXCEPT !.keyKeep = Append(@, keep)]
           a == Answer(first, keep)
           t == FilterKey(s, k, keep)
<1>1. s.refs # <<>> /\ (OnTop(s) # 0 => Top(s).kind = "object")
  <2>1. s.refs # <<>>
    BY GoodFields, Sequence DEF Matches
  <2> QED BY <2>1, TopKind DEF OnTop
<1>2. /\ Append(s.keyKeep, keep) \in Seq(BOOLEAN) /\ Append(s.keyKeep, keep) # <<>>
      /\ Last(Append(s.keyKeep, keep)) = keep
  <2>1. s.keyKeep \in Seq(BOOLEAN) /\ Len(s.keyKeep) \in Nat
    BY Sequence DEF Good
  <2>2. /\ Append(s.keyKeep, keep) \in Seq(BOOLEAN) /\ Append(s.keyKeep, keep) # <<>>
        /\ Len(Append(s.keyKeep, keep)) = Len(s.keyKeep) + 1
        /\ Append(s.keyKeep, keep)[Len(s.keyKeep) + 1] = keep
    BY <2>1, AppendProperties
  <2> QED BY <2>2 DEF Last
<1>3. /\ DOMAIN a = DOMAIN s /\ a.mem = s.mem /\ a.refs = s.refs
      /\ a.sound = s.sound /\ a.go = s.go /\ a.keyKeep = Append(s.keyKeep, keep)
  BY GoodFields DEF Answer
<1>4. t = IF keep /\ OnTop(s) # 0
          THEN [DomKey(a, k) EXCEPT !.mem[DomKey(a, k).element] = Leaf("discarded")] ELSE a
  BY DEF FilterKey
<1> HIDE DEF a, t
<1>5. IsFilter(a)
  BY <1>3 DEF IsFilter
<1>6. Good(a) /\ Like(s, a)
  <2>1. Good(a)
    BY <1>2, <1>3, <1>5 DEF Good
  <2> QED BY <1>3, <2>1 DEF Like
<1>7. Matches(a, bits)
  BY <1>6, LikeMatches
<1>8. CASE ~(keep /\ OnTop(s) # 0)
  <2>1. t = a
    BY <1>4, <1>8
  <2>2. Ready(a)
    BY <1>1, <1>2, <1>3, <1>5, <1>8 DEF Ready, OnTop
  <2> QED BY <1>6, <1>7, <2>1, <2>2 DEF t
<1>9. CASE keep /\ OnTop(s) # 0
  <2> DEFINE d == DomKey(a, k)
             new == [d.mem EXCEPT ![d.element] = Tree("discarded", <<>>)]
  <2>1. a.refs # <<>> /\ Last(a.refs) # 0 /\ Top(a).kind = "object"
    BY <1>1, <1>3, <1>9 DEF OnTop, Top
  <2>2. Good(d) /\ Like(a, d) /\ ElementOnTop(d) /\ d.keyKeep = a.keyKeep
    BY <1>5, <1>6, <2>1, KeyGood
  <2>3. t = [d EXCEPT !.mem[d.element] = Leaf("discarded")]
    BY <1>4, <1>9
  <2> HIDE DEF d
  <2>4. d.refs = a.refs /\ DOMAIN d = DOMAIN a /\ IsFilter(d)
    BY <1>5, <2>2 DEF Like, IsFilter
  <2>5. /\ new \in Seq(Node) /\ Downwards(new) /\ Linked(new, d.refs)
        /\ \A i \in 1 .. Len(d.refs) : new[d.refs[i]] = d.mem[d.refs[i]]
    <3>1. "discarded" \in Kinds
      BY DEF Kinds
    <3>2. d.refs # <<>> /\ Last(d.refs) # 0
      BY <2>1, <2>4
    <3> QED BY <2>2, <3>1, <3>2, ElementWritten
  <2>6. /\ DOMAIN t = DOMAIN d /\ t.mem = new /\ t.refs = d.refs /\ t.element = d.element
        /\ t.sound = d.sound /\ t.go = d.go /\ t.keyKeep = d.keyKeep
    <3>1. Leaf("discarded") = Tree("discarded", <<>>)
      BY DEF Leaf
    <3> QED BY <2>2, <2>3, <2>4, <3>1, GoodFields
  <2> HIDE DEF new
  <2>7. IsFilter(t)
    BY <2>4, <2>6 DEF IsFilter
  <2>8. Good(t)
    BY <2>2, <2>4, <2>5, <2>6, <2>7 DEF Good
  <2>9. Like(d, t)
    BY <2>5, <2>6 DEF Like
  <2>10. Matches(t, bits)
    BY <1>7, <2>2, <2>9, LikeMatches
  <2>11. ElementOnTop(t)
    <3>1. Last(d.refs) = d.refs[Len(d.refs)] /\ Len(d.refs) \in 1 .. Len(d.refs)
      BY <2>1, <2>2, <2>4, TopFacts
    <3>2. Top(t) = Top(d)
      BY <2>5, <2>6, <3>1 DEF Top
    <3> QED BY <2>2, <2>6, <3>2 DEF ElementOnTop
  <2>12. Ready(t)
    BY <1>2, <1>3, <2>1, <2>2, <2>4, <2>6, <2>7, <2>11 DEF Ready
  <2> QED BY <2>8, <2>10, <2>12 DEF t
<1> QED BY <1>8, <1>9

-----------------------------------------------------------------------------
(* The filter leaves a container.                                          *)

Less == {p \in Nat \X Nat : p[1] < p[2]}

LEMMA LessWellFounded == IsWellFoundedOn(Less, Nat)
<1>1. OpToRel(<, Nat) = Less
  BY DEF OpToRel, Less
<1> QED BY <1>1, NatLessThanWellFounded

\* The first of the discarded members is one of them.
LEMMA MinIsMember ==
    ASSUME NEW S \in SUBSET Nat, S # {}
    PROVE  Min(S) \in S
<1>1. PICK n \in S : \A m \in S : <<m, n>> \notin Less
  BY LessWellFounded, WFMin
<1>2. ASSUME NEW m \in S PROVE n <= m
  <2>1. <<m, n>> \in Nat \X Nat
    OBVIOUS
  <2>2. ~(m < n)
    BY <2>1, <1>1 DEF Less
  <2> QED BY <2>2
<1>3. \E x \in S : \A y \in S : x =< y
  BY <1>2
<1> QED BY <1>3 DEF Min

LEMMA PartGives ==
    ASSUME NEW S, NEW q \in Seq(S), NEW m \in Int, NEW n \in Int,
           m >= 1, n <= Len(q), m <= n + 1
    PROVE  /\ SubSeq(q, m, n) \in Seq(S) /\ Len(SubSeq(q, m, n)) = n + 1 - m
           /\ \A i \in 1 .. n + 1 - m : SubSeq(q, m, n)[i] = q[m + i - 1]
OBVIOUS

LEMMA Removed ==
    ASSUME NEW q \in Seq(Kid), NEW k \in 1 .. Len(q)
    PROVE  /\ RemoveAt(q, k) \in Seq(Kid)
           /\ \A j \in 1 .. Len(RemoveAt(q, k)) : \E i \in 1 .. Len(q) : RemoveAt(q, k)[j] = q[i]
<1> DEFINE n == Len(q)
           s == SubSeq(q, 1, k - 1)
           t == SubSeq(q, k + 1, n)
           r == s \o t
<1>1. n \in Nat /\ k \in Int /\ k - 1 \in Int /\ k + 1 \in Int /\ n \in Int /\ k >= 1 /\ k <= n
  OBVIOUS
<1>2. s \in Seq(Kid) /\ Len(s) = k - 1 /\ \A i \in 1 .. k - 1 : s[i] = q[i]
  <2>1. /\ s \in Seq(Kid) /\ Len(s) = (k - 1) + 1 - 1
        /\ \A i \in 1 .. (k - 1) + 1 - 1 : s[i] = q[1 + i - 1]
    BY <1>1, PartGives
  <2> HIDE DEF s
  <2> QED BY <1>1, <2>1
<1>3. t \in Seq(Kid) /\ Len(t) = n - k /\ \A i \in 1 .. n - k : t[i] = q[k + i]
  <2>1. /\ t \in Seq(Kid) /\ Len(t) = n + 1 - (k + 1)
        /\ \A i \in 1 .. n + 1 - (k + 1) : t[i] = q[(k + 1) + i - 1]
    BY <1>1, PartGives
  <2> HIDE DEF t, n
  <2> QED BY <1>1, <2>1
<1>4. RemoveAt(q, k) = r
  BY DEF RemoveAt
<1> HIDE DEF s, t, n
<1>5. r \in Seq(Kid) /\ Len(r) = Len(s) + Len(t)
      /\ \A j \in 1 .. Len(s) + Len(t) : r[j] = IF j <= Len(s) THEN s[j] ELSE t[j - Len(s)]
  BY <1>2, <1>3, ConcatProperties
<1> HIDE DEF r
<1>6. /\ Len(r) = n - 1
      /\ \A j \in 1 .. n - 1 : r[j] = IF j <= k - 1 THEN s[j] ELSE t[j - (k - 1)]
  <2>1. Len(s) = k - 1 /\ Len(s) + Len(t) = n - 1
    BY <1>1, <1>2, <1>3
  <2> QED BY <1>5, <2>1
<1>7. ASSUME NEW j \in 1 .. n - 1 PROVE \E i \in 1 .. n : r[j] = q[i]
  <2>1. CASE j <= k - 1
    <3>1. j \in 1 .. k - 1 /\ j \in 1 .. n
      BY <1>1, <2>1
    <3> QED BY <1>2, <1>6, <2>1, <3>1
  <2>2. CASE ~(j <= k - 1)
    <3>1. j - (k - 1) \in 1 .. n - k /\ k + (j - (k - 1)) = j + 1 /\ j + 1 \in 1 .. n
      BY <1>1, <2>2
    <3>2. t[j - (k - 1)] = q[j + 1]
      BY <1>3, <3>1
    <3> QED BY <1>6, <2>2, <3>1, <3>2
  <2> QED BY <2>1, <2>2
<1> QED BY <1>4, <1>5, <1>6, <1>7 DEF n

LEMMA Erased ==
    ASSUME NEW kids \in Seq(Kid), NEW mem
    PROVE  /\ EraseFirst(kids, mem) \in Seq(Kid)
           /\ \A j \in 1 .. Len(EraseFirst(kids, mem)) :
                \E i \in 1 .. Len(kids) : EraseFirst(kids, mem)[j] = kids[i]
<1> DEFINE bad == {i \in DOMAIN kids : mem[kids[i].val].kind = "discarded"}
<1>1. bad \subseteq 1 .. Len(kids) /\ bad \in SUBSET Nat /\ Len(kids) \in Nat
  BY Sequence
<1>2. EraseFirst(kids, mem) = IF bad = {} THEN kids ELSE RemoveAt(kids, Min(bad))
  BY DEF EraseFirst
<1> HIDE DEF bad
<1>3. CASE bad = {}
  BY <1>2, <1>3
<1>4. CASE bad # {}
  <2>1. Min(bad) \in 1 .. Len(kids)
    BY <1>1, <1>4, MinIsMember
  <2> QED BY <1>2, <1>4, <2>1, Removed
<1> QED BY <1>3, <1>4

\* Members are taken out of the container on top.
LEMMA FewerKids ==
    ASSUME NEW s, Good(s), s.refs # <<>>, Last(s.refs) # 0, NEW kids \in Seq(Kid),
           \A j \in 1 .. Len(kids) : \E i \in 1 .. Len(Top(s).kids) : kids[j] = Top(s).kids[i]
    PROVE  LET t == [s EXCEPT !.mem[Last(s.refs)].kids = kids]
           IN  Good(t) /\ Like(s, t)
<1> DEFINE m == s.mem
           top == Last(s.refs)
           node == [m[top] EXCEPT !.kids = kids]
           m2 == [m EXCEPT ![top] = node]
           t == [s EXCEPT !.mem[Last(s.refs)].kids = kids]
<1>1. m \in Seq(Node) /\ Linked(m, s.refs) /\ Downwards(m) /\ Len(m) \in Nat
  BY Sequence DEF Good
<1>2. /\ top \in 1 .. Len(m) /\ \A n \in 1 .. Len(s.refs) - 1 : s.refs[n] \in 1 .. top - 1
      /\ \A n \in 1 .. Len(s.refs) : s.refs[n] \in 1 .. Len(m)
      /\ \A n \in 1 .. Len(m[top].kids) : m[top].kids[n].val \in top + 1 .. Len(m)
  BY TopFacts
<1>3. node \in Node /\ node.kind = m[top].kind /\ node.kids = kids
  BY <1>1, <1>2, OtherKids, Sequence
<1>4. Members(node, top + 1, Len(m))
  <2>1. ASSUME NEW j \in 1 .. Len(kids) PROVE kids[j].val \in top + 1 .. Len(m)
    BY <1>2 DEF Top
  <2> QED BY <1>3, <2>1 DEF Members
<1>5. t = [s EXCEPT !.mem = m2]
  OBVIOUS
<1> HIDE DEF node
<1>6. /\ m2 \in Seq(Node) /\ Downwards(m2) /\ Len(m2) = Len(m) /\ m2[top] = node
      /\ \A n \in 1 .. Len(m) : n # top => m2[n] = m[n]
  <2> HIDE DEF m, top
  <2> QED BY <1>1, <1>2, <1>3, <1>4, SetNode
<1> HIDE DEF m2
<1>7. DOMAIN t = DOMAIN s /\ t.mem = m2 /\ t.refs = s.refs /\ t.sound = s.sound /\ t.go = s.go
      /\ (IsFilter(s) => t.keyKeep = s.keyKeep)
  BY <1>5, GoodFields
<1> HIDE DEF t
<1>8. Linked(m2, s.refs)
  <2>1. \A n \in 1 .. Len(s.refs) - 1 : s.refs[n] # 0 => m2[s.refs[n]] = m[s.refs[n]]
    <3>1. \A n \in 1 .. Len(s.refs) - 1 : s.refs[n] \in 1 .. Len(m) /\ s.refs[n] # top
      BY <1>1, <1>2
    <3> QED BY <1>6, <3>1
  <2>2. Len(m) <= Len(m2)
    BY <1>1, <1>6
  <2> HIDE DEF m
  <2> QED BY <1>1, <1>6, <2>1, <2>2, StaysLinked
<1>9. Good(t)
  BY <1>6, <1>7, <1>8 DEF Good, IsFilter
<1>10. Like(s, t)
  <2>1. ASSUME NEW n \in 1 .. Len(s.refs) PROVE m2[s.refs[n]].kind = m[s.refs[n]].kind
    BY <1>2, <1>3, <1>6
  <2> QED BY <1>7, <2>1 DEF Like
<1> QED BY <1>9, <1>10 DEF t

\* The container on top may be discarded: nothing that stays open is below it.
LEMMA DiscardedGood ==
    ASSUME NEW s, Good(s), IsFilter(s), s.refs # <<>>, Last(s.refs) # 0
    PROVE  LET t == [s EXCEPT !.mem[Last(s.refs)] = Leaf("discarded")]
           IN  /\ Good(t) /\ DOMAIN t = DOMAIN s /\ t.refs = s.refs
               /\ \A i \in 1 .. Len(s.refs) - 1 :
                    s.refs[i] # 0 => t.mem[s.refs[i]] = s.mem[s.refs[i]]
<1> DEFINE m == s.mem
           top == Last(s.refs)
           node == Tree("discarded", <<>>)
           m2 == [m EXCEPT ![top] = node]
           t == [s EXCEPT !.mem[Last(s.refs)] = Leaf("discarded")]
<1>1. m \in Seq(Node) /\ Linked(m, s.refs) /\ Downwards(m) /\ Len(m) \in Nat
  BY Sequence DEF Good
<1>2. /\ top \in 1 .. Len(m) /\ \A n \in 1 .. Len(s.refs) - 1 : s.refs[n] \in 1 .. top - 1
      /\ \A n \in 1 .. Len(s.refs) : s.refs[n] \in 1 .. Len(m)
  BY TopFacts
<1>3. node \in Node /\ Members(node, top + 1, Len(m)) /\ Leaf("discarded") = node
  BY Leaves DEF Members, Kinds
<1>4. t = [s EXCEPT !.mem = m2]
  BY <1>3
<1> HIDE DEF node
<1>5. /\ m2 \in Seq(Node) /\ Downwards(m2) /\ Len(m2) = Len(m)
      /\ \A n \in 1 .. Len(m) : n # top => m2[n] = m[n]
  <2> HIDE DEF m, top
  <2> QED BY <1>1, <1>2, <1>3, SetNode
<1> HIDE DEF m2
<1>6. DOMAIN t = DOMAIN s /\ t.mem = m2 /\ t.refs = s.refs /\ t.sound = s.sound /\ t.go = s.go
      /\ (IsFilter(s) => t.keyKeep = s.keyKeep)
  BY <1>4, GoodFields
<1> HIDE DEF t
<1>7. \A n \in 1 .. Len(s.refs) - 1 : s.refs[n] # 0 => m2[s.refs[n]] = m[s.refs[n]]
  <2>1. \A n \in 1 .. Len(s.refs) - 1 : s.refs[n] \in 1 .. Len(m) /\ s.refs[n] # top
    BY <1>1, <1>2
  <2> QED BY <1>5, <2>1
<1>8. Linked(m2, s.refs)
  <2>1. Len(m) <= Len(m2)
    BY <1>1, <1>5
  <2> HIDE DEF m
  <2> QED BY <1>1, <1>5, <1>7, <2>1, StaysLinked
<1>9. Good(t)
  BY <1>5, <1>6, <1>8 DEF Good, IsFilter
<1> QED BY <1>6, <1>7, <1>9 DEF t

\* What both ends do: the container is marked if it is refused, and left.
Leaving(s, keep, asks, marks) ==
    LET asked == IF asks THEN Answer(s, keep) ELSE s
        marked == IF marks THEN [asked EXCEPT !.mem[Last(s.refs)] = Leaf("discarded")] ELSE asked
    IN  [marked EXCEPT !.refs = Front1(@), !.keep = Front1(@)]

LEMMA FilterLeft ==
    ASSUME NEW s, Good(s), IsFilter(s), NEW bits \in Seq(BOOLEAN), bits # <<>>, Matches(s, bits),
           NEW keep \in BOOLEAN, NEW asks \in BOOLEAN, NEW marks \in BOOLEAN,
           marks => OnTop(s) # 0
    PROVE  LET out == Leaving(s, keep, asks, marks)
           IN  /\ Good(out) /\ Matches(out, Front1(bits)) /\ IsFilter(out)
               /\ s.refs # <<>> /\ out.refs = Front1(s.refs)
               /\ \A i \in 1 .. Len(s.refs) - 1 :
                    s.refs[i] # 0 => out.mem[s.refs[i]] = s.mem[s.refs[i]]
<1> DEFINE asked == IF asks THEN Answer(s, keep) ELSE s
           marked == IF marks THEN [asked EXCEPT !.mem[Last(s.refs)] = Leaf("discarded")]
                     ELSE asked
           out == [marked EXCEPT !.refs = Front1(@), !.keep = Front1(@)]
<1>1. s.refs # <<>>
  BY GoodFields, Sequence DEF Matches
<1>2. SameValue(s, asked)
  <2>1. CASE asks
    BY <2>1, AnswerKeeps
  <2>2. CASE ~asks
    BY <2>2 DEF SameValue
  <2> QED BY <2>1, <2>2
<1> HIDE DEF asked
<1>3. Good(asked) /\ IsFilter(asked)
  BY <1>2, SameValueGood
<1>4. asked.mem = s.mem /\ asked.refs = s.refs /\ DOMAIN asked = DOMAIN s
  BY <1>2 DEF SameValue
<1>5. /\ Good(marked) /\ DOMAIN marked = DOMAIN s /\ marked.refs = s.refs
      /\ \A i \in 1 .. Len(s.refs) - 1 :
           s.refs[i] # 0 => marked.mem[s.refs[i]] = s.mem[s.refs[i]]
  <2>1. CASE marks
    <3> DEFINE t == [asked EXCEPT !.mem[Last(asked.refs)] = Leaf("discarded")]
    <3>1. asked.refs # <<>> /\ Last(asked.refs) # 0
      BY <1>1, <1>4, <2>1 DEF OnTop
    <3>2. /\ Good(t) /\ DOMAIN t = DOMAIN asked /\ t.refs = asked.refs
          /\ \A i \in 1 .. Len(asked.refs) - 1 :
               asked.refs[i] # 0 => t.mem[asked.refs[i]] = asked.mem[asked.refs[i]]
      BY <1>3, <3>1, DiscardedGood
    <3>3. marked = t
      BY <1>4, <2>1
    <3> HIDE DEF t, marked
    <3> QED BY <1>4, <3>2, <3>3
  <2>2. CASE ~marks
    BY <1>3, <1>4, <2>2
  <2> QED BY <2>1, <2>2
<1> HIDE DEF marked
<1>6. IsFilter(marked)
  BY <1>5 DEF IsFilter
<1>7. /\ DOMAIN out = DOMAIN marked /\ out.mem = marked.mem /\ out.refs = Front1(marked.refs)
      /\ out.sound = marked.sound /\ out.go = marked.go /\ out.keyKeep = marked.keyKeep
  BY <1>5, <1>6, GoodFields
<1> HIDE DEF out
<1>8. Good(out) /\ Matches(out, Front1(bits))
  BY <1>1, <1>5, <1>7, PoppedGood
<1>9. IsFilter(out)
  BY <1>6, <1>7 DEF IsFilter
<1>10. /\ out.refs = Front1(s.refs)
       /\ \A i \in 1 .. Len(s.refs) - 1 : s.refs[i] # 0 => out.mem[s.refs[i]] = s.mem[s.refs[i]]
  BY <1>5, <1>7
<1>11. out = Leaving(s, keep, asks, marks)
  BY DEF out, marked, asked, Leaving
<1> QED BY <1>1, <1>8, <1>9, <1>10, <1>11

LEMMA FilterEndObjectGood ==
    ASSUME NEW s, Good(s), IsFilter(s), NEW bits \in Seq(BOOLEAN), bits # <<>>, Matches(s, bits),
           NEW keep \in BOOLEAN
    PROVE  /\ Good(FilterEndObject(s, keep))
           /\ Matches(FilterEndObject(s, keep), Front1(bits))
<1> DEFINE own == OnTop(s) # 0
           marks == own /\ ~keep
           out == Leaving(s, keep, own, marks)
<1>1. Good(out) /\ Matches(out, Front1(bits)) /\ IsFilter(out)
  <2>1. own \in BOOLEAN /\ marks \in BOOLEAN /\ (marks => OnTop(s) # 0)
    OBVIOUS
  <2> HIDE DEF own, marks
  <2> QED BY <2>1, FilterLeft
<1>2. FilterEndObject(s, keep) =
        IF OnTop(out) # 0 /\ Top(out).kind \in {"array", "object"}
        THEN [out EXCEPT !.mem[Last(out.refs)].kids = EraseFirst(@, out.mem)]
        ELSE out
  BY DEF FilterEndObject, Leaving
<1> HIDE DEF out
<1>3. CASE ~(OnTop(out) # 0 /\ Top(out).kind \in {"array", "object"})
  BY <1>1, <1>2, <1>3
<1>4. CASE OnTop(out) # 0 /\ Top(out).kind \in {"array", "object"}
  <2> DEFINE kids == EraseFirst(Top(out).kids, out.mem)
             t == [out EXCEPT !.mem[Last(out.refs)].kids = kids]
  <2>1. out.refs # <<>> /\ Last(out.refs) # 0
    BY <1>4 DEF OnTop
  <2>2. Top(out).kids \in Seq(Kid)
    BY <1>1, <2>1, TopFacts DEF Top
  <2>3. FilterEndObject(s, keep) = t
    BY <1>2, <1>4 DEF Top
  <2>4. /\ kids \in Seq(Kid)
        /\ \A j \in 1 .. Len(kids) : \E i \in 1 .. Len(Top(out).kids) : kids[j] = Top(out).kids[i]
    BY <2>2, Erased
  <2> HIDE DEF kids
  <2>5. Good(t) /\ Like(out, t)
    BY <1>1, <2>1, <2>4, FewerKids
  <2>6. Matches(t, Front1(bits))
    BY <1>1, <2>5, LikeMatches
  <2> QED BY <2>3, <2>5, <2>6
<1> QED BY <1>3, <1>4

\* The array around a refused one was not refused before, and has at least that element.
LEMMA FilterEndArrayGood ==
    ASSUME NEW s, Good(s), IsFilter(s), NEW bits \in Seq(BOOLEAN), bits # <<>>, Matches(s, bits),
           NEW keep \in BOOLEAN
    PROVE  /\ Good(FilterEndArray(s, keep))
           /\ Matches(FilterEndArray(s, keep), Front1(bits))
<1> DEFINE refused == OnTop(s) # 0 /\ ~keep
           out == Leaving(s, keep, refused, refused)
<1>1. /\ Good(out) /\ Matches(out, Front1(bits)) /\ IsFilter(out)
      /\ s.refs # <<>> /\ out.refs = Front1(s.refs)
      /\ \A i \in 1 .. Len(s.refs) - 1 :
           s.refs[i] # 0 => out.mem[s.refs[i]] = s.mem[s.refs[i]]
  <2>1. refused \in BOOLEAN /\ (refused => OnTop(s) # 0)
    OBVIOUS
  <2> HIDE DEF refused
  <2> QED BY <2>1, FilterLeft
<1>2. FilterEndArray(s, keep) =
        IF refused /\ out.refs # <<>>
        THEN IF OnTop(out) = 0 THEN [out EXCEPT !.sound = FALSE]
             ELSE IF Top(out).kind = "array"
                  THEN [out EXCEPT !.mem[Last(out.refs)].kids = Front1(@)] ELSE out
        ELSE out
  BY DEF FilterEndArray, Leaving
<1> HIDE DEF out
<1>3. CASE ~(refused /\ out.refs # <<>>)
  BY <1>1, <1>2, <1>3
<1>4. CASE refused /\ out.refs # <<>>
  <2> DEFINE n == Len(s.refs) - 1
             below == s.refs[n]
  <2>1. s.refs \in Seq(0 .. Len(s.mem)) /\ Linked(s.mem, s.refs) /\ Last(s.refs) # 0
    BY <1>1, <1>4, GoodFields DEF Good, OnTop
  <2>2. Len(out.refs) = n /\ n \in 1 .. n /\ out.refs[n] = below /\ Last(out.refs) = below
    <3>1. Len(out.refs) = n /\ \A i \in 1 .. n : out.refs[i] = s.refs[i]
      BY <1>1, <2>1, FrontGives
    <3>2. n \in Nat /\ n # 0
      <4>1. Len(out.refs) \in Nat /\ Len(out.refs) # 0
        BY <1>1, <1>4, GoodFields
      <4> QED BY <3>1, <4>1
    <3> HIDE DEF n
    <3>3. n \in 1 .. n
      BY <3>2
    <3> QED BY <3>1, <3>3 DEF Last
  <2>3. s.refs[n + 1] # 0 /\ n \in 1 .. Len(s.refs) /\ n + 1 \in 1 .. Len(s.refs) /\ n < n + 1
    BY <1>1, <2>1, <2>2, TopFacts
  <2>4. below # 0 /\ PutLast(s.mem, below, s.refs[n + 1])
    BY <2>1, <2>2, <2>3 DEF Linked
  <2>5. out.mem[below] = s.mem[below]
    BY <1>1, <2>2, <2>4
  <2> HIDE DEF n, below
  <2>6. OnTop(out) # 0 /\ Last(out.refs) # 0
    BY <1>4, <2>2, <2>4 DEF OnTop
  <2>7. CASE Top(out).kind # "array"
    BY <1>1, <1>2, <1>4, <2>6, <2>7
  <2>8. CASE Top(out).kind = "array"
    <3> DEFINE old == Top(out).kids
               kids == Front1(old)
               t == [out EXCEPT !.mem[Last(out.refs)].kids = kids]
    <3>1. FilterEndArray(s, keep) = t
      BY <1>2, <1>4, <2>6, <2>8 DEF Top
    <3>2. old \in Seq(Kid)
      BY <1>1, <1>4, <2>6, TopFacts DEF Top
    <3>3. old # <<>>
      <4>1. old = s.mem[below].kids
        BY <2>2, <2>5 DEF Top
      <4>2. \E j \in 1 .. Len(old) : TRUE
        BY <2>4, <4>1 DEF PutLast
      <4> HIDE DEF old
      <4> QED BY <3>2, <4>2, Sequence
    <3>4. kids \in Seq(Kid) /\ \A j \in 1 .. Len(kids) : \E i \in 1 .. Len(old) : kids[j] = old[i]
      <4> HIDE DEF old
      <4>1. Len(old) \in Nat
        BY <3>2, Sequence
      <4>2. kids \in Seq(Kid) /\ Len(kids) = Len(old) - 1
            /\ \A j \in 1 .. Len(old) - 1 : kids[j] = old[j]
        BY <3>2, <3>3, FrontGives
      <4>3. \A j \in 1 .. Len(old) - 1 : j \in 1 .. Len(old)
        BY <4>1
      <4> HIDE DEF kids
      <4> QED BY <4>2, <4>3
    <3> HIDE DEF kids
    <3>5. Good(t) /\ Like(out, t)
      BY <1>1, <1>4, <2>6, <3>4, FewerKids
    <3>6. Matches(t, Front1(bits))
      BY <1>1, <3>5, LikeMatches
    <3> QED BY <3>1, <3>5, <3>6
  <2> QED BY <2>7, <2>8
<1> QED BY <1>3, <1>4

-----------------------------------------------------------------------------
(* One call of either handler.                                             *)

LEMMA ValueTold ==
    ASSUME NEW s, Good(s), CanTake(s), NEW bits \in Seq(BOOLEAN), Matches(s, bits),
           NEW what \in Scalars, NEW t \in EitherSax(s, Event("value", what))
    PROVE  Good(t) /\ Matches(t, bits)
<1>1. what \in Kinds
  BY DEF Kinds
<1>2. CASE IsFilter(s)
  <2>1. PICK keep \in BOOLEAN : t = handle_value_filtered(s, what, keep).st
    BY <1>2 DEF EitherSax, FilterSax, Event
  <2>2. Good(t) /\ Like(s, t)
    BY <1>1, <1>2, <2>1, FilteredPlaced DEF Placed
  <2> QED BY <2>2, LikeMatches
<1>3. CASE ~IsFilter(s)
  <2>1. t = handle_value(s, what).st
    BY <1>3 DEF EitherSax, DomSax, Event
  <2>2. Good(t) /\ Like(s, t)
    BY <1>1, <1>3, <2>1, ValuePlaced DEF Placed
  <2> QED BY <2>2, LikeMatches
<1> QED BY <1>2, <1>3

LEMMA StartTold ==
    ASSUME NEW s, Good(s), CanTake(s), NEW bits \in Seq(BOOLEAN), Matches(s, bits),
           NEW kind \in {"array", "object"}, NEW name,
           name = IF kind = "array" THEN "start_array" ELSE "start_object",
           NEW t \in EitherSax(s, Event(name, ""))
    PROVE  Good(t) /\ Matches(t, Pushed(bits, kind))
<1>1. CASE IsFilter(s)
  <2>1. PICK keep \in BOOLEAN : t = Opened(s, kind, keep)
    BY <1>1 DEF EitherSax, FilterSax, Event
  <2> QED BY <1>1, <2>1, OpenedGood
<1>2. CASE ~IsFilter(s)
  <2>1. t = Container(s, kind)
    BY <1>2 DEF EitherSax, DomSax, Event
  <2> QED BY <1>2, <2>1, ContainerGood
<1> QED BY <1>1, <1>2

LEMMA KeyTold ==
    ASSUME NEW s, Good(s), NEW bits \in Seq(BOOLEAN), bits # <<>>, ~Last(bits), Matches(s, bits),
           NEW k \in Strings, NEW t \in EitherSax(s, Event("key", k))
    PROVE  Good(t) /\ Matches(t, bits) /\ Ready(t)
<1>1. CASE IsFilter(s)
  <2>1. PICK keep \in BOOLEAN : t = FilterKey(s, k, keep)
    BY <1>1 DEF EitherSax, FilterSax, Event
  <2> QED BY <1>1, <2>1, FilterKeyReady
<1>2. CASE ~IsFilter(s)
  <2>1. s.refs # <<>> /\ Top(s).kind = "object"
    BY <1>2, DomKeyReady
  <2>2. t = DomKey(s, k)
    BY <1>2, <2>1 DEF EitherSax, DomSax, Event
  <2> QED BY <1>2, <2>2, DomKeyReady
<1> QED BY <1>1, <1>2

LEMMA EndTold ==
    ASSUME NEW s, Good(s), NEW kind \in {"array", "object"}, NEW name,
           name = IF kind = "array" THEN "end_array" ELSE "end_object",
           NEW bits \in Seq(BOOLEAN), bits # <<>>, Last(bits) = (kind = "array"),
           Matches(s, bits), NEW t \in EitherSax(s, Event(name, ""))
    PROVE  Good(t) /\ Matches(t, Front1(bits))
<1>1. CASE IsFilter(s)
  <2>1. CASE kind = "array"
    <3>1. PICK keep \in BOOLEAN : t = FilterEndArray(s, keep)
      BY <1>1, <2>1 DEF EitherSax, FilterSax, Event
    <3> QED BY <1>1, <3>1, FilterEndArrayGood
  <2>2. CASE kind = "object"
    <3>1. PICK keep \in BOOLEAN : t = FilterEndObject(s, keep)
      BY <1>1, <2>2 DEF EitherSax, FilterSax, Event
    <3> QED BY <1>1, <3>1, FilterEndObjectGood
  <2> QED BY <2>1, <2>2
<1>2. CASE ~IsFilter(s)
  <2>1. t = Closed(s, kind)
    BY <1>2 DEF EitherSax, DomSax, Event
  <2> QED BY <1>2, <2>1, ClosedGood
<1> QED BY <1>1, <1>2

LEMMA ErrorTold ==
    ASSUME NEW s, Good(s), NEW t \in EitherSax(s, Event("parse_error", ""))
    PROVE  Good(t)
<1>1. t = [s EXCEPT !.errored = TRUE]
  BY DEF EitherSax, DomSax, FilterSax, Event
<1>2. SameValue(s, t)
  BY <1>1, GoodFields DEF SameValue
<1> QED BY <1>2, SameValueGood

\* Bits.
LEMMA BitFacts ==
    ASSUME NEW q \in Seq(BOOLEAN), NEW b \in BOOLEAN
    PROVE  /\ Append(q, b) \in Seq(BOOLEAN) /\ Append(q, b) # <<>> /\ Last(Append(q, b)) = b
           /\ Front1(Append(q, b)) = q
           /\ Len(q) \in Nat /\ Len(Append(q, b)) = Len(q) + 1 /\ (q # <<>> <=> Len(q) # 0)
           /\ \A i \in 1 .. Len(q) : Append(q, b)[i] = q[i]
<1>1. /\ Append(q, b) \in Seq(BOOLEAN) /\ Append(q, b) # <<>> /\ Len(Append(q, b)) = Len(q) + 1
      /\ Append(q, b)[Len(q) + 1] = b /\ \A i \in 1 .. Len(q) : Append(q, b)[i] = q[i]
  BY AppendProperties
<1>2. Len(q) \in Nat /\ (q # <<>> <=> Len(q) # 0)
  BY Sequence
<1>3. Last(Append(q, b)) = b
  BY <1>1 DEF Last
<1>4. Front1(Append(q, b)) = q
  <2>1. PICK r : r = Append(q, b)
    OBVIOUS
  <2>2. r \in Seq(BOOLEAN) /\ r # <<>> /\ Len(r) - 1 = Len(q)
    BY <1>1, <1>2, <2>1
  <2>3. /\ Front1(r) \in Seq(BOOLEAN) /\ Len(Front1(r)) = Len(r) - 1
        /\ \A i \in 1 .. Len(r) - 1 : Front1(r)[i] = r[i]
    BY <2>2, FrontGives
  <2>4. \A i \in 1 .. Len(q) : Front1(r)[i] = q[i]
    BY <1>1, <2>1, <2>2, <2>3
  <2>5. Front1(r) = q
    BY <2>2, <2>3, <2>4, SeqEqual
  <2> QED BY <2>1, <2>5
<1> QED BY <1>1, <1>2, <1>3, <1>4

\* A value is only asked for where one can go.
LEMMA ValueCanTake ==
    ASSUME NEW s, Good(s), NEW bits \in Seq(BOOLEAN), Matches(s, bits),
           bits # <<>> => Last(bits) \/ Ready(s)
    PROVE  CanTake(s)
<1>1. CASE bits = <<>>
  <2>1. s.refs = <<>>
    BY <1>1, GoodFields, Sequence DEF Matches
  <2> QED BY <2>1 DEF CanTake
<1>2. CASE bits # <<>> /\ Ready(s)
  BY <1>2 DEF CanTake
<1>3. CASE bits # <<>> /\ Last(bits)
  <2>1. CASE s.refs = <<>> \/ OnTop(s) = 0
    BY <2>1 DEF CanTake
  <2>2. CASE s.refs # <<>> /\ OnTop(s) # 0
    BY <1>3, <2>2, TopKind DEF CanTake, OnTop
  <2> QED BY <2>1, <2>2
<1> QED BY <1>1, <1>2, <1>3

-----------------------------------------------------------------------------
(* The parser.                                                             *)

LEMMA InitInv == Init => Inv
<1> SUFFICES ASSUME Init PROVE Inv
  OBVIOUS
<1>1. states = <<>> /\ at = "value" /\ sax \in {DomStart, FilterStart}
  BY DEF Init, BothStarts
<1>2. /\ DOMAIN DomStart = DomFields /\ DomStart.mem = <<>> /\ DomStart.refs = <<>>
      /\ DomStart.sound = TRUE /\ DomStart.go = TRUE
  BY DEF DomStart, DomFields
<1>3. /\ DOMAIN FilterStart = FilterFields /\ FilterStart.mem = <<>> /\ FilterStart.refs = <<>>
      /\ FilterStart.sound = TRUE /\ FilterStart.go = TRUE /\ FilterStart.keyKeep = <<>>
  BY DEF FilterStart, FilterFields, DomFields
<1>4. DOMAIN sax \in {DomFields, FilterFields} /\ sax.mem = <<>> /\ sax.refs = <<>>
      /\ sax.sound = TRUE /\ sax.go = TRUE
  BY <1>1, <1>2, <1>3
<1>5. IsFilter(sax) => sax.keyKeep = <<>>
  <2>1. "keep" \notin DomFields
    BY DEF DomFields
  <2> QED BY <1>1, <1>2, <1>3, <2>1 DEF IsFilter
<1>6. <<>> \in Seq(Node) /\ <<>> \in Seq(BOOLEAN) /\ <<>> \in Seq(0 .. 0) /\ Len(<<>>) = 0
  BY EmptySeq
<1>7. Good(sax)
  <2>1. PICK r : r = sax.refs
    OBVIOUS
  <2>2. PICK m : m = sax.mem
    OBVIOUS
  <2>3. Len(r) = 0 /\ r \in Seq(0 .. Len(m)) /\ Len(m) = 0 /\ m \in Seq(Node)
    BY <1>4, <1>6, <2>1, <2>2
  <2>4. (\A i \in 1 .. Len(r) : FALSE) /\ (\A i \in 1 .. Len(r) - 1 : FALSE)
        /\ \A i \in 1 .. Len(m) : FALSE
    BY <2>3
  <2>5. Linked(m, r) /\ Downwards(m)
    BY <2>3, <2>4 DEF Linked, Downwards
  <2>6. IsFilter(sax) => sax.keyKeep \in Seq(BOOLEAN)
    BY <1>5, <1>6
  <2> QED BY <1>4, <2>1, <2>2, <2>3, <2>4, <2>5, <2>6, Zenon DEF Good
<1>8. Matches(sax, <<>>)
  BY <1>4, <1>6 DEF Matches
<1> QED BY <1>1, <1>6, <1>7, <1>8 DEF Inv, Fits, Open, Places

\* Steps that call the handler.
LEMMA BeginObjectInv == Inv /\ BeginObject => Inv'
<1> SUFFICES ASSUME Inv, BeginObject PROVE Inv'
  OBVIOUS
<1>1. /\ at = "value" /\ states' = states /\ sax' \in EitherSax(sax, Event("start_object", ""))
      /\ at' = IF sax'.go THEN "first key" ELSE "stopped"
  BY DEF BeginObject, Tell
<1>2. /\ states \in Seq(BOOLEAN) /\ Good(sax) /\ Matches(sax, states)
      /\ states # <<>> => Last(states) \/ Ready(sax)
  BY <1>1 DEF Inv, Fits, Open, Places
<1>3. CanTake(sax)
  BY <1>2, ValueCanTake
<1>4. Good(sax') /\ Matches(sax', Pushed(states, "object"))
  BY <1>1, <1>2, <1>3, StartTold
<1>5. at' = "first key" /\ Pushed(states, "object") = Append(states, FALSE)
  BY <1>1, <1>4 DEF Good, Pushed
<1> QED BY <1>1, <1>2, <1>4, <1>5 DEF Inv, Fits, Open, Places

LEMMA BeginArrayInv == Inv /\ BeginArray => Inv'
<1> SUFFICES ASSUME Inv, BeginArray PROVE Inv'
  OBVIOUS
<1>1. /\ at = "value" /\ states' = states /\ sax' \in EitherSax(sax, Event("start_array", ""))
      /\ at' = IF sax'.go THEN "first element" ELSE "stopped"
  BY DEF BeginArray, Tell
<1>2. /\ states \in Seq(BOOLEAN) /\ Good(sax) /\ Matches(sax, states)
      /\ states # <<>> => Last(states) \/ Ready(sax)
  BY <1>1 DEF Inv, Fits, Open, Places
<1>3. CanTake(sax)
  BY <1>2, ValueCanTake
<1>4. Good(sax') /\ Matches(sax', Pushed(states, "array"))
  BY <1>1, <1>2, <1>3, StartTold
<1>5. at' = "first element" /\ Pushed(states, "array") = Append(states, TRUE)
  BY <1>1, <1>4 DEF Good, Pushed
<1> QED BY <1>1, <1>2, <1>4, <1>5 DEF Inv, Fits, Open, Places

LEMMA FirstKeyInv == Inv /\ FirstKey => Inv'
<1> SUFFICES ASSUME Inv, FirstKey PROVE Inv'
  OBVIOUS
<1> DEFINE open == Append(states, FALSE)
<1>1. at = "first key" /\ states' = states
  BY DEF FirstKey
<1>2. states \in Seq(BOOLEAN) /\ Good(sax) /\ Matches(sax, open)
  BY <1>1 DEF Inv, Fits, Open, Places
<1>3. open \in Seq(BOOLEAN) /\ open # <<>> /\ Last(open) = FALSE /\ Front1(open) = states
  BY <1>2, BitFacts
<1>4. CASE Tell("end_object", "", "evaluate")
  <2>1. sax' \in EitherSax(sax, Event("end_object", ""))
        /\ at' = IF sax'.go THEN "evaluate" ELSE "stopped"
    BY <1>4 DEF Tell
  <2>2. Good(sax') /\ Matches(sax', Front1(open))
    <3> HIDE DEF open
    <3>1. Last(open) = ("object" = "array")
      BY <1>3
    <3> QED BY <1>2, <1>3, <2>1, <3>1, EndTold
  <2>3. at' = "evaluate"
    BY <2>1, <2>2 DEF Good
  <2> QED BY <1>1, <1>2, <1>3, <2>2, <2>3 DEF Inv, Fits, Open, Places
<1>5. CASE token \in Strings /\ Tell("key", token, "first separator")
  <2>1. sax' \in EitherSax(sax, Event("key", token)) /\ token \in Strings
        /\ at' = IF sax'.go THEN "first separator" ELSE "stopped"
    BY <1>5 DEF Tell
  <2>2. Good(sax') /\ Matches(sax', open) /\ Ready(sax')
    <3> HIDE DEF open
    <3> QED BY <1>2, <1>3, <2>1, KeyTold
  <2>3. at' = "first separator"
    BY <2>1, <2>2 DEF Good
  <2> QED BY <1>1, <1>2, <2>2, <2>3 DEF Inv, Fits, Open, Places
<1> QED BY <1>4, <1>5 DEF FirstKey

LEMMA FirstElementInv == Inv /\ FirstElement => Inv'
<1> SUFFICES ASSUME Inv, FirstElement PROVE Inv'
  OBVIOUS
<1> DEFINE open == Append(states, TRUE)
<1>1. at = "first element"
  BY DEF FirstElement
<1>2. states \in Seq(BOOLEAN) /\ Good(sax) /\ Matches(sax, open)
  BY <1>1 DEF Inv, Fits, Open, Places
<1>3. open \in Seq(BOOLEAN) /\ open # <<>> /\ Last(open) = TRUE /\ Front1(open) = states
  BY <1>2, BitFacts
<1>4. CASE Tell("end_array", "", "evaluate") /\ states' = states
  <2>1. sax' \in EitherSax(sax, Event("end_array", ""))
        /\ at' = IF sax'.go THEN "evaluate" ELSE "stopped"
    BY <1>4 DEF Tell
  <2>2. Good(sax') /\ Matches(sax', Front1(open))
    <3> HIDE DEF open
    <3>1. Last(open) = ("array" = "array")
      BY <1>3
    <3> QED BY <1>2, <1>3, <2>1, <3>1, EndTold
  <2>3. at' = "evaluate"
    BY <2>1, <2>2 DEF Good
  <2> QED BY <1>2, <1>3, <1>4, <2>2, <2>3 DEF Inv, Fits, Open, Places
<1>5. CASE Quiet("value") /\ states' = open
  <2>1. sax' = sax /\ at' = "value"
    BY <1>5 DEF Quiet
  <2> HIDE DEF open
  <2> QED BY <1>2, <1>3, <1>5, <2>1 DEF Inv, Fits, Open, Places
<1> QED BY <1>4, <1>5 DEF FirstElement

LEMMA ScalarValueInv == Inv /\ ScalarValue => Inv'
<1> SUFFICES ASSUME Inv, ScalarValue PROVE Inv'
  OBVIOUS
<1>1. /\ at = "value" /\ token \in Scalars /\ states' = states
      /\ sax' \in EitherSax(sax, Event("value", token))
      /\ at' = IF sax'.go THEN "evaluate" ELSE "stopped"
  BY DEF ScalarValue, Tell
<1>2. /\ states \in Seq(BOOLEAN) /\ Good(sax) /\ Matches(sax, states)
      /\ states # <<>> => Last(states) \/ Ready(sax)
  BY <1>1 DEF Inv, Fits, Open, Places
<1>3. CanTake(sax)
  BY <1>2, ValueCanTake
<1>4. Good(sax') /\ Matches(sax', states)
  BY <1>1, <1>2, <1>3, ValueTold
<1>5. at' = "evaluate"
  BY <1>1, <1>4 DEF Good
<1> QED BY <1>1, <1>2, <1>4, <1>5 DEF Inv, Fits, Open, Places

LEMMA EndArrayInv == Inv /\ EndArray => Inv'
<1> SUFFICES ASSUME Inv, EndArray PROVE Inv'
  OBVIOUS
<1>1. /\ at = "next" /\ Last(states) /\ states' = Front1(states)
      /\ sax' \in EitherSax(sax, Event("end_array", ""))
      /\ at' = IF sax'.go THEN "evaluate" ELSE "stopped"
  BY DEF EndArray, Tell, Pop, Front1
<1>2. states \in Seq(BOOLEAN) /\ states # <<>> /\ Good(sax) /\ Matches(sax, states)
  BY <1>1 DEF Inv, Fits, Open, Places
<1>3. Front1(states) \in Seq(BOOLEAN) /\ Last(states) = TRUE
  <2>1. Last(states) = states[Len(states)] /\ Len(states) \in 1 .. Len(states)
    BY <1>2, Sequence DEF Last
  <2>2. states[Len(states)] \in BOOLEAN
    BY <1>2, <2>1, Sequence
  <2> QED BY <1>1, <1>2, <2>1, <2>2, FrontGives
<1>4. Good(sax') /\ Matches(sax', Front1(states))
  <2>1. Last(states) = ("array" = "array")
    BY <1>3
  <2> QED BY <1>1, <1>2, <2>1, EndTold
<1>5. at' = "evaluate"
  BY <1>1, <1>4 DEF Good
<1> QED BY <1>1, <1>3, <1>4, <1>5 DEF Inv, Fits, Open, Places

LEMMA EndObjectInv == Inv /\ EndObject => Inv'
<1> SUFFICES ASSUME Inv, EndObject PROVE Inv'
  OBVIOUS
<1>1. /\ at = "next" /\ ~Last(states) /\ states' = Front1(states)
      /\ sax' \in EitherSax(sax, Event("end_object", ""))
      /\ at' = IF sax'.go THEN "evaluate" ELSE "stopped"
  BY DEF EndObject, Tell, Pop, Front1
<1>2. states \in Seq(BOOLEAN) /\ states # <<>> /\ Good(sax) /\ Matches(sax, states)
  BY <1>1 DEF Inv, Fits, Open, Places
<1>3. Front1(states) \in Seq(BOOLEAN) /\ Last(states) = FALSE
  <2>1. Last(states) = states[Len(states)] /\ Len(states) \in 1 .. Len(states)
    BY <1>2, Sequence DEF Last
  <2>2. states[Len(states)] \in BOOLEAN
    BY <1>2, <2>1, Sequence
  <2> QED BY <1>1, <1>2, <2>1, <2>2, FrontGives
<1>4. Good(sax') /\ Matches(sax', Front1(states))
  <2>1. Last(states) = ("object" = "array")
    BY <1>3
  <2> QED BY <1>1, <1>2, <2>1, EndTold
<1>5. at' = "evaluate"
  BY <1>1, <1>4 DEF Good
<1> QED BY <1>1, <1>3, <1>4, <1>5 DEF Inv, Fits, Open, Places

LEMMA KeyInv == Inv /\ Key => Inv'
<1> SUFFICES ASSUME Inv, Key PROVE Inv'
  OBVIOUS
<1>1. /\ at = "key" /\ token \in Strings /\ states' = states
      /\ sax' \in EitherSax(sax, Event("key", token))
      /\ at' = IF sax'.go THEN "separator" ELSE "stopped"
  BY DEF Key, Tell
<1>2. /\ states \in Seq(BOOLEAN) /\ states # <<>> /\ ~Last(states)
      /\ Good(sax) /\ Matches(sax, states)
  BY <1>1 DEF Inv, Fits, Open, Places
<1>3. Good(sax') /\ Matches(sax', states) /\ Ready(sax')
  BY <1>1, <1>2, KeyTold
<1>4. at' = "separator"
  BY <1>1, <1>3 DEF Good
<1> QED BY <1>1, <1>2, <1>3, <1>4 DEF Inv, Fits, Open, Places

\* Steps between two calls.
LEMMA QuietInv ==
    ASSUME Inv, FirstSeparator \/ Evaluate \/ NextElement \/ NextMember \/ Separator \/ Strict
    PROVE  Inv'
<1>1. sax' = sax /\ states \in Seq(BOOLEAN) /\ Good(sax)
  BY DEF Inv, Fits, FirstSeparator, Evaluate, NextElement, NextMember, Separator, Strict, Quiet
<1>2. CASE FirstSeparator
  <2>1. at = "first separator" /\ at' = "value" /\ states' = Append(states, FALSE)
    BY <1>2 DEF FirstSeparator, Quiet
  <2>2. Matches(sax, Append(states, FALSE)) /\ Ready(sax)
    BY <2>1 DEF Inv, Fits, Open, Places
  <2>3. Append(states, FALSE) \in Seq(BOOLEAN)
    BY <1>1, BitFacts
  <2> QED BY <1>1, <2>1, <2>2, <2>3 DEF Inv, Fits, Open, Places
<1>3. CASE Evaluate
  <2>1. at = "evaluate" /\ states' = states
        /\ at' = IF states = <<>> THEN "strict" ELSE "next"
    BY <1>3 DEF Evaluate, Quiet
  <2>2. Matches(sax, states)
    BY <2>1 DEF Inv, Fits, Open, Places
  <2> QED BY <1>1, <2>1, <2>2 DEF Inv, Fits, Open, Places
<1>4. CASE NextElement
  <2>1. at = "next" /\ states' = states /\ at' = "value" /\ Last(states)
    BY <1>4 DEF NextElement, Quiet
  <2>2. Matches(sax, states) /\ states # <<>>
    BY <2>1 DEF Inv, Fits, Open, Places
  <2> QED BY <1>1, <2>1, <2>2 DEF Inv, Fits, Open, Places
<1>5. CASE NextMember
  <2>1. at = "next" /\ states' = states /\ at' = "key" /\ ~Last(states)
    BY <1>5 DEF NextMember, Quiet
  <2>2. Matches(sax, states) /\ states # <<>>
    BY <2>1 DEF Inv, Fits, Open, Places
  <2> QED BY <1>1, <2>1, <2>2 DEF Inv, Fits, Open, Places
<1>6. CASE Separator
  <2>1. at = "separator" /\ states' = states /\ at' = "value"
    BY <1>6 DEF Separator, Quiet
  <2>2. Matches(sax, states) /\ Ready(sax)
    BY <2>1 DEF Inv, Fits, Open, Places
  <2> QED BY <1>1, <2>1, <2>2 DEF Inv, Fits, Open, Places
<1>7. CASE Strict
  <2>1. states' = states /\ at' = "accepted"
    BY <1>7 DEF Strict, Quiet
  <2> QED BY <1>1, <2>1 DEF Inv, Fits, Places, Over
<1> QED BY <1>2, <1>3, <1>4, <1>5, <1>6, <1>7

\* The text ends, with an error or after it.
LEMMA OverInv ==
    ASSUME Inv, Unexpected \/ Ended
    PROVE  Inv'
<1>1. CASE Unexpected
  <2>1. at' = "error" /\ states' = states /\ sax' \in EitherSax(sax, Event("parse_error", ""))
    BY <1>1 DEF Unexpected, parse_error
  <2>2. Good(sax) /\ states \in Seq(BOOLEAN)
    BY DEF Inv, Fits
  <2>3. Good(sax')
    BY <2>1, <2>2, ErrorTold
  <2> QED BY <2>1, <2>2, <2>3 DEF Inv, Fits, Places, Over
<1>2. CASE Ended
  <2>1. UNCHANGED <<at, states, sax>>
    BY <1>2 DEF Ended, vars
  <2> QED BY <2>1 DEF Inv, Fits
<1> QED BY <1>1, <1>2

LEMMA StepInv == Inv /\ [Next]_vars => Inv'
<1> SUFFICES ASSUME Inv, [Next]_vars PROVE Inv'
  OBVIOUS
<1>1. CASE UNCHANGED vars
  <2>1. UNCHANGED <<at, states, sax>>
    BY <1>1 DEF vars
  <2> QED BY <2>1 DEF Inv, Fits
<1>2. CASE Next
  BY <1>2, BeginObjectInv, BeginArrayInv, FirstKeyInv, FirstElementInv, ScalarValueInv,
     EndArrayInv, EndObjectInv, KeyInv, QuietInv, OverInv DEF Next
<1> QED BY <1>1, <1>2

LEMMA InvSound == Inv => PointersSound
<1> SUFFICES ASSUME Inv PROVE PointersSound
  OBVIOUS
<1>1. /\ states \in Seq(BOOLEAN) /\ at \in Places \cup Over /\ Good(sax)
      /\ at \in Places => Matches(sax, Open(at, states))
  BY DEF Inv, Fits
<1>2. AssertionsHold
  BY <1>1 DEF Good, AssertionsHold
<1>3. PointersStay
  <2>1. SUFFICES ASSUME NEW i \in 1 .. Len(sax.refs) - 1, sax.refs[i + 1] # 0
        PROVE  sax.refs[i] # 0 /\
               \E j \in DOMAIN sax.mem[sax.refs[i]].kids :
                 /\ sax.mem[sax.refs[i]].kids[j].val = sax.refs[i + 1]
                 /\ sax.mem[sax.refs[i]].kind = "array" => j = Len(sax.mem[sax.refs[i]].kids)
    BY DEF PointersStay
  <2>2. /\ Linked(sax.mem, sax.refs) /\ sax.mem \in Seq(Node) /\ Len(sax.refs) \in Nat
        /\ sax.refs \in Seq(0 .. Len(sax.mem))
    BY <1>1, GoodFields DEF Good
  <2>3. i \in 1 .. Len(sax.refs) /\ i + 1 \in 1 .. Len(sax.refs) /\ i < i + 1
    BY <2>2
  <2>4. sax.refs[i] # 0 /\ PutLast(sax.mem, sax.refs[i], sax.refs[i + 1])
    BY <2>1, <2>2, <2>3 DEF Linked
  <2>5. sax.refs[i] \in 0 .. Len(sax.mem) /\ Len(sax.mem) \in Nat
    BY <2>2, <2>3, Sequence
  <2>6. sax.refs[i] \in 1 .. Len(sax.mem)
    BY <2>4, <2>5
  <2>7. DOMAIN sax.mem[sax.refs[i]].kids = 1 .. Len(sax.mem[sax.refs[i]].kids)
    BY <2>2, <2>6, NodeFacts
  <2> QED BY <2>4, <2>7 DEF PutLast
<1>4. StacksAgree
  <2> DEFINE open == Open(at, states)
             extra == IF at \in {"first key", "first separator", "first element"} THEN 1 ELSE 0
  <2>1. SUFFICES ASSUME at \in Places
        PROVE  /\ Len(sax.refs) - Len(states) = extra
               /\ \A i \in DOMAIN states :
                    IF sax.refs[i] = 0 THEN IsFilter(sax)
                    ELSE sax.mem[sax.refs[i]].kind = IF states[i] THEN "array" ELSE "object"
    BY <1>1 DEF StacksAgree, Over
  <2>2. /\ Len(open) = Len(states) + extra /\ Len(states) \in Nat
        /\ DOMAIN states = 1 .. Len(states) /\ \A i \in 1 .. Len(states) : open[i] = states[i]
    <3>1. Len(states) \in Nat /\ DOMAIN states = 1 .. Len(states)
      BY <1>1, Sequence
    <3>2. ASSUME NEW b \in BOOLEAN
          PROVE  /\ Len(Append(states, b)) = Len(states) + 1
                 /\ \A i \in 1 .. Len(states) : Append(states, b)[i] = states[i]
      BY <1>1, BitFacts
    <3>3. CASE open = states /\ extra = 0
      <4> HIDE DEF open, extra
      <4> QED BY <3>1, <3>3
    <3>4. CASE open = Append(states, FALSE) /\ extra = 1
      <4> HIDE DEF open, extra
      <4> QED BY <3>1, <3>2, <3>4
    <3>5. CASE open = Append(states, TRUE) /\ extra = 1
      <4> HIDE DEF open, extra
      <4> QED BY <3>1, <3>2, <3>5
    <3> QED BY <3>3, <3>4, <3>5, Zenon DEF Open
  <2> HIDE DEF open, extra
  <2>3. Matches(sax, open)
    BY <1>1, <2>1 DEF open
  <2>4. extra \in {0, 1} /\ Len(sax.refs) = Len(open)
    BY <2>3 DEF extra, Matches
  <2>5. ASSUME NEW i \in 1 .. Len(states)
        PROVE  IF sax.refs[i] = 0 THEN IsFilter(sax)
               ELSE sax.mem[sax.refs[i]].kind = IF states[i] THEN "array" ELSE "object"
    <3>1. i \in 1 .. Len(open) /\ open[i] = states[i] /\ i \in 1 .. Len(sax.refs)
      BY <2>2, <2>4
    <3>2. CASE sax.refs[i] = 0
      BY <1>1, <3>1, <3>2 DEF Good
    <3>3. CASE sax.refs[i] # 0
      BY <2>3, <3>1, <3>3 DEF Matches
    <3> QED BY <3>2, <3>3
  <2> QED BY <2>2, <2>4, <2>5
<1> QED BY <1>2, <1>3, <1>4 DEF PointersSound

\* On the way the handler's stack of open containers agrees with the parser's, the assertions
\* of the handler hold and no pointer of its stack dangles: for all texts, keys and answers of
\* the callback (sax_parse_internal, json_sax_dom_parser, json_sax_dom_callback_parser).
THEOREM PointersAlwaysSound == Spec => []PointersSound
<1>1. Init => Inv
  BY InitInv
<1>2. Inv /\ [Next]_vars => Inv'
  BY StepInv
<1>3. Inv => PointersSound
  BY InvSound
<1> QED BY <1>1, <1>2, <1>3, PTL DEF Spec

=============================================================================
