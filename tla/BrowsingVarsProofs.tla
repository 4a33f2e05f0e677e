------------------------- MODULE BrowsingVarsProofs --------------------------
(***************************************************************************)
(* The listing is bounded, complete and what Listing promises, for every   *)
(* address space: any number of nodes, any references, cycles included.    *)
(*                                                                         *)
(* TInv says what the call stack may be. Progress ties the rows printed so *)
(* far to where the two loops stand, and gives completeness and the        *)
(* refinement; ValueSource says of which row the variant's memory holds    *)
(* the value, and gives what the VALUE column shows.                       *)
(***************************************************************************)
EXTENDS BrowsingVars, SequenceTheorems, TLAPS

\* A loop stays within the references of its node, and has them all if every
\* answer was whole.
Bounded(frame, w) ==
    /\ frame.size <= Len(Refs[frame.node])
    /\ w /\ frame.sent => frame.size = Len(Refs[frame.node])
    /\ ~frame.sent => frame.j = 1

\* The call of BrowsingVars.
Folder(frame) == /\ frame.node = Objects
                 /\ frame.n = 0
                 /\ frame.value = Uninit

\* A call `sub` made from the folder's loop at the reference it stands at.
Below(frame, sub) == /\ frame.sent
                     /\ frame.j <= frame.size
                     /\ sub.node = Refs[Objects][frame.j]
                     /\ Named(sub.node)
                     /\ Expanded(sub.node)
                     /\ sub.n = 1

\* A call stack s of the traversal: only the folder's call and one call below
\* it are ever active. w says that every answer so far was whole.
Nested(s, w) ==
    /\ s \in Seq(Frames)
    /\ Len(s) \in {0, 1, 2}
    /\ Len(s) >= 1 => Folder(s[1]) /\ Bounded(s[1], w)
    /\ Len(s) = 2 => Below(s[1], s[2]) /\ Bounded(s[2], w)

TInv == TypeOK /\ Nested(stack, whole)

LEMMA FrameType ==
    ASSUME NEW node \in Nodes, NEW n \in Nat, NEW value \in Nodes \cup {Uninit}
    PROVE  Frame(node, n, value) \in Frames
BY DEF Frame, Frames

LEMMA LeftType ==
    ASSUME NEW frame \in Frames
    PROVE  Left(frame) \subseteq Nodes \cup {Uninit}
BY DEF Left, Frames

\* One step of a loop changes its index and nothing else.
LEMMA StepFacts ==
    ASSUME NEW frame \in Frames
    PROVE  LET next == [frame EXCEPT !.j = @ + 1]
           IN  /\ next \in Frames
               /\ next.j = frame.j + 1
               /\ next.node = frame.node
               /\ next.n = frame.n
               /\ next.value = frame.value
               /\ next.below = frame.below
               /\ next.size = frame.size
               /\ next.sent = frame.sent
BY DEF Frames

LEMMA WithTopFacts ==
    ASSUME NEW s \in Seq(Frames), Len(s) > 0, NEW frame \in Frames
    PROVE  /\ WithTop(s, frame) \in Seq(Frames)
           /\ Len(WithTop(s, frame)) = Len(s)
           /\ \A k \in 1 .. Len(s) :
                 WithTop(s, frame)[k] = IF k = Len(s) THEN frame ELSE s[k]
<1>1. Len(s) \in 1 .. Len(s)
  OBVIOUS
<1> QED BY <1>1, ExceptSeq DEF WithTop

LEMMA AdvanceFacts ==
    ASSUME NEW s \in Seq(Frames), Len(s) > 0
    PROVE  /\ Advance(s) \in Seq(Frames)
           /\ Len(Advance(s)) = Len(s)
           /\ \A k \in 1 .. Len(s) :
                 Advance(s)[k] = IF k = Len(s) THEN [s[k] EXCEPT !.j = @ + 1]
                                              ELSE s[k]
<1>1. s[Len(s)] \in Frames
  OBVIOUS
<1>2. [s[Len(s)] EXCEPT !.j = @ + 1] \in Frames
  BY <1>1 DEF Frames
<1>3. \A frame \in Frames :
        /\ WithTop(s, frame) \in Seq(Frames)
        /\ Len(WithTop(s, frame)) = Len(s)
        /\ \A k \in 1 .. Len(s) :
              WithTop(s, frame)[k] = IF k = Len(s) THEN frame ELSE s[k]
  BY WithTopFacts
<1> QED BY <1>2, <1>3 DEF Advance

LEMMA AppendFrame ==
    ASSUME NEW s \in Seq(Frames), NEW frame \in Frames
    PROVE  /\ Append(s, frame) \in Seq(Frames)
           /\ Len(Append(s, frame)) = Len(s) + 1
           /\ \A k \in 1 .. Len(s) : Append(s, frame)[k] = s[k]
           /\ Append(s, frame)[Len(s) + 1] = frame
BY AppendProperties

LEMMA CallFacts ==
    ASSUME NEW s \in Seq(Frames), Len(s) > 0, NEW node \in Nodes, NEW n \in Nat,
           NEW left \in Nodes \cup {Uninit}
    PROVE  /\ Call(s, node, n, left) \in Seq(Frames)
           /\ n > 1 => Call(s, node, n, left) = Advance(s)
           /\ n <= 1 =>
                 /\ Len(Call(s, node, n, left)) = Len(s) + 1
                 /\ \A k \in 1 .. Len(s) : Call(s, node, n, left)[k] = s[k]
                 /\ Call(s, node, n, left)[Len(s) + 1] = Frame(node, n, left)
<1>1. Frame(node, n, left) \in Frames
  BY FrameType
<1>2. CASE n > 1
  BY <1>2, AdvanceFacts DEF Call, TooDeep
<1>3. CASE n <= 1
  BY <1>1, <1>3 DEF Call, TooDeep
<1> QED BY <1>2, <1>3

LEMMA PopFacts ==
    ASSUME NEW s \in Seq(Frames), Len(s) > 0
    PROVE  /\ Pop(s) \in Seq(Frames)
           /\ Len(s) = 1 => Pop(s) = <<>>
           /\ Len(s) = 2 => /\ Len(Pop(s)) = 1
                            /\ Pop(s)[1] = [s[1] EXCEPT !.j = @ + 1,
                                                       !.below = s[2].value]
<1>1. CASE Len(s) = 1
  BY <1>1 DEF Pop
<1>2. CASE Len(s) # 1
  <2> DEFINE c == SubSeq(s, 1, Len(s) - 1)
  <2>1. \A k \in 1 .. Len(s) - 1 : s[k] \in Frames
    OBVIOUS
  <2>2. /\ c \in Seq(Frames)
        /\ Len(c) = Len(s) - 1
        /\ \A k \in 1 .. Len(s) - 1 : c[k] = s[k]
    <3> DEFINE m == Len(s) - 1
    <3>1. m \in Int /\ (m < 1 => m = 0)
      BY SMTT(30)
    <3>2. /\ SubSeq(s, 1, m) \in Seq(Frames)
          /\ Len(SubSeq(s, 1, m)) = IF 1 <= m THEN m - 1 + 1 ELSE 0
          /\ \A i \in 1 .. m - 1 + 1 : SubSeq(s, 1, m)[i] = s[1 + i - 1]
      <4> HIDE DEF m
      <4>1. \A i \in 1 .. m : s[i] \in Frames
        BY <2>1 DEF m
      <4> QED BY <3>1, <4>1, SubSeqProperties
    <3> QED BY <1>2, <3>1, <3>2
  <2> HIDE DEF c
  <2> DEFINE m == Len(s) - 1
             d == [c EXCEPT ![m].below = s[Len(s)].value]
  <2>3. Pop(s) = Advance(d)
    BY <1>2 DEF Pop, Callers, c
  <2>4. m \in 1 .. Len(c) /\ c[m] \in Frames /\ s[Len(s)] \in Frames
    BY <1>2, <2>2
  <2>5. [c[m] EXCEPT !.below = s[Len(s)].value] \in Frames
    BY <2>4 DEF Frames
  <2>6. d = [c EXCEPT ![m] = [c[m] EXCEPT !.below = s[Len(s)].value]]
    OBVIOUS
  <2> HIDE DEF m
  <2>7. d \in Seq(Frames) /\ Len(d) = Len(c)
        /\ d[m] = [c[m] EXCEPT !.below = s[Len(s)].value]
    <3> HIDE DEF d
    <3> QED BY <2>2, <2>4, <2>5, <2>6, ExceptSeq
  <2> HIDE DEF d
  <2>8. Advance(d) \in Seq(Frames) /\ Len(Advance(d)) = Len(d)
        /\ \A k \in 1 .. Len(d) :
              Advance(d)[k] = IF k = Len(d) THEN [d[k] EXCEPT !.j = @ + 1]
                                            ELSE d[k]
    <3>1. Len(d) > 0
      BY <1>2, <2>2, <2>7
    <3> QED BY <2>7, <3>1, AdvanceFacts
  <2>9. ASSUME Len(s) = 2
        PROVE  Advance(d)[1] = [s[1] EXCEPT !.j = @ + 1, !.below = s[2].value]
    <3>1. m = 1 /\ c[1] = s[1] /\ Len(d) = 1
      BY <2>2, <2>7, <2>9 DEF m
    <3>2. d[1] = [s[1] EXCEPT !.below = s[2].value] /\ s[1] \in Frames
      BY <2>4, <2>7, <2>9, <3>1
    <3>3. Advance(d)[1] = [d[1] EXCEPT !.j = @ + 1]
      BY <2>8, <3>1
    <3> QED BY <3>2, <3>3 DEF Frames
  <2> QED BY <1>2, <2>2, <2>3, <2>7, <2>8, <2>9
<1> QED BY <1>1, <1>2

-----------------------------------------------------------------------------
(* What the traversal does to its call stack keeps it well nested.         *)

LEMMA ReplaceNested ==
    ASSUME NEW s, NEW w \in BOOLEAN, NEW v \in BOOLEAN, Nested(s, w), v => w,
           Len(s) > 0, NEW frame \in Frames,
           frame.node = s[Len(s)].node, frame.n = s[Len(s)].n,
           Len(s) = 1 => frame.value = Uninit,
           Bounded(frame, v)
    PROVE  Nested(WithTop(s, frame), v)
<1> DEFINE t == WithTop(s, frame)
<1>1. /\ t \in Seq(Frames)
      /\ Len(t) = Len(s)
      /\ \A k \in 1 .. Len(s) : t[k] = IF k = Len(s) THEN frame ELSE s[k]
  BY WithTopFacts DEF Nested
<1> SUFFICES Nested(t, v)
  OBVIOUS
<1> HIDE DEF t
<1>2. CASE Len(s) = 1
  BY <1>1, <1>2 DEF Nested, Folder
<1>3. CASE Len(s) = 2
  <2>1. t[1] = s[1] /\ t[2] = frame
    BY <1>1, <1>3
  <2>2. Bounded(s[1], w) /\ Below(s[1], s[2]) /\ Folder(s[1])
    BY <1>3 DEF Nested
  <2>3. Bounded(s[1], v) /\ Below(s[1], frame)
    BY <1>3, <2>2 DEF Bounded, Below
  <2> QED BY <1>1, <1>3, <2>1, <2>2, <2>3 DEF Nested
<1>4. Len(s) \in {1, 2}
  BY DEF Nested
<1> QED BY <1>2, <1>3, <1>4

\* The loop of the top call goes on to its next reference.
LEMMA AdvanceNested ==
    ASSUME NEW s, NEW w \in BOOLEAN, Nested(s, w), Len(s) > 0,
           s[Len(s)].sent
    PROVE  Nested(Advance(s), w)
<1> DEFINE frame == [s[Len(s)] EXCEPT !.j = @ + 1]
<1>1. s[Len(s)] \in Frames
  BY DEF Nested
<1>2. /\ frame \in Frames
      /\ frame.node = s[Len(s)].node
      /\ frame.n = s[Len(s)].n
      /\ frame.value = s[Len(s)].value
      /\ frame.size = s[Len(s)].size
      /\ frame.sent = s[Len(s)].sent
      /\ frame.j = s[Len(s)].j + 1
  BY <1>1, StepFacts
<1>3. Advance(s) = WithTop(s, frame)
  BY DEF Advance
<1> HIDE DEF frame
<1>4. Len(s) \in {1, 2} /\ Bounded(s[Len(s)], w)
      /\ (Len(s) = 1 => s[Len(s)].value = Uninit)
  BY DEF Nested, Folder
<1>5. Bounded(frame, w)
  BY <1>2, <1>4 DEF Bounded
<1> QED BY <1>2, <1>3, <1>4, <1>5, ReplaceNested

\* The folder's loop calls BrowsingVarsRecursion at the reference it is at.
LEMMA CallNested ==
    ASSUME NEW s, NEW w \in BOOLEAN, Nested(s, w), Len(s) = 1,
           s[1].sent, s[1].j <= s[1].size,
           NEW node \in Nodes, node = Refs[Objects][s[1].j],
           Named(node), Expanded(node), NEW left \in Nodes \cup {Uninit}
    PROVE  Nested(Call(s, node, 1, left), w)
<1> DEFINE t == Call(s, node, 1, left)
<1>1. /\ t \in Seq(Frames)
      /\ Len(t) = 2
      /\ t[1] = s[1]
      /\ t[2] = Frame(node, 1, left)
  <2>1. s \in Seq(Frames) /\ Len(s) > 0 /\ 1 \in Nat /\ 1 \in 1 .. Len(s)
    BY DEF Nested
  <2>2. /\ Call(s, node, 1, left) \in Seq(Frames)
        /\ Len(Call(s, node, 1, left)) = Len(s) + 1
        /\ \A k \in 1 .. Len(s) : Call(s, node, 1, left)[k] = s[k]
        /\ Call(s, node, 1, left)[Len(s) + 1] = Frame(node, 1, left)
    <3>1. Call(s, node, 1, left) = Append(s, Frame(node, 1, left))
      BY DEF Call, TooDeep
    <3>2. Frame(node, 1, left) \in Frames
      BY <2>1, FrameType
    <3> DEFINE called == Frame(node, 1, left)
    <3>3. called \in Frames /\ Call(s, node, 1, left) = Append(s, called)
      BY <3>1, <3>2
    <3> HIDE DEF called
    <3>4. /\ Append(s, called) \in Seq(Frames)
          /\ Len(Append(s, called)) = Len(s) + 1
          /\ \A k \in 1 .. Len(s) : Append(s, called)[k] = s[k]
          /\ Append(s, called)[Len(s) + 1] = called
      BY <2>1, <3>3, AppendFrame
    <3>5. called = Frame(node, 1, left)
      BY DEF called
    <3> QED BY <3>3, <3>4, <3>5
  <2> QED BY <2>1, <2>2 DEF t
<1> SUFFICES Nested(t, w)
  OBVIOUS
<1> HIDE DEF t
<1>2. Bounded(Frame(node, 1, left), w) /\ Below(s[1], Frame(node, 1, left))
  <2>1. Refs[node] \in Seq(Nodes)
    BY AddressSpaceAssumption
  <2> QED BY <2>1 DEF Bounded, Below, Frame
<1> QED BY <1>1, <1>2 DEF Nested

LEMMA PopNested ==
    ASSUME NEW s, NEW w \in BOOLEAN, Nested(s, w), Len(s) > 0
    PROVE  Nested(Pop(s), w)
<1>1. CASE Len(s) = 1
  <2>1. Pop(s) = <<>>
    BY <1>1, PopFacts DEF Nested
  <2> QED BY <2>1, EmptySeq DEF Nested
<1>2. CASE Len(s) = 2
  <2> DEFINE frame == [s[1] EXCEPT !.j = @ + 1, !.below = s[2].value]
  <2>1. Pop(s) \in Seq(Frames) /\ Len(Pop(s)) = 1 /\ Pop(s)[1] = frame
    BY <1>2, PopFacts DEF Nested
  <2>2. s[1] \in Frames /\ Folder(s[1]) /\ Bounded(s[1], w) /\ s[1].sent
    BY <1>2 DEF Nested, Below
  <2>3. Folder(frame) /\ Bounded(frame, w)
    BY <2>2 DEF Folder, Bounded, Frames
  <2> QED BY <2>1, <2>3 DEF Nested
<1> QED BY <1>1, <1>2 DEF Nested

-----------------------------------------------------------------------------
(* The top call of a well nested stack.                                    *)

LEMMA TopFacts ==
    ASSUME TInv, Active
    PROVE  /\ Top \in Frames
           /\ Top = stack[Len(stack)]
           /\ Len(stack) \in {1, 2}
           /\ Top.n = 0 <=> Len(stack) = 1
           /\ Top.n = 1 <=> Len(stack) = 2
           /\ Refs[Top.node] \in Seq(Nodes)
           /\ Bounded(Top, whole)
           /\ Len(stack) = 1 => Folder(Top)
           /\ stack[1] \in Frames
<1>1. stack \in Seq(Frames) /\ Len(stack) \in {1, 2}
  BY DEF TInv, Nested, Active
<1>2. stack[1] \in Frames
  BY <1>1
<1>3. Top \in Frames /\ Top = stack[Len(stack)]
  BY <1>1 DEF Top
<1>4. Refs[Top.node] \in Seq(Nodes)
  BY <1>3, AddressSpaceAssumption DEF Frames
<1> QED BY <1>1, <1>2, <1>3, <1>4 DEF TInv, Nested, Folder, Below

\* A loop that has not ended stands at a reference of its node.
LEMMA RefFacts ==
    ASSUME TInv, Looping
    PROVE  /\ Top.j \in DOMAIN Refs[Top.node]
           /\ Ref \in Nodes
<1>1. Top.j \in 1 .. Len(Refs[Top.node])
  BY TopFacts DEF Looping, Bounded, Frames
<1> QED BY <1>1, TopFacts DEF Ref, Looping

LEMMA RowType ==
    ASSUME TInv, Active, NEW node \in Nodes, NEW read \in BOOLEAN,
           NEW shown \in Nodes \cup {Blank, Garbage}
    PROVE  Row(node, read, shown) \in Rows
BY TopFacts DEF Row, Rows, Frames

LEMMA AppendRow ==
    ASSUME NEW s \in Seq(Rows), NEW row \in Rows
    PROVE  /\ Append(s, row) \in Seq(Rows)
           /\ Len(Append(s, row)) = Len(s) + 1
           /\ \A k \in 1 .. Len(s) : Append(s, row)[k] = s[k]
           /\ Append(s, row)[Len(s) + 1] = row
BY AppendProperties

LEMMA PrintVariantType ==
    ASSUME NEW value
    PROVE  PrintVariant(value) \subseteq Nodes \cup {Blank, Garbage}
<1>1. CASE value = Uninit
  BY <1>1, AddressSpaceAssumption, SentinelAssumption DEF PrintVariant
<1>2. CASE value # Uninit /\ value \in Printable
  BY <1>2, AddressSpaceAssumption DEF PrintVariant
<1>3. CASE value # Uninit /\ value \notin Printable
  BY <1>3 DEF PrintVariant
<1> QED BY <1>1, <1>2, <1>3

-----------------------------------------------------------------------------
(* Each action keeps the types and the nesting.                            *)

LEMMA InitTyped == Init => TInv
<1> SUFFICES ASSUME Init PROVE TInv
  OBVIOUS
<1>1. Frame(Objects, 0, Uninit) \in Frames
  BY AddressSpaceAssumption, FrameType
<1>2. stack = <<Frame(Objects, 0, Uninit)>> /\ stack \in Seq(Frames)
      /\ Len(stack) = 1 /\ stack[1] = Frame(Objects, 0, Uninit)
  BY <1>1 DEF Init
<1>3. Refs[Objects] \in Seq(Nodes)
  BY AddressSpaceAssumption
<1>4. Folder(stack[1]) /\ Bounded(stack[1], whole)
  BY <1>2, <1>3 DEF Folder, Bounded, Frame
<1>5. Nested(stack, whole)
  BY <1>2, <1>4 DEF Nested
<1>6. out \in Seq(Rows) /\ whole \in BOOLEAN
  BY DEF Init
<1> QED BY <1>2, <1>5, <1>6 DEF TInv, TypeOK

LEMMA BrowseTyped == TInv /\ Browse => TInv'
<1> SUFFICES ASSUME TInv, Browse PROVE TInv'
  OBVIOUS
<1>1. PICK size \in 0 .. Len(Refs[Top.node]) :
        /\ stack' = WithTop(stack, [Top EXCEPT !.sent = TRUE, !.size = size])
        /\ whole' = (whole /\ size = Len(Refs[Top.node]))
  BY DEF Browse
<1> DEFINE frame == [Top EXCEPT !.sent = TRUE, !.size = size]
<1>2. /\ Active
      /\ Top \in Frames
      /\ Refs[Top.node] \in Seq(Nodes)
      /\ size \in Nat
      /\ size <= Len(Refs[Top.node])
  BY TopFacts DEF Browse
<1>3. /\ frame \in Frames
      /\ frame.sent
      /\ frame.size = size
      /\ frame.node = Top.node /\ frame.n = Top.n /\ frame.value = Top.value
  BY <1>2 DEF Frames
<1>4. stack' = WithTop(stack, frame)
  BY <1>1
<1> HIDE DEF frame
<1>5. Bounded(frame, whole')
  BY <1>1, <1>2, <1>3 DEF Bounded
<1>6. whole' \in BOOLEAN /\ (whole' => whole) /\ whole \in BOOLEAN
  BY <1>1 DEF TInv, TypeOK
<1>7. Nested(stack', whole')
  <2>1. Len(stack) = 1 => Top.value = Uninit
    BY <1>2, TopFacts DEF Folder
  <2>2. Nested(stack, whole) /\ Len(stack) > 0 /\ Top = stack[Len(stack)]
    BY <1>2 DEF TInv, Active, Top
  <2> QED BY <1>3, <1>4, <1>5, <1>6, <2>1, <2>2, ReplaceNested
<1> QED BY <1>6, <1>7 DEF TInv, TypeOK, Browse, Nested

\* What the actions of the loops start from.
LEMMA LoopFacts ==
    ASSUME TInv, Looping
    PROVE  /\ stack \in Seq(Frames) /\ Len(stack) > 0
           /\ Nested(stack, whole) /\ whole \in BOOLEAN
           /\ stack[Len(stack)] = Top /\ Top.sent
           /\ Nested(Advance(stack), whole)
<1>1. /\ stack \in Seq(Frames) /\ Len(stack) > 0
      /\ Nested(stack, whole) /\ whole \in BOOLEAN
      /\ stack[Len(stack)] = Top /\ Top.sent
  BY TopFacts DEF TInv, TypeOK, Looping, Active
<1> QED BY <1>1, AdvanceNested

LEMMA ListObjectTyped == TInv /\ ListObject => TInv'
<1> SUFFICES ASSUME TInv, ListObject PROVE TInv'
  OBVIOUS
<1>1. Looping /\ Top.n = 0 /\ Active /\ whole' = whole
  BY DEF ListObject, Looping
<1>2. Ref \in Nodes /\ Len(stack) = 1 /\ stack[1] = Top /\ Folder(Top)
  BY <1>1, RefFacts, TopFacts
<1>3. Nested(stack', whole)
  <2>1. CASE Expanded(Ref)
    <3>1. PICK left \in Nodes \cup {Uninit} : stack' = Call(stack, Ref, 1, left)
      BY <1>1, <2>1, TopFacts, LeftType DEF ListObject
    <3>2. Ref = Refs[Objects][stack[1].j] /\ stack[1].sent
          /\ stack[1].j <= stack[1].size /\ Named(Ref)
      BY <1>1, <1>2 DEF Ref, Folder, Looping, ListObject
    <3>3. Nested(stack, whole) /\ whole \in BOOLEAN
      BY <1>1, LoopFacts
    <3> QED BY <1>2, <2>1, <3>1, <3>2, <3>3, CallNested
  <2>2. CASE ~Expanded(Ref)
    BY <1>1, <2>2, LoopFacts DEF ListObject
  <2> QED BY <2>1, <2>2
<1>4. out' \in Seq(Rows)
  <2>1. Row(Ref, FALSE, Blank) \in Rows
    BY <1>1, <1>2, RowType
  <2>2. out \in Seq(Rows) /\ out' = Append(out, Row(Ref, FALSE, Blank))
    BY DEF ListObject, TInv, TypeOK
  <2> QED BY <2>1, <2>2, AppendRow
<1> QED BY <1>1, <1>3, <1>4, LoopFacts DEF TInv, TypeOK, Nested

LEMMA SkipTyped == TInv /\ (SkipUnnamed \/ SkipNamespace0) => TInv'
<1> SUFFICES ASSUME TInv, SkipUnnamed \/ SkipNamespace0 PROVE TInv'
  OBVIOUS
<1>1. Looping /\ stack' = Advance(stack) /\ UNCHANGED <<out, whole>>
  BY DEF SkipUnnamed, SkipNamespace0
<1>2. Nested(stack', whole')
  BY <1>1, LoopFacts
<1> QED BY <1>1, <1>2 DEF TInv, TypeOK, Nested

LEMMA ReturnTyped == TInv /\ Return => TInv'
<1> SUFFICES ASSUME TInv, Return PROVE TInv'
  OBVIOUS
<1>1. Len(stack) > 0 /\ stack' = Pop(stack) /\ UNCHANGED <<out, whole>>
  BY DEF Return, Active
<1>2. Nested(stack', whole')
  BY <1>1, PopNested DEF TInv, TypeOK
<1> QED BY <1>1, <1>2 DEF TInv, TypeOK, Nested

\* A read happens in the call below the folder's and leaves the stack as it
\* was, but for the value it read and the index of the loop: the recursion
\* refuses depth 2.
LEMMA ReadFacts ==
    ASSUME TInv, ReadReference
    PROVE  /\ Len(stack) = 2 /\ Len(stack') = 2
           /\ Nested(stack', whole)
           /\ stack'[1] = stack[1]
           /\ stack'[2].j = stack[2].j + 1
           /\ stack'[2].node = stack[2].node
           /\ stack'[2].size = stack[2].size
           /\ \E good \in BOOLEAN :
                 LET value == ReadInto(stack[2], Ref, good)
                 IN  /\ stack'[2].value = value
                     /\ good => Ref \in Variables
                     /\ ~Named(Ref) => out' = out
                     /\ Named(Ref) => \E shown \in PrintVariant(value) :
                                        out' = Append(out, Row(Ref, good, shown))
<1>1. Looping /\ Active /\ Top.n > 0 /\ Ref \in Nodes
  BY RefFacts DEF ReadReference, Looping
<1>2. Len(stack) = 2 /\ Top = stack[2] /\ Top.n = 1 /\ Top \in Frames
  BY <1>1, TopFacts
<1>3. PICK good \in ReadOutcomes(Ref) :
        LET value == ReadInto(Top, Ref, good)
            read  == WithTop(stack, [Top EXCEPT !.value = value])
        IN  IF Named(Ref)
              THEN /\ \E shown \in PrintVariant(value) :
                         out' = Append(out, Row(Ref, good, shown))
                   /\ \E left \in Left(Top) :
                         stack' = Call(read, Ref, Top.n + 1, left)
              ELSE /\ stack' = Advance(read)
                   /\ out' = out
  BY DEF ReadReference
<1> DEFINE value == ReadInto(Top, Ref, good)
           frame == [Top EXCEPT !.value = value]
           read == WithTop(stack, frame)
<1>4. good \in BOOLEAN /\ (good => Ref \in Variables)
  BY DEF ReadOutcomes
<1>5. value \in Nodes \cup {Uninit}
  BY <1>1, <1>2 DEF ReadInto, Frames
<1>6. /\ frame \in Frames
      /\ frame.value = value
      /\ frame.j = Top.j /\ frame.node = Top.node /\ frame.n = Top.n
      /\ frame.size = Top.size /\ frame.sent = Top.sent
  BY <1>2, <1>5 DEF Frames
<1>7. stack' = Advance(read)
  <2>1. read \in Seq(Frames) /\ Len(read) = 2
    <3> HIDE DEF frame
    <3> QED BY <1>1, <1>2, <1>6, LoopFacts, WithTopFacts
  <2> HIDE DEF read
  <2>2. \A left : Call(read, Ref, Top.n + 1, left) = Advance(read)
    BY <1>2 DEF Call, TooDeep
  <2> QED BY <1>3, <2>2 DEF read
<1> HIDE DEF frame, value
<1>8. Nested(read, whole) /\ read \in Seq(Frames) /\ Len(read) = 2
      /\ read[1] = stack[1] /\ read[2] = frame
  <2>1. Bounded(Top, whole)
    BY <1>1, TopFacts
  <2>2. Bounded(frame, whole)
    BY <1>6, <2>1 DEF Bounded
  <2>3. Nested(stack, whole) /\ whole \in BOOLEAN /\ stack \in Seq(Frames)
    BY <1>1, LoopFacts
  <2>4. Nested(read, whole)
    <3>1. /\ Len(stack) > 0
          /\ frame.node = stack[Len(stack)].node
          /\ frame.n = stack[Len(stack)].n
          /\ Len(stack) = 1 => frame.value = Uninit
          /\ whole => whole
      BY <1>2, <1>6
    <3>2. frame \in Frames
      BY <1>6
    <3> HIDE DEF frame
    <3>3. Nested(WithTop(stack, frame), whole)
      BY <2>2, <2>3, <3>1, <3>2, ReplaceNested
    <3> QED BY <3>3
  <2>5. /\ WithTop(stack, frame) \in Seq(Frames)
        /\ Len(WithTop(stack, frame)) = Len(stack)
        /\ \A k \in 1 .. Len(stack) : WithTop(stack, frame)[k]
                                        = IF k = Len(stack) THEN frame ELSE stack[k]
    <3>1. stack \in Seq(Frames) /\ Len(stack) > 0 /\ frame \in Frames
      BY <1>2, <1>6, <2>3
    <3> HIDE DEF frame
    <3> QED BY <3>1, WithTopFacts
  <2> QED BY <1>2, <1>6, <2>4, <2>5
<1> HIDE DEF read
<1>9. Nested(stack', whole)
  BY <1>1, <1>2, <1>6, <1>7, <1>8, LoopFacts, AdvanceNested
<1>10. Len(stack') = 2 /\ stack'[1] = read[1]
       /\ stack'[2] = [read[2] EXCEPT !.j = @ + 1]
  <2>1. /\ Advance(read) \in Seq(Frames)
        /\ Len(Advance(read)) = Len(read)
        /\ \A k \in 1 .. Len(read) :
              Advance(read)[k] = IF k = Len(read) THEN [read[k] EXCEPT !.j = @ + 1]
                                                 ELSE read[k]
    <3>1. read \in Seq(Frames) /\ Len(read) > 0
      BY <1>8
    <3> QED BY <3>1, AdvanceFacts
  <2> QED BY <1>7, <1>8, <2>1
<1>11. /\ stack'[2].j = stack[2].j + 1
       /\ stack'[2].node = stack[2].node
       /\ stack'[2].size = stack[2].size
       /\ stack'[2].value = value
  BY <1>2, <1>6, <1>8, <1>10, StepFacts
<1> QED BY <1>2, <1>3, <1>4, <1>8, <1>9, <1>10, <1>11 DEF value

LEMMA ReadReferenceTyped == TInv /\ ReadReference => TInv'
<1> SUFFICES ASSUME TInv, ReadReference PROVE TInv'
  OBVIOUS
<1>1. Active /\ Ref \in Nodes /\ whole' = whole
  BY RefFacts DEF ReadReference, Looping
<1>2. out' \in Seq(Rows)
  <2>1. PICK good \in BOOLEAN :
          /\ ~Named(Ref) => out' = out
          /\ Named(Ref) => \E shown \in PrintVariant(ReadInto(stack[2], Ref, good)) :
                             out' = Append(out, Row(Ref, good, shown))
    BY ReadFacts
  <2>2. CASE Named(Ref)
    <3>1. PICK shown \in PrintVariant(ReadInto(stack[2], Ref, good)) :
            out' = Append(out, Row(Ref, good, shown))
      BY <2>1, <2>2
    <3>2. Row(Ref, good, shown) \in Rows
      BY <1>1, PrintVariantType, RowType
    <3>3. out \in Seq(Rows)
      BY DEF TInv, TypeOK
    <3> QED BY <3>1, <3>2, <3>3, AppendRow
  <2> QED BY <2>1, <2>2 DEF TInv, TypeOK
<1> QED BY <1>1, <1>2, ReadFacts DEF TInv, TypeOK, Nested

LEMMA NextTyped == TInv /\ [Next]_vars => TInv'
<1> SUFFICES ASSUME TInv, [Next]_vars PROVE TInv'
  OBVIOUS
<1>1. CASE UNCHANGED vars
  BY <1>1 DEF vars, TInv, TypeOK
<1> QED BY <1>1, BrowseTyped, ListObjectTyped, SkipTyped, ReadReferenceTyped,
           ReturnTyped DEF Next

\* Type correctness: in every address space, whatever answers and reads fail,
\* the locals of the calls and the printed rows stay in their types.
THEOREM TypeCorrect == Spec => []TypeOK
<1>1. TInv => TypeOK
  BY DEF TInv
<1> QED BY <1>1, InitTyped, NextTyped, PTL DEF Spec

-----------------------------------------------------------------------------
(* What has been listed: the expected positions the loops have passed.     *)

\* The loops of the stack s have gone beyond position p.
Passed(s, p) == \/ Len(s) = 0
                \/ p.at < s[1].j
                \/ Len(s) = 2 /\ p.at = s[1].j /\ p.sub < s[2].j

Progress == /\ Listed \subseteq Expected
            /\ \A p \in Listed : Passed(stack, p)
            /\ whole => \A p \in Expected : Passed(stack, p) => p \in Listed

\* The position of the reference the top loop stands at.
Here == [at |-> stack[1].j, sub |-> IF Len(stack) = 1 THEN 0 ELSE stack[2].j]

LEMMA ExpectedFacts ==
    ASSUME NEW p
    PROVE  p \in Expected <=> /\ p \in [at : Nat, sub : Nat]
                              /\ p.at \in ExpectedTop
                              /\ p.sub = 0 \/ p.sub \in ExpectedSub(p.at)
<1>1. Refs[Objects] \in Seq(Nodes)
  BY AddressSpaceAssumption
<1>2. ExpectedTop \subseteq Nat /\ 0 \in Nat
  BY <1>1 DEF ExpectedTop
<1>3. ASSUME NEW i \in ExpectedTop PROVE ExpectedSub(i) \subseteq Nat \ {0}
  <2>1. Refs[Refs[Objects][i]] \in Seq(Nodes)
    BY <1>1, AddressSpaceAssumption DEF ExpectedTop
  <2> QED BY <2>1 DEF ExpectedSub
<1> QED BY <1>2, <1>3 DEF Expected

\* The step prints p.
Prints(p) == Listed' = Listed \cup {p} /\ Positions' = Append(Positions, p)

LEMMA PositionsFacts ==
    ASSUME out \in Seq(Rows)
    PROVE  /\ Len(Positions) = Len(out) /\ DOMAIN Positions = 1 .. Len(out)
           /\ Positions \in Seq(Listed)
           /\ Listed = {Positions[k] : k \in DOMAIN Positions}
<1>1. DOMAIN out = 1 .. Len(out) /\ Len(out) \in Nat
  OBVIOUS
<1>2. Positions = [k \in 1 .. Len(out) |-> Position(out[k])]
  BY <1>1 DEF Positions
<1>3. \A k \in 1 .. Len(out) : Positions[k] \in Listed
  BY <1>1, <1>2 DEF Listed
<1>4. Positions \in Seq(Listed) /\ Len(Positions) = Len(out)
  BY <1>1, <1>2, <1>3
<1> QED BY <1>1, <1>2, <1>4 DEF Listed

LEMMA ListedAppend ==
    ASSUME NEW row, out \in Seq(Rows), row \in Rows, out' = Append(out, row)
    PROVE  Prints(Position(row))
<1>1. out' \in Seq(Rows) /\ Len(out') = Len(out) + 1
      /\ (\A k \in 1 .. Len(out) : out'[k] = out[k])
      /\ out'[Len(out) + 1] = row
  BY AppendRow
<1>2. DOMAIN out = 1 .. Len(out) /\ DOMAIN out' = 1 .. Len(out) + 1
  BY <1>1
<1>3. DOMAIN out' = DOMAIN out \cup {Len(out) + 1}
  BY <1>1, <1>2
<1>4. Listed' = {Position(out'[k]) : k \in DOMAIN out'}
  BY DEF Listed, Position
<1>5. Listed' = Listed \cup {Position(row)}
  BY <1>1, <1>2, <1>3, <1>4 DEF Listed
<1>6. Positions' = Append(Positions, Position(row))
  <2> DEFINE S == Listed \cup {Position(row)}
             extended == Append(Positions, Position(row))
  <2>1. Positions' = [k \in 1 .. Len(out) + 1 |-> Position(out'[k])]
    BY <1>2 DEF Positions, Position
  <2>2. Positions = [k \in 1 .. Len(out) |-> Position(out[k])]
    BY <1>2 DEF Positions
  <2>3. Positions \in Seq(S) /\ Len(Positions) = Len(out) /\ Len(out) \in Nat
    BY PositionsFacts
  <2>4. /\ extended \in Seq(S) /\ Len(extended) = Len(out) + 1
        /\ \A k \in 1 .. Len(out) : extended[k] = Positions[k]
        /\ extended[Len(out) + 1] = Position(row)
    <3> Position(row) \in S
      OBVIOUS
    <3> HIDE DEF S
    <3> QED BY <2>3, AppendProperties
  <2>5. \A k \in 1 .. Len(out) + 1 : Position(out'[k]) = extended[k]
    <3> HIDE DEF extended, S
    <3>1. \A k \in 1 .. Len(out) : Position(out'[k]) = extended[k]
      BY <1>1, <2>2, <2>4
    <3>2. Position(out'[Len(out) + 1]) = extended[Len(out) + 1]
      BY <1>1, <2>4
    <3> QED BY <2>3, <3>1, <3>2
  <2>6. extended = [k \in 1 .. Len(out) + 1 |-> extended[k]]
    <3> HIDE DEF extended, S
    <3> QED BY <2>3, <2>4
  <2> HIDE DEF extended, S
  <2>7. Positions' = extended
    BY <2>1, <2>5, <2>6
  <2> QED BY <2>7 DEF extended
<1> QED BY <1>5, <1>6 DEF Prints

\* A step that prints nothing and passes no expected position.
LEMMA SilentProgress ==
    ASSUME Progress, Listed' = Listed, whole' => whole,
           \A p \in Expected : Passed(stack, p) => Passed(stack', p),
           whole' => \A p \in Expected : Passed(stack', p) => Passed(stack, p)
    PROVE  Progress'
BY DEF Progress, Passed

\* A step that prints the reference it passes.
LEMMA PrintProgress ==
    ASSUME Progress, Here \in Expected, Prints(Here), whole' => whole,
           \A p \in Expected : Passed(stack', p) <=> Passed(stack, p) \/ p = Here
    PROVE  Progress'
BY DEF Progress, Prints

\* The loops stand at one position, and pass every one before it.
LEMMA HereFacts ==
    ASSUME TInv, Looping
    PROVE  /\ Here \in [at : Nat, sub : Nat]
           /\ \A p \in Expected : Passed(stack, p) => Promise!Before(p, Here)
           /\ ~Passed(stack, Here)
<1>1. /\ Len(stack) \in {1, 2}
      /\ stack[1] \in Frames
      /\ Len(stack) = 2 => stack[2] \in Frames
  BY TopFacts DEF Looping
<1>2. stack[1].j \in Nat \ {0} /\ (Len(stack) = 2 => stack[2].j \in Nat \ {0})
  BY <1>1 DEF Frames
<1>3. Here.at = stack[1].j
      /\ Here.sub = IF Len(stack) = 1 THEN 0 ELSE stack[2].j
  BY DEF Here
<1>4. Here \in [at : Nat, sub : Nat]
  BY <1>1, <1>2 DEF Here
<1>5. ASSUME NEW p \in Expected, Passed(stack, p)
      PROVE  Promise!Before(p, Here)
  <2>1. p.at \in Nat /\ p.sub \in Nat
    BY ExpectedFacts
  <2> QED BY <1>1, <1>2, <1>3, <1>5, <2>1 DEF Passed, Promise!Before
<1>6. ~Passed(stack, Here)
  BY <1>1, <1>2, <1>3 DEF Passed
<1> QED BY <1>4, <1>5, <1>6

LEMMA AdvanceTop ==
    ASSUME TInv, Looping, stack' = Advance(stack)
    PROVE  /\ Len(stack') = Len(stack)
           /\ stack'[Len(stack)].j = stack[Len(stack)].j + 1
           /\ Len(stack) = 2 => stack'[1] = stack[1]
<1>1. stack \in Seq(Frames) /\ Len(stack) > 0
  BY LoopFacts
<1>2. Len(stack) \in 1 .. Len(stack) /\ stack[Len(stack)] \in Frames
  BY <1>1
<1>3. Len(stack') = Len(stack)
      /\ \A k \in 1 .. Len(stack) :
            stack'[k] = IF k = Len(stack) THEN [stack[k] EXCEPT !.j = @ + 1]
                                          ELSE stack[k]
  BY <1>1, AdvanceFacts
<1>4. stack'[Len(stack)] = [stack[Len(stack)] EXCEPT !.j = @ + 1]
  BY <1>2, <1>3
<1>5. [stack[Len(stack)] EXCEPT !.j = @ + 1].j = stack[Len(stack)].j + 1
  BY <1>2, StepFacts
<1>6. Len(stack) = 2 => stack'[1] = stack[1]
  BY <1>3
<1> QED BY <1>3, <1>4, <1>5, <1>6

\* What the loop of the folder's call does to the positions passed when it
\* goes on without a call below.
LEMMA FolderAdvance ==
    ASSUME TInv, Looping, Top.n = 0, stack' = Advance(stack),
           ~(Named(Ref) /\ Expanded(Ref))
    PROVE  \A p \in Expected :
              /\ p.at = Here.at => p = Here /\ Named(Ref)
              /\ Passed(stack', p) <=> Passed(stack, p) \/ p.at = Here.at
<1>1. Len(stack) = 1 /\ Top = stack[1] /\ Folder(Top) /\ Top \in Frames
  BY TopFacts DEF Looping
<1>2. Len(stack') = 1 /\ stack'[1].j = stack[1].j + 1
  BY <1>1, AdvanceTop
<1>3. stack[1].j \in Nat \ {0}
  BY <1>1 DEF Frames
<1>4. Ref = Refs[Objects][stack[1].j]
  BY <1>1 DEF Ref, Folder
<1> SUFFICES ASSUME NEW p \in Expected
             PROVE  /\ p.at = Here.at => p = Here /\ Named(Ref)
                    /\ Passed(stack', p) <=> Passed(stack, p) \/ p.at = Here.at
  OBVIOUS
<1>5. /\ p \in [at : Nat, sub : Nat]
      /\ p.at \in ExpectedTop
      /\ p.sub = 0 \/ p.sub \in ExpectedSub(p.at)
  BY ExpectedFacts
<1>6. Here = [at |-> stack[1].j, sub |-> 0]
  BY <1>1 DEF Here
<1>7. ASSUME p.at = Here.at PROVE p = Here /\ Named(Ref)
  <2>1. p.at = stack[1].j
    BY <1>6, <1>7
  <2>2. Named(Ref) /\ ~Expanded(Ref)
    BY <1>4, <1>5, <2>1 DEF ExpectedTop
  <2>3. ExpectedSub(p.at) = {}
    BY <1>4, <2>1, <2>2 DEF ExpectedSub
  <2>4. p.sub = 0
    BY <1>5, <2>3
  <2> QED BY <1>5, <1>6, <2>1, <2>2, <2>4
<1>8. Passed(stack', p) <=> Passed(stack, p) \/ p.at = Here.at
  BY <1>1, <1>2, <1>3, <1>5, <1>6 DEF Passed
<1> QED BY <1>7, <1>8

\* The same of the loop of the call below.
LEMMA SubAdvance ==
    ASSUME TInv, Looping, Len(stack) = 2, Len(stack') = 2,
           stack'[1] = stack[1], stack'[2].j = stack[2].j + 1
    PROVE  /\ \A p \in Expected :
                 Passed(stack', p) <=> Passed(stack, p) \/ p = Here
           /\ Here \in Expected <=> ~Skipped(Ref) /\ Named(Ref)
<1>1. /\ Top = stack[2]
      /\ stack[1] \in Frames /\ stack[2] \in Frames
      /\ Below(stack[1], stack[2]) /\ Folder(stack[1])
      /\ Bounded(stack[1], whole)
  BY TopFacts DEF Looping, TInv, Nested
<1>2. stack[1].j \in Nat \ {0} /\ stack[2].j \in Nat \ {0}
  BY <1>1 DEF Frames
<1>3. Here = [at |-> stack[1].j, sub |-> stack[2].j]
  BY DEF Here
<1>4. ASSUME NEW p \in Expected
      PROVE  Passed(stack', p) <=> Passed(stack, p) \/ p = Here
  <2>1. p \in [at : Nat, sub : Nat]
    BY ExpectedFacts
  <2> QED BY <1>2, <1>3, <2>1 DEF Passed
<1>5. stack[1].j \in ExpectedTop /\ Refs[Objects][stack[1].j] = stack[2].node
  <2>1. Refs[Objects] \in Seq(Nodes) /\ stack[1].size \in Nat
    BY <1>1, AddressSpaceAssumption DEF Frames
  <2>2. stack[1].j \in DOMAIN Refs[Objects]
    BY <1>1, <1>2, <2>1 DEF Below, Bounded, Folder
  <2> QED BY <1>1, <2>2 DEF Below, ExpectedTop
<1>6. ExpectedSub(stack[1].j) = {j \in DOMAIN Refs[stack[2].node] :
                                   /\ Ns[Refs[stack[2].node][j]] # 0
                                   /\ Named(Refs[stack[2].node][j])}
  BY <1>1, <1>5 DEF ExpectedSub, Below
<1>7. stack[2].j \in DOMAIN Refs[stack[2].node] /\ Ref = Refs[stack[2].node][stack[2].j]
  BY <1>1, RefFacts DEF Ref
<1>8. Here \in Expected <=> ~Skipped(Ref) /\ Named(Ref)
  BY <1>2, <1>3, <1>5, <1>6, <1>7, ExpectedFacts DEF Skipped
<1> QED BY <1>4, <1>8

-----------------------------------------------------------------------------
(* Each action keeps the listing exact.                                    *)

LEMMA InitProgress == Init => Progress
<1> SUFFICES ASSUME Init PROVE Progress
  OBVIOUS
<1>1. Listed = {}
  BY DEF Init, Listed
<1>2. Len(stack) = 1 /\ stack[1].j = 1
  BY DEF Init, Frame
<1>3. ASSUME NEW p \in Expected PROVE ~Passed(stack, p)
  <2>1. p.at \in Nat \ {0}
    <3>1. Refs[Objects] \in Seq(Nodes)
      BY AddressSpaceAssumption
    <3> QED BY <3>1, ExpectedFacts DEF ExpectedTop
  <2> QED BY <1>2, <2>1 DEF Passed
<1> QED BY <1>1, <1>3 DEF Progress

LEMMA BrowseProgress == TInv /\ Progress /\ Browse => Progress'
<1> SUFFICES ASSUME TInv, Progress, Browse PROVE Progress'
  OBVIOUS
<1>1. PICK size \in 0 .. Len(Refs[Top.node]) :
        /\ stack' = WithTop(stack, [Top EXCEPT !.sent = TRUE, !.size = size])
        /\ whole' = (whole /\ size = Len(Refs[Top.node]))
  BY DEF Browse
<1> DEFINE frame == [Top EXCEPT !.sent = TRUE, !.size = size]
<1>2. /\ Top \in Frames /\ Top = stack[Len(stack)]
      /\ stack \in Seq(Frames) /\ Len(stack) \in {1, 2}
      /\ Refs[Top.node] \in Seq(Nodes)
  BY TopFacts DEF Browse, TInv, TypeOK
<1>3. frame \in Frames /\ frame.j = Top.j
  <2>1. size \in Nat
    BY <1>2
  <2> QED BY <1>2, <2>1 DEF Frames
<1>4. stack' = WithTop(stack, frame)
  BY <1>1
<1> HIDE DEF frame
<1>5. /\ Len(stack') = Len(stack)
      /\ \A k \in 1 .. Len(stack) :
            stack'[k] = IF k = Len(stack) THEN frame ELSE stack[k]
  <2>1. stack \in Seq(Frames) /\ Len(stack) > 0
    BY DEF Browse, Active, TInv, TypeOK
  <2>2. /\ Len(WithTop(stack, frame)) = Len(stack)
        /\ \A k \in 1 .. Len(stack) : WithTop(stack, frame)[k] =
                                        IF k = Len(stack) THEN frame ELSE stack[k]
    BY <1>3, <2>1, WithTopFacts
  <2> QED BY <1>4, <2>2
<1>6. stack'[1].j = stack[1].j /\ (Len(stack) = 2 => stack'[2].j = stack[2].j)
  BY <1>2, <1>3, <1>5
<1>7. \A p \in Expected : Passed(stack', p) <=> Passed(stack, p)
  BY <1>5, <1>6 DEF Passed
<1>8. Listed' = Listed /\ (whole' => whole)
  BY <1>1 DEF Browse, Listed
<1> QED BY <1>7, <1>8, SilentProgress

LEMMA SkipProgress ==
    TInv /\ Progress /\ (SkipUnnamed \/ SkipNamespace0) => Progress'
<1> SUFFICES ASSUME TInv, Progress, SkipUnnamed \/ SkipNamespace0 PROVE Progress'
  OBVIOUS
<1>1. Looping /\ stack' = Advance(stack) /\ UNCHANGED <<out, whole>>
  BY DEF SkipUnnamed, SkipNamespace0
<1>2. Listed' = Listed
  BY <1>1 DEF Listed
<1>3. CASE SkipUnnamed
  <2>1. \A p \in Expected : Passed(stack', p) <=> Passed(stack, p)
    BY <1>1, <1>3, FolderAdvance DEF SkipUnnamed
  <2> QED BY <1>1, <1>2, <2>1, SilentProgress
<1>4. CASE SkipNamespace0
  <2>1. Len(stack) = 2
    BY <1>1, <1>4, TopFacts DEF SkipNamespace0, Looping
  <2>2. /\ Len(stack') = 2 /\ stack'[1] = stack[1]
        /\ stack'[2].j = stack[2].j + 1
    BY <1>1, <2>1, AdvanceTop
  <2>3. \A p \in Expected : Passed(stack', p) <=> Passed(stack, p)
    BY <1>1, <1>4, <2>1, <2>2, SubAdvance DEF SkipNamespace0
  <2> QED BY <1>1, <1>2, <2>3, SilentProgress
<1> QED BY <1>3, <1>4

\* A row printed is the row of the position the loops stand at.
LEMMA RowPosition ==
    ASSUME TInv, Looping, NEW node, NEW read, NEW shown
    PROVE  Position(Row(node, read, shown)) = Here
BY TopFacts DEF Looping, Position, Row, Here

LEMMA ListObjectStep ==
    ASSUME TInv, ListObject
    PROVE  /\ Here \in Expected
           /\ Prints(Here)
           /\ \A p \in Expected : Passed(stack', p) <=> Passed(stack, p) \/ p = Here
<1>1. Looping /\ Active /\ Ref \in Nodes /\ Top.n = 0 /\ Named(Ref)
  BY RefFacts DEF ListObject, Looping
<1>2. Len(stack) = 1 /\ Top = stack[1] /\ Folder(Top) /\ stack[1] \in Frames
  BY <1>1, TopFacts
<1>3. Here = [at |-> stack[1].j, sub |-> 0]
  BY <1>2 DEF Here
<1>4. Here \in Expected
  <2>1. stack[1].j \in ExpectedTop
    BY <1>1, <1>2, RefFacts DEF ExpectedTop, Ref, Folder
  <2> QED BY <1>1, <1>3, <2>1, HereFacts, ExpectedFacts
<1>5. Prints(Here)
  <2>1. Row(Ref, FALSE, Blank) \in Rows
    BY <1>1, RowType
  <2>2. out \in Seq(Rows) /\ out' = Append(out, Row(Ref, FALSE, Blank))
    BY DEF ListObject, TInv, TypeOK
  <2> QED BY <1>1, <2>1, <2>2, ListedAppend, RowPosition
<1>6. CASE Expanded(Ref)
  <2>1. PICK left \in Nodes \cup {Uninit} : stack' = Call(stack, Ref, 1, left)
    BY <1>1, <1>6, TopFacts, LeftType DEF ListObject
  <2>2. stack \in Seq(Frames) /\ Len(stack) > 0 /\ 1 \in 1 .. Len(stack)
    BY <1>1, <1>2, LoopFacts
  <2>3. \A n \in Nat : n <= 1 =>
            /\ Len(Call(stack, Ref, n, left)) = Len(stack) + 1
            /\ \A k \in 1 .. Len(stack) : Call(stack, Ref, n, left)[k] = stack[k]
            /\ Call(stack, Ref, n, left)[Len(stack) + 1] = Frame(Ref, n, left)
    BY <1>1, <2>2, CallFacts
  <2>4. Len(stack') = 2 /\ stack'[1] = stack[1] /\ stack'[2].j = 1
    <3>1. 1 \in Nat /\ Frame(Ref, 1, left).j = 1
      BY DEF Frame
    <3>2. /\ Len(stack') = Len(stack) + 1
          /\ \A k \in 1 .. Len(stack) : stack'[k] = stack[k]
          /\ stack'[Len(stack) + 1] = Frame(Ref, 1, left)
      BY <2>1, <2>3, <3>1
    <3> QED BY <1>2, <2>2, <3>1, <3>2
  <2>5. stack[1].j \in Nat
    BY <1>2 DEF Frames
  <2>6. ASSUME NEW p \in Expected
        PROVE  Passed(stack', p) <=> Passed(stack, p) \/ p = Here
    <3>1. p \in [at : Nat, sub : Nat]
      BY ExpectedFacts
    <3> QED BY <1>2, <1>3, <2>4, <2>5, <3>1 DEF Passed
  <2> QED BY <1>4, <1>5, <2>6
<1>7. CASE ~Expanded(Ref)
  <2>1. stack' = Advance(stack)
    BY <1>7 DEF ListObject
  <2>2. \A p \in Expected :
            /\ p.at = Here.at => p = Here
            /\ Passed(stack', p) <=> Passed(stack, p) \/ p.at = Here.at
    BY <1>1, <1>7, <2>1, FolderAdvance
  <2> QED BY <1>4, <1>5, <2>2
<1> QED BY <1>6, <1>7

LEMMA ListObjectProgress == TInv /\ Progress /\ ListObject => Progress'
<1> SUFFICES ASSUME TInv, Progress, ListObject PROVE Progress'
  OBVIOUS
<1>1. whole' => whole
  BY DEF ListObject
<1> QED BY <1>1, ListObjectStep, PrintProgress

LEMMA ReadReferenceStep ==
    ASSUME TInv, ReadReference
    PROVE  \/ /\ Here \in Expected
              /\ Prints(Here)
              /\ \A p \in Expected :
                    Passed(stack', p) <=> Passed(stack, p) \/ p = Here
           \/ /\ out' = out
              /\ \A p \in Expected : Passed(stack', p) <=> Passed(stack, p)
<1>1. Looping /\ Active /\ Ref \in Nodes /\ ~Skipped(Ref)
  BY RefFacts DEF ReadReference, Looping
<1>2. /\ \A p \in Expected : Passed(stack', p) <=> Passed(stack, p) \/ p = Here
      /\ Here \in Expected <=> Named(Ref)
  BY <1>1, ReadFacts, SubAdvance
<1>3. PICK good \in BOOLEAN :
        /\ ~Named(Ref) => out' = out
        /\ Named(Ref) => \E shown \in PrintVariant(ReadInto(stack[2], Ref, good)) :
                           out' = Append(out, Row(Ref, good, shown))
  BY ReadFacts
<1>4. CASE Named(Ref)
  <2>1. PICK shown \in PrintVariant(ReadInto(stack[2], Ref, good)) :
          out' = Append(out, Row(Ref, good, shown))
    BY <1>3, <1>4
  <2>2. Row(Ref, good, shown) \in Rows /\ out \in Seq(Rows)
    BY <1>1, PrintVariantType, RowType DEF TInv, TypeOK
  <2>3. Prints(Here)
    BY <1>1, <2>1, <2>2, ListedAppend, RowPosition
  <2> QED BY <1>2, <1>4, <2>3
<1>5. CASE ~Named(Ref)
  BY <1>2, <1>3, <1>5
<1> QED BY <1>4, <1>5

LEMMA ReadReferenceProgress == TInv /\ Progress /\ ReadReference => Progress'
<1> SUFFICES ASSUME TInv, Progress, ReadReference PROVE Progress'
  OBVIOUS
<1>1. whole' => whole
  BY DEF ReadReference
<1>2. CASE Here \in Expected /\ Prints(Here)
           /\ \A p \in Expected : Passed(stack', p) <=> Passed(stack, p) \/ p = Here
  BY <1>1, <1>2, PrintProgress
<1>3. CASE out' = out /\ \A p \in Expected : Passed(stack', p) <=> Passed(stack, p)
  <2>1. Listed' = Listed
    BY <1>3 DEF Listed
  <2> QED BY <1>1, <1>3, <2>1, SilentProgress
<1> QED BY <1>2, <1>3, ReadReferenceStep

\* A call that returns had passed every reference below its caller's.
LEMMA ReturnPasses ==
    ASSUME TInv, Return, NEW p \in Expected
    PROVE  /\ Passed(stack, p) => Passed(stack', p)
           /\ whole /\ Passed(stack', p) => Passed(stack, p)
<1>1. /\ Active /\ Top.sent /\ Top.j > Top.size /\ stack' = Pop(stack)
  BY DEF Return
<1>2. /\ Top \in Frames /\ Top = stack[Len(stack)] /\ Len(stack) \in {1, 2}
      /\ Bounded(Top, whole) /\ stack[1] \in Frames
      /\ Len(stack) = 1 => Folder(Top)
  BY <1>1, TopFacts
<1>3. whole => Top.j > Len(Refs[Top.node])
  BY <1>1, <1>2 DEF Bounded
<1>4. /\ p \in [at : Nat, sub : Nat]
      /\ p.at \in ExpectedTop
      /\ p.sub = 0 \/ p.sub \in ExpectedSub(p.at)
  BY ExpectedFacts
<1>5. stack \in Seq(Frames) /\ Len(stack) > 0
  BY <1>1 DEF TInv, TypeOK, Active
<1>6. CASE Len(stack) = 1
  <2>1. Len(stack') = 0
    <3>1. stack' = <<>>
      BY <1>1, <1>5, <1>6, PopFacts
    <3> QED BY <3>1
  <2>2. p.at \in 1 .. Len(Refs[Objects])
    <3>1. Refs[Objects] \in Seq(Nodes)
      BY AddressSpaceAssumption
    <3> QED BY <1>4, <3>1 DEF ExpectedTop
  <2>3. whole => p.at < stack[1].j
    <3>1. stack[1].j \in Nat /\ Refs[Objects] \in Seq(Nodes)
      BY <1>2, AddressSpaceAssumption DEF Frames
    <3> QED BY <1>2, <1>3, <1>6, <2>2, <3>1 DEF Folder
  <2> QED BY <2>1, <2>3 DEF Passed
<1>7. CASE Len(stack) = 2
  <2>1. Len(stack') = 1 /\ stack'[1].j = stack[1].j + 1
    <3> DEFINE frame == [stack[1] EXCEPT !.j = @ + 1, !.below = stack[2].value]
    <3>1. Len(Pop(stack)) = 1 /\ Pop(stack)[1] = frame
      BY <1>5, <1>7, PopFacts
    <3>2. frame.j = stack[1].j + 1
      BY <1>2 DEF Frames
    <3> QED BY <1>1, <3>1, <3>2
  <2>2. stack[1].j \in Nat \ {0} /\ stack[2].j \in Nat \ {0}
    BY <1>2, <1>7 DEF Frames
  <2>3. Below(stack[1], stack[2])
    BY <1>7 DEF TInv, Nested
  <2>4. whole /\ p.at = stack[1].j => p.sub < stack[2].j
    <3> SUFFICES ASSUME whole, p.at = stack[1].j, p.sub # 0
                 PROVE  p.sub < stack[2].j
      BY <1>4, <2>2
    <3>1. p.sub \in ExpectedSub(stack[1].j)
      BY <1>4
    <3>2. p.sub \in DOMAIN Refs[stack[2].node]
      BY <2>3, <3>1 DEF ExpectedSub, Below
    <3>3. Refs[stack[2].node] \in Seq(Nodes) /\ stack[2].j > Len(Refs[stack[2].node])
      BY <1>2, <1>3, <1>7, AddressSpaceAssumption DEF Frames
    <3> QED BY <2>2, <3>2, <3>3
  <2> QED BY <1>4, <1>7, <2>1, <2>2, <2>4 DEF Passed
<1> QED BY <1>2, <1>6, <1>7

LEMMA ReturnProgress == TInv /\ Progress /\ Return => Progress'
<1> SUFFICES ASSUME TInv, Progress, Return PROVE Progress'
  OBVIOUS
<1>1. Listed' = Listed /\ whole' = whole
  BY DEF Return, Listed
<1> QED BY <1>1, ReturnPasses, SilentProgress

LEMMA NextProgress == TInv /\ Progress /\ [Next]_vars => Progress'
<1> SUFFICES ASSUME TInv, Progress, [Next]_vars PROVE Progress'
  OBVIOUS
<1>1. CASE UNCHANGED vars
  BY <1>1 DEF vars, Progress, Passed, Listed
<1> QED BY <1>1, BrowseProgress, ListObjectProgress, SkipProgress,
           ReadReferenceProgress, ReturnProgress DEF Next

\* A listing that ended with every answer whole holds every row it should:
\* in every address space, and whatever reads failed on the way.
THEOREM Complete == Spec => []ListingComplete
<1>1. TInv /\ Progress => ListingComplete
  <2> SUFFICES ASSUME TInv, Progress, Done, whole PROVE Listed = Expected
    BY DEF ListingComplete
  <2>1. \A p \in Expected : Passed(stack, p)
    BY DEF Done, Passed
  <2> QED BY <2>1 DEF Progress
<1> QED BY <1>1, InitTyped, NextTyped, InitProgress, NextProgress, PTL DEF Spec

-----------------------------------------------------------------------------
(* The refinement: a print is a print, the folder's return is the end of   *)
(* the listing, an answer cut short is that, and the rest stutters.        *)

LEMMA InitRefines == Init => Promise!Init
<1> SUFFICES ASSUME Init PROVE Promise!Init
  OBVIOUS
<1>1. Positions = <<>> /\ whole = TRUE
  <2>1. DOMAIN out = {}
    BY DEF Init
  <2> QED BY <2>1 DEF Init, Positions
<1>2. Done = FALSE
  BY DEF Init, Done
<1> QED BY <1>1, <1>2 DEF Promise!Init

\* While a call is active the listing has not ended.
LEMMA NotDone ==
    ASSUME TInv PROVE Done <=> ~Active
BY EmptySeq DEF TInv, TypeOK, Done, Active

LEMMA PrintRefines ==
    ASSUME TInv, TInv', Progress, Looping, Here \in Expected,
           Prints(Here), whole' = whole, Len(stack') > 0
    PROVE  Promise!Next
<1>1. \A k \in DOMAIN Positions : Promise!Before(Positions[k], Here)
  <2>1. \A k \in DOMAIN Positions : Positions[k] \in Listed
    BY PositionsFacts DEF TInv, TypeOK
  <2> QED BY <2>1, HereFacts DEF Progress
<1>2. ~Done /\ ~Done'
  BY EmptySeq DEF Looping, Active, Done
<1>3. Promise!PrintRow(Here)
  BY <1>1, <1>2 DEF Promise!PrintRow, Prints, Done
<1> QED BY <1>3 DEF Promise!Next

LEMMA SilentRefines ==
    ASSUME out' = out, whole' = whole, Done' <=> Done
    PROVE  UNCHANGED Promise!vars
<1>1. Done' = Done /\ Positions' = Positions
  BY DEF Done, Positions
<1> QED BY <1>1 DEF Promise!vars

LEMMA BrowseRefines ==
    ASSUME TInv, TInv', Browse
    PROVE  Promise!Next \/ UNCHANGED Promise!vars
<1>1. Active /\ out' = out /\ (whole' => whole)
  BY DEF Browse
<1>2. Len(stack') > 0
  <2>1. PICK size \in 0 .. Len(Refs[Top.node]) :
          stack' = WithTop(stack, [Top EXCEPT !.sent = TRUE, !.size = size])
    BY DEF Browse
  <2>2. DOMAIN stack' = DOMAIN stack
    BY <2>1 DEF WithTop
  <2>3. stack \in Seq(Frames) /\ stack' \in Seq(Frames) /\ Len(stack) > 0
    BY <1>1 DEF TInv, TypeOK, Active
  <2> QED BY <2>2, <2>3
<1>3. ~Done /\ ~Done'
  BY <1>1, <1>2, EmptySeq DEF Active, Done
<1>4. CASE whole' = whole
  BY <1>1, <1>3, <1>4, SilentRefines
<1>5. CASE whole' # whole
  <2>1. whole' = FALSE
    BY <1>1, <1>5 DEF TInv, TypeOK
  <2>2. Positions' = Positions
    BY <1>1 DEF Positions
  <2> QED BY <1>3, <2>1, <2>2 DEF Promise!Next, Promise!CutShort, Done
<1> QED BY <1>4, <1>5

LEMMA ListObjectRefines ==
    ASSUME TInv, TInv', Progress, ListObject
    PROVE  Promise!Next
<1>1. Looping /\ whole' = whole /\ Ref \in Nodes
  BY RefFacts DEF ListObject
<1>2. Len(stack') > 0
  <2>1. CASE Expanded(Ref)
    <3>1. PICK left \in Nodes \cup {Uninit} :
            stack' = Append(stack, Frame(Ref, 1, left))
      BY <1>1, <2>1, TopFacts, LeftType DEF ListObject, Call, TooDeep, Looping
    <3>2. Frame(Ref, 1, left) \in Frames
      BY <1>1, FrameType
    <3> QED BY <1>1, <3>1, <3>2, LoopFacts, AppendProperties
  <2>2. CASE ~Expanded(Ref)
    <3>1. stack' = Advance(stack)
      BY <2>2 DEF ListObject
    <3> QED BY <1>1, <3>1, AdvanceTop, LoopFacts
  <2> QED BY <2>1, <2>2
<1> QED BY <1>1, <1>2, ListObjectStep, PrintRefines

LEMMA SkipRefines ==
    ASSUME TInv, TInv', SkipUnnamed \/ SkipNamespace0
    PROVE  UNCHANGED Promise!vars
<1>1. Looping /\ stack' = Advance(stack) /\ UNCHANGED <<out, whole>>
  BY DEF SkipUnnamed, SkipNamespace0
<1>2. ~Done /\ ~Done'
  BY <1>1, AdvanceTop, EmptySeq DEF Looping, Active, Done
<1> QED BY <1>1, <1>2, SilentRefines

LEMMA ReadReferenceRefines ==
    ASSUME TInv, TInv', Progress, ReadReference
    PROVE  Promise!Next \/ UNCHANGED Promise!vars
<1>1. Looping /\ whole' = whole /\ Len(stack') > 0
  BY ReadFacts DEF ReadReference
<1>2. ~Done /\ ~Done'
  BY <1>1, EmptySeq DEF Looping, Active, Done
<1>3. CASE Here \in Expected /\ Prints(Here)
  BY <1>1, <1>3, PrintRefines
<1>4. CASE out' = out
  BY <1>1, <1>2, <1>4, SilentRefines
<1> QED BY <1>3, <1>4, ReadReferenceStep

LEMMA ReturnRefines ==
    ASSUME TInv, TInv', Progress, Progress', Return
    PROVE  Promise!Next \/ UNCHANGED Promise!vars
<1>1. Active /\ out' = out /\ whole' = whole /\ ~Done
  BY EmptySeq DEF Return, Active, Done
<1>2. CASE ~Done'
  BY <1>1, <1>2, SilentRefines
<1>3. CASE Done'
  <2>1. whole => Listed = Expected
    <3> SUFFICES ASSUME whole PROVE Listed = Expected
      OBVIOUS
    <3>1. Len(stack') = 0
      BY <1>3, EmptySeq DEF Done
    <3>2. \A p \in Expected : Passed(stack', p)
      BY <3>1 DEF Passed
    <3>3. \A p \in Expected : Passed(stack, p)
      BY <3>2, ReturnPasses
    <3> QED BY <3>3 DEF Progress
  <2>2. Positions' = Positions /\ Listed = {Positions[k] : k \in DOMAIN Positions}
    BY <1>1, PositionsFacts DEF Positions, TInv, TypeOK
  <2>3. Promise!Finish
    BY <1>1, <1>3, <2>1, <2>2 DEF Promise!Finish, Done
  <2> QED BY <2>3 DEF Promise!Next
<1> QED BY <1>2, <1>3

LEMMA NextRefines ==
    TInv /\ TInv' /\ Progress /\ Progress' /\ [Next]_vars
        => [Promise!Next]_(Promise!vars)
<1> SUFFICES ASSUME TInv, TInv', Progress, Progress', [Next]_vars
             PROVE  Promise!Next \/ UNCHANGED Promise!vars
  OBVIOUS
<1>1. CASE UNCHANGED vars
  BY <1>1 DEF vars, Promise!vars, Positions, Done
<1> QED BY <1>1, BrowseRefines, ListObjectRefines, SkipRefines,
           ReadReferenceRefines, ReturnRefines DEF Next

\* The traversal implements the listing: it prints only expected rows, in
\* the order of the references, none twice, and all of them if it was not
\* cut short.
THEOREM Refinement == Spec => ImplementsListing
<1>1. TInv /\ Progress /\ [Next]_vars => TInv' /\ Progress'
  BY NextTyped, NextProgress
<1>2. TInv /\ TInv' /\ Progress /\ Progress' /\ [Next]_vars
         => [Promise!Next]_(Promise!vars)
  BY NextRefines
<1>3. Init => TInv /\ Progress
  BY InitTyped, InitProgress
<1> QED BY <1>1, <1>2, <1>3, InitRefines, PTL
        DEF Spec, ImplementsListing, Promise!Spec

-----------------------------------------------------------------------------
(* What the VALUE column shows, and how deep the rows are.                 *)

\* What the memory of the recursion's variant holds: the variant of the call
\* below the folder's, or what the last such call left there.
Held == IF Len(stack) = 2 THEN stack[2].value ELSE stack[1].below

\* ReadLast in any list of rows.
LastIn(rows, node, k) ==
    \E m \in 1 .. k : /\ rows[m].node = node
                      /\ rows[m].read
                      /\ \A l \in m + 1 .. k : ~rows[l].read

\* A value so held is that of a reference that is read, and of the last row
\* whose read succeeded if that reference is listed.
Source(rows, value) ==
    value \in Nodes => /\ Ns[value] # 0
                       /\ Named(value) => LastIn(rows, value, Len(rows))

ValueSource == Len(stack) # 0 => Source(out, Held)

\* What the property says of row k, and how deep it is.
RowOK(rows, k) ==
    /\ rows[k].depth <= 1
    /\ rows[k].shown \in Nodes =>
          /\ Ns[rows[k].shown] # 0
          /\ rows[k].read => rows[k].shown = rows[k].node
          /\ Named(rows[k].shown) => LastIn(rows, rows[k].shown, k)

RowsOK == \A k \in DOMAIN out : RowOK(out, k)

\* A printed row changes nothing of the rows before it.
LEMMA OlderRows ==
    ASSUME NEW row \in Rows, out \in Seq(Rows), RowsOK, out' = Append(out, row)
    PROVE  /\ DOMAIN out' = 1 .. Len(out) + 1
           /\ Len(out') = Len(out) + 1 /\ out'[Len(out) + 1] = row
           /\ \A k \in 1 .. Len(out) : RowOK(out', k)
           /\ ~row.read => \A v : LastIn(out, v, Len(out)) => LastIn(out', v, Len(out) + 1)
<1>1. out' \in Seq(Rows) /\ Len(out') = Len(out) + 1
      /\ (\A k \in 1 .. Len(out) : out'[k] = out[k])
      /\ out'[Len(out) + 1] = row
  BY AppendRow
<1>2. ASSUME NEW k \in 1 .. Len(out), NEW v, LastIn(out, v, k) PROVE LastIn(out', v, k)
  <2>1. PICK m \in 1 .. k : /\ out[m].node = v
                            /\ out[m].read
                            /\ \A l \in m + 1 .. k : ~out[l].read
    BY <1>2 DEF LastIn
  <2>2. \A l \in 1 .. k : l \in 1 .. Len(out)
    OBVIOUS
  <2>3. out'[m].node = v /\ out'[m].read
    BY <1>1, <2>1, <2>2
  <2>4. \A l \in m + 1 .. k : l \in 1 .. Len(out)
    BY <2>2
  <2>5. \A l \in m + 1 .. k : ~out'[l].read
    BY <1>1, <2>1, <2>4
  <2> QED BY <2>3, <2>5 DEF LastIn
<1>3. ASSUME NEW k \in 1 .. Len(out) PROVE RowOK(out', k)
  <2>1. RowOK(out, k) /\ out'[k] = out[k]
    BY <1>1 DEF RowsOK
  <2> QED BY <1>2, <2>1 DEF RowOK, Named
<1>4. ASSUME ~row.read, NEW v, LastIn(out, v, Len(out))
      PROVE  LastIn(out', v, Len(out) + 1)
  <2>1. PICK m \in 1 .. Len(out) : /\ out[m].node = v
                                   /\ out[m].read
                                   /\ \A l \in m + 1 .. Len(out) : ~out[l].read
    BY <1>4 DEF LastIn
  <2>2. out'[m].node = v /\ out'[m].read /\ m \in 1 .. Len(out) + 1
    BY <1>1, <2>1
  <2>3. ASSUME NEW l \in m + 1 .. Len(out) + 1 PROVE ~out'[l].read
    <3>1. CASE l = Len(out) + 1
      BY <1>1, <1>4, <3>1
    <3>2. CASE l # Len(out) + 1
      <4>1. l \in m + 1 .. Len(out) /\ l \in 1 .. Len(out)
        BY <3>2
      <4> QED BY <1>1, <2>1, <4>1
    <3> QED BY <3>1, <3>2
  <2> QED BY <2>2, <2>3 DEF LastIn
<1> QED BY <1>1, <1>3, <1>4

\* A step that prints nothing and keeps what the memory holds.
LEMMA SameShown ==
    ASSUME RowsOK, out' = out,
           Len(stack') # 0 => \/ Held' = Uninit
                              \/ Held' = Held /\ Source(out, Held)
    PROVE  RowsOK' /\ ValueSource'
<1>1. RowsOK'
  BY DEF RowsOK, RowOK, LastIn, Named
<1>2. Source(out, Held) /\ Held' = Held => Source(out', Held')
  BY DEF Source, LastIn, Named
<1>3. Held' = Uninit => Source(out', Held')
  BY SentinelAssumption DEF Source
<1> QED BY <1>1, <1>2, <1>3 DEF ValueSource, Source

LEMMA InitShown == Init => RowsOK /\ ValueSource
<1> SUFFICES ASSUME Init PROVE RowsOK /\ ValueSource
  OBVIOUS
<1>1. Held = Uninit
  BY DEF Init, Held, Frame
<1>2. Source(out, Held)
  BY <1>1, SentinelAssumption DEF Source
<1> QED BY <1>2 DEF Init, RowsOK, ValueSource

\* The loop of the top call goes on: the memory stays.
LEMMA AdvanceHeld ==
    ASSUME TInv, Looping, stack' = Advance(stack)
    PROVE  Held' = Held
<1>1. stack \in Seq(Frames) /\ Len(stack) \in {1, 2} /\ Len(stack) > 0
  BY TopFacts, LoopFacts DEF Looping
<1>2. Len(stack') = Len(stack)
      /\ \A k \in 1 .. Len(stack) :
            stack'[k] = IF k = Len(stack) THEN [stack[k] EXCEPT !.j = @ + 1]
                                          ELSE stack[k]
  BY <1>1, AdvanceFacts
<1>3. Len(stack) \in 1 .. Len(stack) /\ stack[Len(stack)] \in Frames
  BY <1>1
<1>4. /\ stack'[Len(stack)].value = stack[Len(stack)].value
      /\ stack'[Len(stack)].below = stack[Len(stack)].below
  BY <1>2, <1>3, StepFacts
<1> QED BY <1>1, <1>2, <1>4 DEF Held

LEMMA BrowseShown == TInv /\ RowsOK /\ ValueSource /\ Browse => RowsOK' /\ ValueSource'
<1> SUFFICES ASSUME TInv, RowsOK, ValueSource, Browse PROVE RowsOK' /\ ValueSource'
  OBVIOUS
<1>1. PICK size \in 0 .. Len(Refs[Top.node]) :
        stack' = WithTop(stack, [Top EXCEPT !.sent = TRUE, !.size = size])
  BY DEF Browse
<1> DEFINE frame == [Top EXCEPT !.sent = TRUE, !.size = size]
<1>2. /\ Top \in Frames /\ Top = stack[Len(stack)]
      /\ stack \in Seq(Frames) /\ Len(stack) > 0 /\ Len(stack) \in {1, 2}
      /\ Refs[Top.node] \in Seq(Nodes)
  BY TopFacts DEF Browse, TInv, TypeOK, Active
<1>3. frame \in Frames /\ frame.below = Top.below /\ frame.value = Top.value
  <2>1. size \in Nat
    BY <1>2
  <2> QED BY <1>2, <2>1 DEF Frames
<1>4. stack' = WithTop(stack, frame)
  BY <1>1
<1> HIDE DEF frame
<1>5. Len(stack') = Len(stack)
      /\ \A k \in 1 .. Len(stack) :
            stack'[k] = IF k = Len(stack) THEN frame ELSE stack[k]
  <2>1. /\ Len(WithTop(stack, frame)) = Len(stack)
        /\ \A k \in 1 .. Len(stack) : WithTop(stack, frame)[k] =
                                        IF k = Len(stack) THEN frame ELSE stack[k]
    BY <1>2, <1>3, WithTopFacts
  <2> QED BY <1>4, <2>1
<1>6. Held' = Held
  BY <1>2, <1>3, <1>5 DEF Held
<1>7. out' = out /\ Source(out, Held)
  BY <1>2 DEF Browse, ValueSource
<1> QED BY <1>6, <1>7, SameShown

LEMMA ListObjectShown ==
    TInv /\ RowsOK /\ ValueSource /\ ListObject => RowsOK' /\ ValueSource'
<1> SUFFICES ASSUME TInv, RowsOK, ValueSource, ListObject
             PROVE  RowsOK' /\ ValueSource'
  OBVIOUS
<1>1. Looping /\ Active /\ Ref \in Nodes /\ Top.n = 0 /\ Len(stack) = 1
      /\ Top \in Frames /\ Top = stack[1]
  BY RefFacts, TopFacts DEF ListObject, Looping
<1> DEFINE row == Row(Ref, FALSE, Blank)
<1>2. row \in Rows /\ ~row.read /\ row.shown = Blank /\ row.depth = 0
  BY <1>1, RowType DEF Row
<1>3. out \in Seq(Rows) /\ out' = Append(out, row)
  BY DEF ListObject, TInv, TypeOK
<1> HIDE DEF row
<1>4. /\ DOMAIN out' = 1 .. Len(out) + 1
      /\ Len(out') = Len(out) + 1 /\ out'[Len(out) + 1] = row
      /\ \A k \in 1 .. Len(out) : RowOK(out', k)
      /\ \A v : LastIn(out, v, Len(out)) => LastIn(out', v, Len(out) + 1)
  BY <1>2, <1>3, OlderRows
<1>5. RowsOK'
  <2>1. RowOK(out', Len(out) + 1)
    BY <1>2, <1>4, SentinelAssumption DEF RowOK
  <2>2. \A k \in DOMAIN out' : k \in 1 .. Len(out) \/ k = Len(out) + 1
    BY <1>3, <1>4
  <2> QED BY <1>4, <2>1, <2>2 DEF RowsOK
<1>6. Source(out, Held) /\ Held = stack[1].below
  BY <1>1 DEF ValueSource, Held
<1>7. Held' \in {Uninit, Held}
  <2>1. CASE Expanded(Ref)
    <3>1. PICK left \in Left(Top) : stack' = Append(stack, Frame(Ref, 1, left))
      BY <2>1 DEF ListObject, Call, TooDeep
    <3>2. left \in Nodes \cup {Uninit}
      BY <1>1, LeftType
    <3> DEFINE called == Frame(Ref, 1, left)
    <3>3. called \in Frames /\ called.value = left
      BY <1>1, <3>2, FrameType DEF Frame
    <3>4. stack' = Append(stack, called) /\ stack \in Seq(Frames)
      BY <1>1, <3>1, LoopFacts
    <3> HIDE DEF called
    <3>5. Len(stack') = 2 /\ stack'[2] = called
      <4>1. /\ Len(Append(stack, called)) = Len(stack) + 1
            /\ Append(stack, called)[Len(stack) + 1] = called
        BY <3>3, <3>4, AppendProperties
      <4>2. Len(stack) + 1 = 2
        BY <1>1
      <4> QED BY <3>4, <4>1, <4>2
    <3> QED BY <1>1, <1>6, <3>1, <3>3, <3>5 DEF Held, Left
  <2>2. CASE ~Expanded(Ref)
    BY <1>1, <2>2, AdvanceHeld DEF ListObject
  <2> QED BY <2>1, <2>2
<1>8. Source(out', Held')
  BY <1>4, <1>6, <1>7, SentinelAssumption DEF Source, Named
<1> QED BY <1>5, <1>8 DEF ValueSource, Source

LEMMA SkipShown ==
    TInv /\ RowsOK /\ ValueSource /\ (SkipUnnamed \/ SkipNamespace0)
        => RowsOK' /\ ValueSource'
<1> SUFFICES ASSUME TInv, RowsOK, ValueSource, SkipUnnamed \/ SkipNamespace0
             PROVE  RowsOK' /\ ValueSource'
  OBVIOUS
<1>1. Looping /\ stack' = Advance(stack) /\ out' = out /\ Len(stack) # 0
  BY LoopFacts DEF SkipUnnamed, SkipNamespace0
<1>2. Held' = Held /\ Source(out, Held)
  BY <1>1, AdvanceHeld DEF ValueSource
<1> QED BY <1>1, <1>2, SameShown

LEMMA ReadReferenceShown ==
    TInv /\ RowsOK /\ ValueSource /\ ReadReference => RowsOK' /\ ValueSource'
<1> SUFFICES ASSUME TInv, RowsOK, ValueSource, ReadReference
             PROVE  RowsOK' /\ ValueSource'
  OBVIOUS
<1>1. /\ Looping /\ Active /\ Ref \in Nodes /\ Ns[Ref] # 0
      /\ Len(stack) = 2 /\ Top = stack[2] /\ Top.n = 1 /\ Len(stack') = 2
  BY RefFacts, ReadFacts, TopFacts DEF ReadReference, Looping, Skipped
<1>2. PICK good \in BOOLEAN :
        /\ stack'[2].value = ReadInto(stack[2], Ref, good)
        /\ ~Named(Ref) => out' = out
        /\ Named(Ref) => \E shown \in PrintVariant(ReadInto(stack[2], Ref, good)) :
                           out' = Append(out, Row(Ref, good, shown))
  BY ReadFacts
<1> DEFINE value == ReadInto(stack[2], Ref, good)
<1>3. /\ good => value = Ref
      /\ ~good => value = Held /\ Source(out, Held)
  BY <1>1 DEF ReadInto, Held, ValueSource
<1>4. Held' = value
  BY <1>1, <1>2 DEF Held
<1> HIDE DEF value
<1>5. CASE ~Named(Ref)
  <2>1. out' = out
    BY <1>2, <1>5
  <2>2. RowsOK'
    BY <2>1 DEF RowsOK, RowOK, LastIn, Named
  <2>3. Source(out', Held')
    <3>1. CASE good
      BY <1>1, <1>3, <1>4, <1>5, <3>1 DEF Source, Named
    <3>2. CASE ~good
      BY <1>3, <1>4, <2>1, <3>2 DEF Source, Named, LastIn
    <3> QED BY <3>1, <3>2
  <2> QED BY <2>2, <2>3 DEF ValueSource, Source
<1>6. CASE Named(Ref)
  <2>1. PICK shown \in PrintVariant(value) :
          out' = Append(out, Row(Ref, good, shown))
    BY <1>2, <1>6 DEF value
  <2> DEFINE row == Row(Ref, good, shown)
  <2>2. row \in Rows /\ out \in Seq(Rows)
    BY <1>1, PrintVariantType, RowType DEF TInv, TypeOK
  <2>3. shown \in Nodes => shown = value
    BY SentinelAssumption DEF PrintVariant
  <2>4. row.node = Ref /\ row.read = good /\ row.shown = shown /\ row.depth = 1
    BY <1>1 DEF Row
  <2>5. out' = Append(out, row)
    BY <2>1
  <2> HIDE DEF row
  <2>6. /\ DOMAIN out' = 1 .. Len(out) + 1
        /\ Len(out') = Len(out) + 1 /\ out'[Len(out) + 1] = row
        /\ \A k \in 1 .. Len(out) : RowOK(out', k)
        /\ ~good => \A v : LastIn(out, v, Len(out)) => LastIn(out', v, Len(out) + 1)
    BY <2>2, <2>4, <2>5, OlderRows
  <2>7. good => LastIn(out', Ref, Len(out) + 1)
    <3> SUFFICES ASSUME good PROVE LastIn(out', Ref, Len(out'))
      BY <2>6
    <3>1. Len(out') \in 1 .. Len(out')
      BY <2>2, <2>6
    <3>2. out'[Len(out')].node = Ref /\ out'[Len(out')].read
      BY <2>4, <2>6
    <3>3. \A l \in Len(out') + 1 .. Len(out') : ~out'[l].read
      BY <2>2, <2>6
    <3> QED BY <3>1, <3>2, <3>3 DEF LastIn
  <2>8. Source(out', value)
    BY <1>1, <1>3, <1>4, <2>6, <2>7 DEF Source, Named
  <2>9. RowOK(out', Len(out) + 1)
    BY <1>3, <1>4, <2>3, <2>4, <2>6, <2>8 DEF RowOK, Source, Named
  <2>10. RowsOK'
    <3>1. \A k \in DOMAIN out' : k \in 1 .. Len(out) \/ k = Len(out) + 1
      BY <2>2, <2>6
    <3> QED BY <2>6, <2>9, <3>1 DEF RowsOK
  <2> QED BY <1>4, <2>8, <2>10 DEF ValueSource, Source
<1> QED BY <1>5, <1>6

LEMMA ReturnShown ==
    TInv /\ RowsOK /\ ValueSource /\ Return => RowsOK' /\ ValueSource'
<1> SUFFICES ASSUME TInv, RowsOK, ValueSource, Return
             PROVE  RowsOK' /\ ValueSource'
  OBVIOUS
<1>1. /\ stack \in Seq(Frames) /\ Len(stack) \in {1, 2} /\ Len(stack) > 0
      /\ stack' = Pop(stack) /\ out' = out
  BY TopFacts DEF Return, TInv, TypeOK, Active
<1>2. CASE Len(stack) = 1
  <2>1. stack' = <<>>
    BY <1>1, <1>2, PopFacts
  <2> QED BY <1>1, <2>1, SameShown
<1>3. CASE Len(stack) = 2
  <2>1. Len(stack') = 1
        /\ stack'[1] = [stack[1] EXCEPT !.j = @ + 1, !.below = stack[2].value]
    BY <1>1, <1>3, PopFacts
  <2>2. stack[1] \in Frames
    BY <1>1
  <2>3. Held' = Held /\ Source(out, Held)
    BY <1>3, <2>1, <2>2 DEF Held, ValueSource, Frames
  <2> QED BY <1>1, <2>3, SameShown
<1> QED BY <1>1, <1>2, <1>3

LEMMA NextShown ==
    TInv /\ RowsOK /\ ValueSource /\ [Next]_vars => RowsOK' /\ ValueSource'
<1> SUFFICES ASSUME TInv, RowsOK, ValueSource, [Next]_vars
             PROVE  RowsOK' /\ ValueSource'
  OBVIOUS
<1>1. CASE UNCHANGED vars
  <2>1. out' = out /\ stack' = stack
    BY <1>1 DEF vars
  <2> QED BY <2>1, SameShown DEF ValueSource, Held
<1> QED BY <1>1, BrowseShown, ListObjectShown, SkipShown, ReadReferenceShown,
           ReturnShown DEF Next

\* The recursion is cut at its first level in every address space, the cyclic
\* and the infinitely deep included.
THEOREM BoundedDepth == Spec => []DepthBound
<1>1. TInv /\ RowsOK => DepthBound
  <2>1. ASSUME TInv PROVE Len(stack) <= 2
    <3>1. stack \in Seq(Frames) /\ Len(stack) \in {0, 1, 2}
      BY <2>1 DEF TInv, Nested
    <3>2. \A size \in {0, 1, 2} : size <= 2
      OBVIOUS
    <3> QED BY <3>1, <3>2
  <2>2. RowsOK => \A k \in DOMAIN out : out[k].depth <= 1
    BY DEF RowsOK, RowOK
  <2> QED BY <2>1, <2>2 DEF DepthBound
<1> QED BY <1>1, InitTyped, NextTyped, InitShown, NextShown, PTL DEF Spec

\* However many parents are listed and whatever reads fail, a row shows the
\* value of no reference but the last listed one whose read succeeded, its own
\* if its read did.
THEOREM ShownLastAlways == Spec => []ShownWasReadLast
<1>1. RowsOK => ShownWasReadLast
  BY DEF RowsOK, RowOK, ShownWasReadLast, ReadLast, LastIn
<1> QED BY <1>1, InitTyped, NextTyped, InitShown, NextShown, PTL DEF Spec
=============================================================================
