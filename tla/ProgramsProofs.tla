--------------------------- MODULE ProgramsProofs ---------------------------
(***************************************************************************)
(* Two kinds of programs of Process, for every bound and number of         *)
(* failures.                                                               *)
(*                                                                         *)
(* The key stores have one thread and a variable for whatever matters, so  *)
(* that they are proved as programs are: what is known at each step of a   *)
(* piece of code (Notes) is put together from what is known of its parts   *)
(* (Triple), with one rule for each way Steps has of making code of code.  *)
(*                                                                         *)
(* In the real-time programs the threads matter. The code of a thread is   *)
(* split once, by what its steps may do and where its jumps lead (Within,  *)
(* Flows, Phased); the invariant of a program then names only the step at  *)
(* which main() or a thread passes from one part to the next, never a step *)
(* of the code by its number, save in the three loops whose order is the   *)
(* point.                                                                  *)
(***************************************************************************)
EXTENDS Realtime, TpmKeyStore, Functions, SequenceTheorems, TLAPS

-----------------------------------------------------------------------------
(* Code is a sequence of steps.                                            *)

IsCode(A) == A \in Seq(Range(A))

LEMMA CodeLength == \A A : IsCode(A) => Len(A) \in Nat /\ DOMAIN A = 1 .. Len(A)
BY DEF IsCode

LEMMA CodeFacts ==
    ASSUME NEW A, IsCode(A)
    PROVE  /\ Len(A) \in Nat /\ DOMAIN A = 1 .. Len(A)
           /\ \A B : IsCode(B) =>
                /\ IsCode(A \o B) /\ Len(A \o B) = Len(A) + Len(B)
                /\ \A i \in 1 .. Len(A) : (A \o B)[i] = A[i]
                /\ \A i \in Len(A) + 1 .. Len(A) + Len(B) : (A \o B)[i] = B[i - Len(A)]
<1>1. Len(A) \in Nat /\ DOMAIN A = 1 .. Len(A)
  BY CodeLength
<1>2. ASSUME NEW B, IsCode(B)
      PROVE  /\ IsCode(A \o B) /\ Len(A \o B) = Len(A) + Len(B)
             /\ \A i \in 1 .. Len(A) : (A \o B)[i] = A[i]
             /\ \A i \in Len(A) + 1 .. Len(A) + Len(B) : (A \o B)[i] = B[i - Len(A)]
  <2> DEFINE Un == Range(A) \cup Range(B)
  <2>1. \A C : IsCode(C) /\ Range(C) \subseteq Un => C \in Seq(Un)
    BY SeqMonotonic DEF IsCode
  <2> A \in Seq(Un) /\ B \in Seq(Un)
    BY <1>2, <2>1
  <2>2. /\ A \o B \in Seq(Un) /\ Len(A \o B) = Len(A) + Len(B)
        /\ \A i \in 1 .. Len(A) : (A \o B)[i] = A[i]
        /\ \A i \in Len(A) + 1 .. Len(A) + Len(B) : (A \o B)[i] = B[i - Len(A)]
    BY ConcatProperties
  <2>3. A \o B \in Seq(Range(A \o B))
    BY <2>2, SeqOfRange
  <2>4. QED BY <2>2, <2>3 DEF IsCode
<1>3. QED BY <1>1, <1>2

LEMMA CodeJoined ==
    \A A, B : IsCode(A) /\ IsCode(B) => IsCode(A \o B) /\ Len(A \o B) = Len(A) + Len(B)
BY CodeFacts

-----------------------------------------------------------------------------
(* What holds at each step of a program of one thread.                     *)

KeyVars == Settings \cup {"running", "retval"}
Numbers == {"handle", "part", "length"}
KeyValues == {d \in [KeyVars -> Int] : \A v \in KeyVars \ Numbers : d[v] \in {0, 1}}

\* The variables, and whether a decryption is under way, with the key that was asked for.
Sane == {c \in KeyValues \X BOOLEAN : c[2] => c[1].handle = 1 /\ c[1].found = 1}

\* SIGINT may come at any moment.
Stopped(c) == <<[c[1] EXCEPT !.running = 0], c[2]>>
Steady == {C \in SUBSET Sane : \A c \in C : Stopped(c) \in C}

ClearBuffers == {out.data_clear : out \in Outs}

\* The token is asked, and a buffer written to, only by steps that may do it.
Allows(s, c) ==
    s.op = "call" =>
        /\ "library" \in s.makes => c[1].intact = 1 \/ c[1].digest = 0
        /\ s.touches \cap ClearBuffers # {} => c[1].part * 16 + 16 <= c[1].length

Given(s, d, ok) ==
    IF s.to = Blank.to THEN d
    ELSE [d EXCEPT ![s.to] = IF ok THEN (IF s.or THEN @ ELSE 0) ELSE 1]

\* What a step that is no branch may leave.
After(s, c) ==
    IF s.op = "call"
    THEN {<<Given(s, c[1], TRUE), "decryption" \in s.makes \/ (c[2] /\ "decryption" \notin s.drops)>>,
          <<Given(s, c[1], FALSE), c[2] /\ "decryption" \notin s.drops>>}
    ELSE IF s.op = "put" THEN {<<[c[1] EXCEPT ![s.to] = s.skip], c[2]>>}
    ELSE IF s.op = "do" THEN {<<d, c[2]>> : d \in KeyStoreEffect(s.arg, c[1])}
    ELSE {c}

\* A condition that is no variable, or that SIGINT changes, may hold or not.
Conditions == KeyVars \ {"running"}
MayHold(x, c) == x \in Conditions => c[1][x] # 0
MayFail(x, c) == x \in Conditions => c[1][x] = 0

Turning == {"jump", "unless", "return", "exit"}

To(h, m, c) == m \in DOMAIN h /\ c \in h[m]

\* Step s, the n-th, leads from c to what h says of the step that comes then, or
\* returns with what is in R.
Follows(s, n, c, h, R) ==
    /\ s.op # "spawn" /\ s.skip \in Int /\ Allows(s, c)
    /\ s.op = "jump" => To(h, n + 1 + s.skip, c)
    /\ s.op = "unless" => /\ MayHold(s.arg, c) => c \in h[n + 1]
                          /\ MayFail(s.arg, c) => To(h, n + 1 + s.skip, c)
    /\ s.op = "return" => c \in R
    /\ s.op \notin Turning => After(s, c) \subseteq h[n + 1]

\* h is right about the steps of A, the first of which is the one after the k-th.
Part(A, h, R, k) == \A n \in 1 .. Len(A) : \A c \in h[n + k] : Follows(A[n], n + k, c, h, R)

\* h says, step by step and for the end, what holds where the control is.
Notes(A, h, R) == IsCode(A) /\ h \in [1 .. Len(A) + 1 -> Steady] /\ Part(A, h, R, 0)

\* From what is in C the code leads to what is in D, or returns with what is in R.
Triple(C, A, R, D) ==
    /\ C \in Steady /\ D \in Steady
    /\ \E h : Notes(A, h, R) /\ C \subseteq h[1] /\ h[Len(A) + 1] \subseteq D

LEMMA Moved ==
    ASSUME NEW s, NEW n \in Int, NEW c, NEW h, NEW R, NEW g, NEW Q, NEW k \in Int,
           Follows(s, n, c, h, R), s.op = "return" => R \subseteq Q, n + 1 \in DOMAIN h,
           DOMAIN h \subseteq Int,
           \A m \in DOMAIN h : m + k \in DOMAIN g /\ h[m] \subseteq g[m + k]
    PROVE  Follows(s, n + k, c, g, Q)
<1>1. h[n + 1] \subseteq g[n + k + 1]
  <2>1. h[n + 1] \subseteq g[(n + 1) + k]
    OBVIOUS
  <2>2. (n + 1) + k = n + k + 1
    OBVIOUS
  <2>3. QED BY <2>1, <2>2
<1>2. s.skip \in Int => (To(h, n + 1 + s.skip, c) => To(g, n + k + 1 + s.skip, c))
  <2>1. SUFFICES ASSUME s.skip \in Int, To(h, n + 1 + s.skip, c)
                 PROVE  To(g, n + k + 1 + s.skip, c)
    OBVIOUS
  <2>2. (n + 1 + s.skip) + k = n + k + 1 + s.skip
    BY <2>1
  <2>3. (n + 1 + s.skip) + k \in DOMAIN g /\ c \in g[(n + 1 + s.skip) + k]
    BY <2>1 DEF To
  <2>4. QED BY <2>2, <2>3 DEF To
<1>3. QED BY <1>1, <1>2 DEF Follows

LEMMA NotesFacts ==
    ASSUME NEW A, NEW h, NEW R, Notes(A, h, R)
    PROVE  /\ Len(A) \in Nat /\ IsCode(A) /\ DOMAIN A = 1 .. Len(A)
           /\ DOMAIN h = 1 .. Len(A) + 1 /\ DOMAIN h \subseteq Int
           /\ \A i \in 1 .. Len(A) + 1 : h[i] \in Steady /\ h[i] \in SUBSET Sane
           /\ \A n \in 1 .. Len(A) : n + 1 \in DOMAIN h /\ n \in Int
BY CodeLength DEF Notes, Steady

\* A piece of code keeps its notes where it is put.
LEMMA Placed ==
    ASSUME NEW A, NEW g, NEW R, Notes(A, g, R), NEW k \in Nat, NEW h,
           \A m \in 1 .. Len(A) : h[m + k] = g[m],
           \A m \in 1 .. Len(A) + 1 : m + k \in DOMAIN h /\ g[m] \subseteq h[m + k]
    PROVE  Part(A, h, R, k)
<1> SUFFICES ASSUME NEW n \in 1 .. Len(A), NEW c \in h[n + k]
             PROVE  Follows(A[n], n + k, c, h, R)
  BY DEF Part
<1>1. /\ n \in Int /\ n + 1 \in DOMAIN g /\ DOMAIN g \subseteq Int /\ k \in Int
      /\ DOMAIN g = 1 .. Len(A) + 1
  BY NotesFacts
<1>2. c \in g[n + 0] /\ n + 0 = n
  BY <1>1
<1>3. Follows(A[n], n, c, g, R)
  <2>1. Follows(A[n], n + 0, c, g, R)
    BY <1>2 DEF Notes, Part
  <2>2. QED BY <1>2, <2>1
<1>4. QED BY <1>1, <1>3, Moved

LEMMA OneStepPart ==
    ASSUME NEW s, NEW h, NEW R, NEW k \in Nat, \A c \in h[k + 1] : Follows(s, k + 1, c, h, R)
    PROVE  Part(<<s>>, h, R, k)
BY DEF Part

LEMMA PartsJoined ==
    ASSUME NEW A, NEW B, NEW h, NEW R, NEW k \in Nat, IsCode(A), IsCode(B),
           Part(A, h, R, k), Part(B, h, R, k + Len(A))
    PROVE  Part(A \o B, h, R, k)
<1> DEFINE F == A \o B
           a == Len(A)
           b == Len(B)
<1>1. /\ a \in Nat /\ b \in Nat /\ Len(F) = a + b /\ \A i \in 1 .. a : F[i] = A[i]
      /\ \A i \in a + 1 .. a + b : F[i] = B[i - a]
  BY CodeFacts
<1> HIDE DEF F
<1>2. ASSUME NEW n \in 1 .. a + b, NEW c \in h[n + k]
      PROVE  Follows(F[n], n + k, c, h, R)
  <2>1. CASE n \in 1 .. a
    BY <1>1, <2>1 DEF Part
  <2>2. CASE n \in a + 1 .. a + b
    <3> DEFINE m == n - a
    <3>1. m \in 1 .. b /\ m + (k + a) = n + k /\ F[n] = B[m]
      BY <1>1, <2>2
    <3> HIDE DEF m
    <3>2. c \in h[m + (k + a)]
      BY <3>1
    <3>3. Follows(B[m], m + (k + a), c, h, R)
      BY <3>1, <3>2 DEF Part
    <3>4. QED BY <3>1, <3>3
  <2>3. QED BY <1>1, <2>1, <2>2
<1>3. QED BY <1>1, <1>2 DEF Part, F

LEMMA Weaker ==
    ASSUME NEW C, NEW A, NEW R, NEW D, Triple(C, A, R, D), NEW C2 \in Steady, NEW R2,
           NEW D2 \in Steady, C2 \subseteq C, R \subseteq R2, D \subseteq D2
    PROVE  Triple(C2, A, R2, D2)
<1>1. PICK h : Notes(A, h, R) /\ C \subseteq h[1] /\ h[Len(A) + 1] \subseteq D
  BY DEF Triple
<1>2. Notes(A, h, R2)
  BY <1>1 DEF Notes, Part, Follows
<1>3. QED BY <1>1, <1>2 DEF Triple

LEMMA OneStep ==
    ASSUME NEW s, NEW C \in Steady, NEW R, NEW D \in Steady,
           s.op \notin {"spawn", "jump", "unless"}, s.skip \in Int,
           \A c \in C : Allows(s, c),
           s.op = "return" => C \subseteq R,
           s.op \notin Turning => \A c \in C : After(s, c) \subseteq D
    PROVE  Triple(C, <<s>>, R, D)
<1> DEFINE A == <<s>>
           h == [i \in 1 .. 2 |-> IF i = 1 THEN C ELSE D]
<1>1. IsCode(A) /\ Len(A) = 1 /\ A[1] = s
  BY DEF IsCode, Range
<1>2. h \in [1 .. 2 -> Steady] /\ h[1] = C /\ h[2] = D
  OBVIOUS
<1> HIDE DEF h
<1>3. \A c \in h[0 + 1] : Follows(s, 0 + 1, c, h, R)
  BY <1>2 DEF Follows
<1>4. Part(A, h, R, 0)
  BY <1>3, OneStepPart
<1> HIDE DEF A
<1>5. Notes(A, h, R)
  BY <1>1, <1>2, <1>4 DEF Notes
<1>6. QED BY <1>1, <1>2, <1>5 DEF Triple, A

LEMMA Then ==
    ASSUME NEW C, NEW A, NEW R, NEW D, NEW B, NEW E, Triple(C, A, R, D), Triple(D, B, R, E)
    PROVE  Triple(C, A \o B, R, E)
<1>1. PICK g : Notes(A, g, R) /\ C \subseteq g[1] /\ g[Len(A) + 1] \subseteq D
  BY DEF Triple
<1>2. PICK j : Notes(B, j, R) /\ D \subseteq j[1] /\ j[Len(B) + 1] \subseteq E
  BY DEF Triple
<1> DEFINE a == Len(A)
           b == Len(B)
           F == A \o B
           h == [i \in 1 .. a + b + 1 |-> IF i <= a THEN g[i] ELSE j[i - a]]
<1>3. /\ a \in Nat /\ b \in Nat /\ IsCode(A) /\ IsCode(B)
      /\ DOMAIN g = 1 .. a + 1 /\ DOMAIN j = 1 .. b + 1
      /\ \A i \in 1 .. a + 1 : g[i] \in Steady
      /\ \A i \in 1 .. b + 1 : j[i] \in Steady
  BY <1>1, <1>2, NotesFacts
<1>4. IsCode(F) /\ Len(F) = a + b
  BY <1>3, CodeFacts
<1>5. h \in [1 .. a + b + 1 -> Steady]
  BY <1>3
<1>6. /\ \A m \in 1 .. a : h[m + 0] = g[m]
      /\ \A m \in 1 .. b + 1 : h[m + a] = j[m] /\ m + a \in DOMAIN h
      /\ \A m \in 1 .. a + 1 : m + 0 \in DOMAIN h
  <2>1. \A m \in 1 .. b + 1 : m + a \in 1 .. a + b + 1 /\ ~(m + a <= a) /\ (m + a) - a = m
    BY <1>3
  <2>2. QED BY <1>3, <2>1
<1> HIDE DEF h
<1>7. g[a + 1] \subseteq h[(a + 1) + 0]
  BY <1>1, <1>2, <1>3, <1>6
<1>8. Part(A, h, R, 0)
  <2>1. \A m \in 1 .. a + 1 : m + 0 \in DOMAIN h /\ g[m] \subseteq h[m + 0]
    BY <1>3, <1>6, <1>7
  <2>2. QED BY <1>1, <1>6, <2>1, Placed
<1>9. Part(B, h, R, 0 + a)
  <2>1. 0 + a \in Nat /\ 0 + a = a
    BY <1>3
  <2>2. QED BY <1>2, <1>6, <2>1, Placed
<1>10. Part(F, h, R, 0)
  BY <1>3, <1>8, <1>9, PartsJoined
<1>11. C \subseteq h[1]
  <2>1. CASE a = 0
    BY <1>1, <1>2, <1>3, <1>7, <2>1
  <2>2. CASE a > 0
    BY <1>1, <1>3, <1>6, <2>2
  <2>3. QED BY <1>3, <2>1, <2>2
<1>12. h[Len(F) + 1] \subseteq E
  <2>1. h[(b + 1) + a] = j[b + 1] /\ (b + 1) + a = Len(F) + 1
    BY <1>3, <1>4, <1>6
  <2>2. QED BY <1>2, <2>1
<1>13. Notes(F, h, R)
  BY <1>4, <1>5, <1>10 DEF Notes
<1> HIDE DEF F
<1>14. Triple(C, F, R, E)
  BY <1>11, <1>12, <1>13 DEF Triple
<1>15. QED BY <1>14 DEF F

\* What is known on either side of a condition.
When(x, C) == {c \in C : MayHold(x, c)}
Unlike(x, C) == {c \in C : MayFail(x, c)}

LEMMA Sides ==
    ASSUME NEW C \in Steady, NEW x
    PROVE  When(x, C) \in Steady /\ Unlike(x, C) \in Steady
<1>1. \A c \in C : /\ c \in Sane /\ Stopped(c) \in C
                   /\ \A v \in Conditions : Stopped(c)[1][v] = c[1][v]
  BY Zenon DEF Steady, Sane, KeyValues, Stopped, Conditions
<1>2. QED BY <1>1 DEF When, Unlike, MayHold, MayFail, Steady

LEMMA UnlessKept ==
    ASSUME NEW x, NEW j \in Int, NEW n, NEW c, NEW h, NEW R,
           MayHold(x, c) => c \in h[n + 1], MayFail(x, c) => To(h, n + 1 + j, c)
    PROVE  Follows(Unless(x, j), n, c, h, R)
BY DEF Follows, Allows, Unless, Blank, Turning

LEMMA JumpKept ==
    ASSUME NEW j \in Int, NEW n, NEW c, NEW h, NEW R, To(h, n + 1 + j, c)
    PROVE  Follows(Jump(j), n, c, h, R)
BY DEF Follows, Allows, Jump, Blank, Turning

LEMMA OneIsCode == \A s : IsCode(<<s>>) /\ Len(<<s>>) = 1
BY DEF IsCode, Range

LEMMA IfRule ==
    ASSUME NEW C \in Steady, NEW x, NEW B, NEW A, NEW R, NEW D,
           Triple(B, A, R, D), When(x, C) \subseteq B, Unlike(x, C) \subseteq D
    PROVE  Triple(C, If(x, A), R, D)
<1>1. PICK g : Notes(A, g, R) /\ B \subseteq g[1] /\ g[Len(A) + 1] \subseteq D
  BY DEF Triple
<1> DEFINE a == Len(A)
           U == <<Unless(x, a)>>
           h == [i \in 1 .. a + 2 |-> IF i = 1 THEN C ELSE IF i = a + 2 THEN D ELSE g[i - 1]]
<1>2. /\ a \in Nat /\ IsCode(A) /\ DOMAIN g = 1 .. a + 1 /\ D \in Steady
      /\ \A i \in 1 .. a + 1 : g[i] \in Steady
  BY <1>1, NotesFacts DEF Triple
<1>3. IsCode(U) /\ Len(U) = 1
  BY OneIsCode
<1>4. IsCode(U \o A) /\ Len(U \o A) = a + 1
  <2> HIDE DEF U
  <2>1. IsCode(U \o A) /\ Len(U \o A) = Len(U) + Len(A)
    BY <1>2, <1>3, CodeJoined
  <2>2. QED BY <1>2, <1>3, <2>1
<1>5. h \in [1 .. (a + 1) + 1 -> Steady]
  BY <1>2
<1>6. /\ h[1] = C /\ h[a + 2] = D /\ DOMAIN h = 1 .. a + 2
      /\ \A m \in 1 .. a : h[m + 1] = g[m]
  <2>1. \A m \in 1 .. a : m + 1 \in 1 .. a + 2 /\ (m + 1) - 1 = m /\ m + 1 # 1 /\ m + 1 # a + 2
    BY <1>2
  <2>2. QED BY <1>2, <2>1
<1> HIDE DEF h
<1>7. g[1] \subseteq h[2]
  BY <1>1, <1>2, <1>6
<1>8. Part(U, h, R, 0)
  <2>1. SUFFICES ASSUME NEW c \in h[0 + 1] PROVE Follows(Unless(x, a), 0 + 1, c, h, R)
    BY OneStepPart
  <2>2. c \in C
    BY <1>6
  <2>3. MayHold(x, c) => c \in h[(0 + 1) + 1]
    BY <1>1, <1>7, <2>2 DEF When
  <2>4. MayFail(x, c) => To(h, (0 + 1) + 1 + a, c)
    <3>1. (0 + 1) + 1 + a = a + 2 /\ a + 2 \in 1 .. a + 2
      BY <1>2
    <3>2. QED BY <1>6, <2>2, <3>1 DEF To, Unlike
  <2>5. QED BY <1>2, <2>3, <2>4, UnlessKept
<1>9. Part(A, h, R, 0 + Len(U))
  <2>1. \A m \in 1 .. a + 1 : m + 1 \in DOMAIN h /\ g[m] \subseteq h[m + 1]
    <3> TAKE m \in 1 .. a + 1
    <3>1. CASE m \in 1 .. a
      BY <1>2, <1>6, <3>1
    <3>2. CASE m = a + 1
      <4>1. m + 1 = a + 2 /\ m + 1 \in 1 .. a + 2
        BY <1>2, <3>2
      <4>2. QED BY <1>1, <1>6, <3>2, <4>1
    <3>3. QED BY <1>2, <3>1, <3>2
  <2>2. Part(A, h, R, 1)
    BY <1>1, <1>6, <2>1, Placed
  <2>3. QED BY <1>3, <2>2
<1>10. Part(U \o A, h, R, 0)
  <2> HIDE DEF U
  <2> QED BY <1>2, <1>3, <1>8, <1>9, PartsJoined
<1> HIDE DEF U
<1>11. Notes(U \o A, h, R)
  BY <1>4, <1>5, <1>10 DEF Notes
<1>12. h[Len(U \o A) + 1] = D
  BY <1>2, <1>4, <1>6
<1>13. Triple(C, U \o A, R, D)
  BY <1>2, <1>6, <1>11, <1>12 DEF Triple
<1>14. QED BY <1>13 DEF If, U

LEMMA WhileRule ==
    ASSUME NEW C \in Steady, NEW x, NEW B, NEW A, NEW R, NEW D \in Steady,
           Triple(B, A, R, C), When(x, C) \subseteq B, Unlike(x, C) \subseteq D
    PROVE  Triple(C, While(x, A), R, D)
<1>1. PICK g : Notes(A, g, R) /\ B \subseteq g[1] /\ g[Len(A) + 1] \subseteq C
  BY DEF Triple
<1> DEFINE a == Len(A)
           U == <<Unless(x, a + 1)>>
           J == <<Jump(-(a + 2))>>
           h == [i \in 1 .. a + 3 |-> IF i \in {1, a + 2} THEN C ELSE IF i = a + 3 THEN D ELSE g[i - 1]]
<1>2. /\ a \in Nat /\ IsCode(A) /\ DOMAIN g = 1 .. a + 1
      /\ \A i \in 1 .. a + 1 : g[i] \in Steady
  BY <1>1, NotesFacts
<1>3. IsCode(U) /\ Len(U) = 1 /\ IsCode(J) /\ Len(J) = 1
  BY OneIsCode
<1>4. /\ IsCode(U \o A) /\ Len(U \o A) = a + 1
      /\ IsCode((U \o A) \o J) /\ Len((U \o A) \o J) = a + 2
  <2> HIDE DEF U, J
  <2>1. IsCode(U \o A) /\ Len(U \o A) = Len(U) + Len(A)
    BY <1>2, <1>3, CodeJoined
  <2>2. IsCode((U \o A) \o J) /\ Len((U \o A) \o J) = Len(U \o A) + Len(J)
    BY <1>3, <2>1, CodeJoined
  <2>3. QED BY <1>2, <1>3, <2>1, <2>2
<1>5. h \in [1 .. (a + 2) + 1 -> Steady]
  BY <1>2
<1>6. /\ h[1] = C /\ h[a + 2] = C /\ h[a + 3] = D /\ DOMAIN h = 1 .. a + 3
      /\ \A m \in 1 .. a : h[m + 1] = g[m]
  <2>1. \A m \in 1 .. a : /\ m + 1 \in 1 .. a + 3 /\ (m + 1) - 1 = m
                          /\ m + 1 \notin {1, a + 2} /\ m + 1 # a + 3
    BY <1>2
  <2>2. QED BY <1>2, <2>1
<1> HIDE DEF h
<1>7. \A m \in 1 .. a + 1 : m + 1 \in DOMAIN h /\ g[m] \subseteq h[m + 1]
  <2> TAKE m \in 1 .. a + 1
  <2>1. CASE m \in 1 .. a
    BY <1>2, <1>6, <2>1
  <2>2. CASE m = a + 1
    <3>1. m + 1 = a + 2 /\ m + 1 \in 1 .. a + 3
      BY <1>2, <2>2
    <3>2. QED BY <1>1, <1>6, <2>2, <3>1
  <2>3. QED BY <1>2, <2>1, <2>2
<1>8. When(x, C) \subseteq h[2]
  <2>1. CASE a = 0
    BY <1>1, <1>6, <2>1 DEF When
  <2>2. CASE a > 0
    BY <1>1, <1>2, <1>6, <2>2
  <2>3. QED BY <1>2, <2>1, <2>2
<1>9. Part(U, h, R, 0)
  <2>1. SUFFICES ASSUME NEW c \in h[0 + 1] PROVE Follows(Unless(x, a + 1), 0 + 1, c, h, R)
    BY OneStepPart
  <2>2. c \in C
    BY <1>6
  <2>3. MayHold(x, c) => c \in h[(0 + 1) + 1]
    BY <1>8, <2>2 DEF When
  <2>4. MayFail(x, c) => To(h, (0 + 1) + 1 + (a + 1), c)
    <3>1. (0 + 1) + 1 + (a + 1) = a + 3 /\ a + 3 \in 1 .. a + 3
      BY <1>2
    <3>2. QED BY <1>6, <2>2, <3>1 DEF To, Unlike
  <2>5. QED BY <1>2, <2>3, <2>4, UnlessKept
<1>10. Part(A, h, R, 0 + Len(U))
  <2>1. Part(A, h, R, 1)
    BY <1>1, <1>6, <1>7, Placed
  <2>2. QED BY <1>3, <2>1
<1>11. Part(U \o A, h, R, 0)
  <2> HIDE DEF U
  <2> QED BY <1>2, <1>3, <1>9, <1>10, PartsJoined
<1>12. Part(J, h, R, a + 1)
  <2>1. SUFFICES ASSUME NEW c \in h[(a + 1) + 1] PROVE Follows(Jump(-(a + 2)), (a + 1) + 1, c, h, R)
    BY <1>2, OneStepPart
  <2>2. c \in C /\ (a + 1) + 1 + 1 + (-(a + 2)) = 1 /\ 1 \in 1 .. a + 3 /\ -(a + 2) \in Int
    BY <1>2, <1>6
  <2>3. QED BY <1>6, <2>2, JumpKept DEF To
<1>13. Part((U \o A) \o J, h, R, 0)
  <2> HIDE DEF U, J
  <2>1. 0 + Len(U \o A) = a + 1
    BY <1>2, <1>4
  <2>2. QED BY <1>3, <1>4, <1>11, <1>12, <2>1, PartsJoined
<1> HIDE DEF U, J
<1>14. Notes((U \o A) \o J, h, R)
  BY <1>4, <1>5, <1>13 DEF Notes
<1>15. h[Len((U \o A) \o J) + 1] = D
  BY <1>2, <1>4, <1>6
<1>16. Triple(C, (U \o A) \o J, R, D)
  BY <1>6, <1>14, <1>15 DEF Triple
<1>17. QED BY <1>16 DEF While, U, J

LEMMA IfNotRule ==
    ASSUME NEW C \in Steady, NEW x, NEW B, NEW A, NEW R, NEW D,
           Triple(B, A, R, D), Unlike(x, C) \subseteq B, When(x, C) \subseteq D
    PROVE  Triple(C, IfNot(x, A), R, D)
<1>1. PICK g : Notes(A, g, R) /\ B \subseteq g[1] /\ g[Len(A) + 1] \subseteq D
  BY DEF Triple
<1> DEFINE a == Len(A)
           U == <<Unless(x, 1), Jump(a)>>
           W == When(x, C)
           h == [i \in 1 .. a + 3 |-> IF i = 1 THEN C ELSE IF i = 2 THEN W
                                      ELSE IF i = a + 3 THEN D ELSE g[i - 2]]
<1>2. /\ a \in Nat /\ IsCode(A) /\ DOMAIN g = 1 .. a + 1 /\ D \in Steady /\ W \in Steady
      /\ \A i \in 1 .. a + 1 : g[i] \in Steady
  BY <1>1, NotesFacts, Sides DEF Triple
<1> HIDE DEF W
<1>3. IsCode(U) /\ Len(U) = 2 /\ U[1] = Unless(x, 1) /\ U[2] = Jump(a)
  BY DEF IsCode, Range
<1>4. IsCode(U \o A) /\ Len(U \o A) = a + 2
  <2> HIDE DEF U
  <2>1. IsCode(U \o A) /\ Len(U \o A) = Len(U) + Len(A)
    BY <1>2, <1>3, CodeJoined
  <2>2. QED BY <1>2, <1>3, <2>1
<1>5. h \in [1 .. (a + 2) + 1 -> Steady]
  BY <1>2
<1>6. /\ h[1] = C /\ h[2] = W /\ h[a + 3] = D /\ DOMAIN h = 1 .. a + 3
      /\ \A m \in 1 .. a : h[m + 2] = g[m]
  <2>1. \A m \in 1 .. a : /\ m + 2 \in 1 .. a + 3 /\ (m + 2) - 2 = m
                          /\ m + 2 \notin {1, 2} /\ m + 2 # a + 3
    BY <1>2
  <2>2. QED BY <1>2, <2>1
<1> HIDE DEF h
<1>7. \A m \in 1 .. a + 1 : m + 2 \in DOMAIN h /\ g[m] \subseteq h[m + 2]
  <2> TAKE m \in 1 .. a + 1
  <2>1. CASE m \in 1 .. a
    BY <1>2, <1>6, <2>1
  <2>2. CASE m = a + 1
    <3>1. m + 2 = a + 3 /\ m + 2 \in 1 .. a + 3
      BY <1>2, <2>2
    <3>2. QED BY <1>1, <1>6, <2>2, <3>1
  <2>3. QED BY <1>2, <2>1, <2>2
<1>8. Unlike(x, C) \subseteq h[3]
  BY <1>1, <1>2, <1>7
<1>9. Part(U, h, R, 0)
  <2>1. ASSUME NEW c \in h[1] PROVE Follows(U[1], 1, c, h, R)
    <3>1. c \in C
      BY <1>6, <2>1
    <3>2. MayHold(x, c) => c \in h[1 + 1]
      BY <1>6, <3>1 DEF When, W
    <3>3. MayFail(x, c) => To(h, 1 + 1 + 1, c)
      BY <1>2, <1>6, <1>8, <3>1 DEF To, Unlike
    <3>4. QED BY <1>3, <3>2, <3>3, UnlessKept
  <2>2. ASSUME NEW c \in h[2] PROVE Follows(U[2], 2, c, h, R)
    <3>1. c \in D
      BY <1>6, <2>2 DEF W
    <3>2. 2 + 1 + a = a + 3 /\ a + 3 \in 1 .. a + 3
      BY <1>2
    <3>3. QED BY <1>2, <1>3, <1>6, <3>1, <3>2, JumpKept DEF To
  <2>3. \A n \in 1 .. Len(U) : (n = 1 \/ n = 2) /\ n + 0 = n
    BY <1>3
  <2>4. QED BY <2>1, <2>2, <2>3 DEF Part
<1>10. Part(A, h, R, 0 + Len(U))
  <2>1. Part(A, h, R, 2)
    BY <1>1, <1>6, <1>7, Placed
  <2>2. QED BY <1>3, <2>1
<1>11. Part(U \o A, h, R, 0)
  <2> HIDE DEF U
  <2> QED BY <1>2, <1>3, <1>9, <1>10, PartsJoined
<1> HIDE DEF U
<1>12. Notes(U \o A, h, R)
  BY <1>4, <1>5, <1>11 DEF Notes
<1>13. h[Len(U \o A) + 1] = D
  BY <1>2, <1>4, <1>6
<1>14. Triple(C, U \o A, R, D)
  BY <1>2, <1>6, <1>12, <1>13 DEF Triple
<1>15. QED BY <1>14 DEF IfNot, U

LEMMA FnRule ==
    ASSUME NEW C, NEW A, NEW R, NEW D, Triple(C, A, R, D), R \subseteq D, NEW R2
    PROVE  Triple(C, Fn(A), R2, D)
<1>1. PICK g : Notes(A, g, R) /\ C \subseteq g[1] /\ g[Len(A) + 1] \subseteq D
  BY DEF Triple
<1> DEFINE a == Len(A)
           F == Fn(A)
           h == [g EXCEPT ![a + 1] = D]
<1>2. /\ a \in Nat /\ IsCode(A) /\ DOMAIN A = 1 .. a /\ DOMAIN g = 1 .. a + 1
      /\ C \in Steady /\ D \in Steady /\ g \in [1 .. a + 1 -> Steady]
  BY <1>1, NotesFacts DEF Triple, Notes
<1>3. F = [i \in 1 .. a |-> IF A[i].op = "return" THEN Jump(a - i) ELSE A[i]]
  BY <1>2 DEF Fn
<1>4. IsCode(F) /\ Len(F) = a
  <2>1. F \in [1 .. a -> Range(F)]
    BY <1>3 DEF Range
  <2>2. QED BY <1>2, <2>1, SeqDef DEF IsCode
<1>5. /\ h \in [1 .. a + 1 -> Steady] /\ DOMAIN h = 1 .. a + 1 /\ h[a + 1] = D
      /\ \A m \in 1 .. a : h[m] = g[m]
  BY <1>2
<1> HIDE DEF h
<1>6. \A m \in 1 .. a + 1 : g[m] \subseteq h[m]
  BY <1>1, <1>2, <1>5
<1>7. ASSUME NEW n \in 1 .. a, NEW c \in h[n]
      PROVE  Follows(F[n], n, c, h, R2)
  <2>1. Follows(A[n], n, c, g, R)
    <3>1. c \in g[n + 0] /\ n + 0 = n
      BY <1>2, <1>5, <1>7
    <3>2. Follows(A[n], n + 0, c, g, R)
      BY <1>1, <3>1 DEF Notes, Part
    <3>3. QED BY <3>1, <3>2
  <2>2. CASE A[n].op = "return"
    <3>1. c \in D /\ n + 1 + (a - n) = a + 1 /\ a - n \in Int /\ a + 1 \in 1 .. a + 1
      BY <1>2, <2>1, <2>2 DEF Follows
    <3>2. F[n] = Jump(a - n)
      BY <1>3, <2>2
    <3>3. QED BY <1>5, <3>1, <3>2, JumpKept DEF To
  <2>3. CASE A[n].op # "return"
    <3>1. F[n] = A[n]
      BY <1>3, <2>3
    <3>2. \A m \in DOMAIN g : m + 0 \in DOMAIN h /\ g[m] \subseteq h[m + 0]
      BY <1>2, <1>5, <1>6
    <3>3. n \in Int /\ n + 1 \in DOMAIN g /\ DOMAIN g \subseteq Int /\ n + 0 = n /\ 0 \in Int
      BY <1>2
    <3>4. Follows(A[n], n + 0, c, h, R2)
      BY <2>1, <2>3, <3>2, <3>3, Moved
    <3>5. QED BY <3>1, <3>3, <3>4
  <2>4. QED BY <2>2, <2>3
<1>8. Part(F, h, R2, 0)
  <2>1. \A n \in 1 .. Len(F) : n \in 1 .. a /\ n + 0 = n
    BY <1>2, <1>4
  <2>2. QED BY <1>7, <2>1 DEF Part
<1> HIDE DEF F
<1>9. Notes(F, h, R2)
  BY <1>4, <1>5, <1>8 DEF Notes
<1>10. C \subseteq h[1]
  BY <1>1, <1>2, <1>6
<1>11. Triple(C, F, R2, D)
  BY <1>2, <1>4, <1>5, <1>9, <1>10 DEF Triple
<1>12. QED BY <1>11 DEF F

LEMMA IfElseRule ==
    ASSUME NEW C \in Steady, NEW x, NEW Y, NEW A, NEW N, NEW B, NEW R, NEW D,
           Triple(Y, A, R, D), When(x, C) \subseteq Y,
           Triple(N, B, R, D), Unlike(x, C) \subseteq N
    PROVE  Triple(C, IfElse(x, A, B), R, D)
<1>1. PICK g : Notes(A, g, R) /\ Y \subseteq g[1] /\ g[Len(A) + 1] \subseteq D
  BY DEF Triple
<1>2. PICK f : Notes(B, f, R) /\ N \subseteq f[1] /\ f[Len(B) + 1] \subseteq D
  BY DEF Triple
<1> DEFINE a == Len(A)
           b == Len(B)
           U == <<Unless(x, a + 1)>>
           J == <<Jump(b)>>
           F == (U \o A) \o J
           e == a + b + 3
           h == [i \in 1 .. e |-> IF i = 1 THEN C ELSE IF i \in {a + 2, e} THEN D
                                  ELSE IF i < a + 2 THEN g[i - 1] ELSE f[i - (a + 2)]]
<1>3. /\ a \in Nat /\ IsCode(A) /\ DOMAIN g = 1 .. a + 1 /\ D \in Steady
      /\ \A i \in 1 .. a + 1 : g[i] \in Steady
      /\ b \in Nat /\ IsCode(B) /\ DOMAIN f = 1 .. b + 1
      /\ \A i \in 1 .. b + 1 : f[i] \in Steady
  BY <1>1, <1>2, NotesFacts DEF Triple
<1>4. IsCode(U) /\ Len(U) = 1 /\ IsCode(J) /\ Len(J) = 1
  BY OneIsCode
<1>5. IsCode(U \o A) /\ Len(U \o A) = a + 1 /\ IsCode(F) /\ Len(F) = a + 2
  <2> HIDE DEF U, J
  <2>1. IsCode(U \o A) /\ Len(U \o A) = Len(U) + Len(A)
    BY <1>3, <1>4, CodeJoined
  <2>2. IsCode((U \o A) \o J) /\ Len((U \o A) \o J) = Len(U \o A) + Len(J)
    BY <1>4, <2>1, CodeJoined
  <2>3. QED BY <1>3, <1>4, <2>1, <2>2
<1>6. IsCode(F \o B) /\ Len(F \o B) = a + b + 2
  <2> HIDE DEF F
  <2>1. IsCode(F \o B) /\ Len(F \o B) = Len(F) + Len(B)
    BY <1>3, <1>5, CodeJoined
  <2>2. QED BY <1>3, <1>5, <2>1
<1>7. e = (a + b + 2) + 1 /\ e \in Nat /\ 1 \in 1 .. e /\ a + 2 \in 1 .. e /\ e \in 1 .. e
      /\ a + 2 # 1 /\ e # 1
  BY <1>3
<1>8. /\ h[1] = C /\ h[a + 2] = D /\ h[e] = D /\ DOMAIN h = 1 .. e
      /\ \A m \in 1 .. a : h[m + 1] = g[m]
      /\ \A m \in 1 .. b : h[m + (a + 2)] = f[m]
  <2>1. \A m \in 1 .. a : /\ m + 1 \in 1 .. e /\ (m + 1) - 1 = m
                          /\ m + 1 \notin {a + 2, e} /\ m + 1 # 1 /\ m + 1 < a + 2
    BY <1>3
  <2>2. \A m \in 1 .. b : /\ m + (a + 2) \in 1 .. e /\ (m + (a + 2)) - (a + 2) = m
                          /\ m + (a + 2) \notin {a + 2, e} /\ m + (a + 2) # 1
                          /\ ~(m + (a + 2) < a + 2)
    BY <1>3
  <2> HIDE DEF e
  <2>3. QED BY <1>7, <2>1, <2>2
<1>9. h \in [1 .. (a + b + 2) + 1 -> Steady]
  <2>1. ASSUME NEW i \in 1 .. e PROVE h[i] \in Steady
    <3>1. \/ i \in {1, a + 2, e}
          \/ i - 1 \in 1 .. a /\ (i - 1) + 1 = i
          \/ i - (a + 2) \in 1 .. b /\ (i - (a + 2)) + (a + 2) = i
      BY <1>3
    <3> HIDE DEF e, h
    <3>2. CASE i \in {1, a + 2, e}
      BY <1>3, <1>8, <3>2
    <3>3. CASE i - 1 \in 1 .. a /\ (i - 1) + 1 = i
      <4>1. h[i] = g[i - 1] /\ i - 1 \in 1 .. a + 1
        BY <1>3, <1>8, <3>3
      <4>2. QED BY <1>3, <4>1
    <3>4. CASE i - (a + 2) \in 1 .. b /\ (i - (a + 2)) + (a + 2) = i
      <4>1. h[i] = f[i - (a + 2)] /\ i - (a + 2) \in 1 .. b + 1
        BY <1>3, <1>8, <3>4
      <4>2. QED BY <1>3, <4>1
    <3>5. QED BY <3>1, <3>2, <3>3, <3>4
  <2>2. h = [i \in 1 .. e |-> h[i]]
    OBVIOUS
  <2> HIDE DEF h, e
  <2>3. h \in [1 .. e -> Steady]
    BY <2>1, <2>2
  <2>4. QED BY <1>7, <2>3
<1> HIDE DEF h, e
<1>10. \A m \in 1 .. a + 1 : m + 1 \in DOMAIN h /\ g[m] \subseteq h[m + 1]
  <2> TAKE m \in 1 .. a + 1
  <2>1. m + 1 \in DOMAIN h
    BY <1>3, <1>8 DEF e
  <2>2. CASE m \in 1 .. a
    BY <1>3, <1>8, <2>1, <2>2
  <2>3. CASE m = a + 1
    <3>1. m + 1 = a + 2
      BY <1>3, <2>3
    <3>2. QED BY <1>1, <1>8, <2>1, <2>3, <3>1
  <2>4. QED BY <1>3, <2>2, <2>3
<1>11. \A m \in 1 .. b + 1 : m + (a + 2) \in DOMAIN h /\ f[m] \subseteq h[m + (a + 2)]
  <2> TAKE m \in 1 .. b + 1
  <2>1. m + (a + 2) \in DOMAIN h
    BY <1>3, <1>8 DEF e
  <2>2. CASE m \in 1 .. b
    BY <1>3, <1>8, <2>1, <2>2
  <2>3. CASE m = b + 1
    <3>1. m + (a + 2) = e
      BY <1>3, <2>3 DEF e
    <3>2. QED BY <1>2, <1>8, <2>1, <2>3, <3>1
  <2>4. QED BY <1>3, <2>2, <2>3
<1>12. When(x, C) \subseteq h[2] /\ Unlike(x, C) \subseteq h[a + 3] /\ a + 3 \in DOMAIN h
  <2>1. 1 \in 1 .. a + 1 /\ 1 \in 1 .. b + 1 /\ 1 + 1 = 2 /\ 1 + (a + 2) = a + 3
    BY <1>3
  <2>2. g[1] \subseteq h[2] /\ f[1] \subseteq h[a + 3] /\ a + 3 \in DOMAIN h
    BY <1>10, <1>11, <2>1
  <2>3. QED BY <1>1, <1>2, <2>2
<1>13. Part(U, h, R, 0)
  <2>1. SUFFICES ASSUME NEW c \in h[0 + 1] PROVE Follows(Unless(x, a + 1), 0 + 1, c, h, R)
    BY OneStepPart
  <2>2. c \in C
    BY <1>8
  <2>3. MayHold(x, c) => c \in h[(0 + 1) + 1]
    BY <1>12, <2>2 DEF When
  <2>4. MayFail(x, c) => To(h, (0 + 1) + 1 + (a + 1), c)
    <3>1. (0 + 1) + 1 + (a + 1) = a + 3
      BY <1>3
    <3>2. QED BY <1>12, <2>2, <3>1 DEF To, Unlike
  <2>5. QED BY <1>3, <2>3, <2>4, UnlessKept
<1>14. Part(A, h, R, 0 + Len(U))
  <2>1. Part(A, h, R, 1)
    BY <1>1, <1>8, <1>10, Placed
  <2>2. QED BY <1>4, <2>1
<1>15. Part(U \o A, h, R, 0)
  <2> HIDE DEF U
  <2> QED BY <1>3, <1>4, <1>13, <1>14, PartsJoined
<1>16. Part(J, h, R, a + 1)
  <2>1. SUFFICES ASSUME NEW c \in h[(a + 1) + 1] PROVE Follows(Jump(b), (a + 1) + 1, c, h, R)
    BY <1>3, OneStepPart
  <2>2. (a + 1) + 1 = a + 2
    BY <1>3
  <2>3. c \in D
    BY <1>8, <2>1, <2>2
  <2>4. (a + 1) + 1 + 1 + b = e /\ b \in Int
    BY <1>3 DEF e
  <2>5. To(h, (a + 1) + 1 + 1 + b, c)
    BY <1>7, <1>8, <2>3, <2>4 DEF To
  <2>6. QED BY <2>4, <2>5, JumpKept
<1>17. Part(F, h, R, 0)
  <2> HIDE DEF U, J
  <2>1. 0 + Len(U \o A) = a + 1
    BY <1>3, <1>5
  <2>2. QED BY <1>4, <1>5, <1>15, <1>16, <2>1, PartsJoined
<1> HIDE DEF F
<1>18. Part(F \o B, h, R, 0)
  <2>1. a + 2 \in Nat /\ 0 + Len(F) = a + 2
    BY <1>3, <1>5
  <2>2. Part(B, h, R, a + 2)
    BY <1>2, <1>8, <1>11, <2>1, Placed
  <2>3. QED BY <1>3, <1>5, <1>17, <2>1, <2>2, PartsJoined
<1>19. Notes(F \o B, h, R)
  BY <1>6, <1>9, <1>18 DEF Notes
<1>20. h[Len(F \o B) + 1] = D
  BY <1>6, <1>7, <1>8
<1>21. Triple(C, F \o B, R, D)
  <2>1. C \subseteq h[1]
    BY <1>8
  <2>2. QED BY <1>3, <1>19, <1>20, <2>1 DEF Triple
<1>22. F \o B = IfElse(x, A, B)
  BY <1>3, <1>4, <1>5 DEF IfElse, F, U, J
<1>23. QED BY <1>21, <1>22

\* Steps that leave what is known, where it says nothing of the variables in V.
Closed(C, V) ==
    /\ C \in Steady
    /\ \A c \in C : \A d \in KeyValues :
         (\A v \in KeyVars \ V : d[v] = c[1][v]) => <<d, c[2]>> \in C

Quiet(s, V) ==
    /\ DOMAIN s = DOMAIN Blank /\ s.skip \in Int
    /\ s.op \notin {"spawn", "jump", "unless", "do"}
    /\ s.op = "put" => s.to \in V /\ s.skip \in {0, 1}
    /\ s.op = "call" => /\ {"library", "decryption"} \cap s.makes = {}
                        /\ "decryption" \notin s.drops
                        /\ s.touches \cap ClearBuffers = {}
                        /\ s.to \in V \cup {Blank.to}

Tame(A, V) == \A C : Closed(C, V) => Triple(C, A, C, C)

LEMMA GivenStays ==
    ASSUME NEW V \in SUBSET KeyVars, NEW C, Closed(C, V), NEW c \in C
    PROVE  /\ c \in Sane /\ c = <<c[1], c[2]>> /\ c[1] \in KeyValues /\ c[2] \in BOOLEAN
           /\ \A v \in V, i \in {0, 1} : <<[c[1] EXCEPT ![v] = i], c[2]>> \in C
           /\ \A s : s.to \in V \cup {Blank.to} =>
                \A ok \in BOOLEAN : <<Given(s, c[1], ok), c[2]>> \in C
<1>1. /\ c \in Sane /\ c = <<c[1], c[2]>> /\ c[1] \in KeyValues /\ c[2] \in BOOLEAN
      /\ DOMAIN c[1] = KeyVars
  BY DEF Closed, Steady, Sane, KeyValues
<1>2. \A v \in V, i \in {0, 1} : <<[c[1] EXCEPT ![v] = i], c[2]>> \in C
  <2> TAKE v \in V, i \in {0, 1}
  <2> DEFINE d == [c[1] EXCEPT ![v] = i]
  <2>1. v \in KeyVars
    OBVIOUS
  <2>2. d \in [KeyVars -> Int] /\ \A w \in KeyVars \ Numbers : d[w] \in {0, 1}
    BY <1>1, <2>1 DEF KeyValues
  <2>3. \A w \in KeyVars \ V : d[w] = c[1][w]
    BY <1>1, <2>1
  <2> HIDE DEF d
  <2>4. d \in KeyValues
    BY <2>2 DEF KeyValues
  <2>5. <<d, c[2]>> \in C
    BY <2>3, <2>4 DEF Closed
  <2>6. QED BY <2>5 DEF d
<1>3. c \in C /\ <<c[1], c[2]>> \in C
  BY <1>1
<1>4. ASSUME NEW s, s.to \in V \cup {Blank.to}, NEW ok \in BOOLEAN
      PROVE  <<Given(s, c[1], ok), c[2]>> \in C
  <2>1. CASE s.to = Blank.to
    BY <1>3, <2>1 DEF Given
  <2>2. CASE s.to # Blank.to
    <3>1. s.to \in V
      BY <1>4, <2>2
    <3>2. CASE ok /\ s.or
      <4>1. Given(s, c[1], ok) = [c[1] EXCEPT ![s.to] = @]
        BY <2>2, <3>2 DEF Given
      <4>2. [c[1] EXCEPT ![s.to] = @] = c[1]
        BY <1>1 DEF KeyValues
      <4>3. QED BY <1>3, <4>1, <4>2
    <3>3. CASE ~(ok /\ s.or)
      <4>1. PICK i \in {0, 1} : Given(s, c[1], ok) = [c[1] EXCEPT ![s.to] = i]
        BY <2>2, <3>3 DEF Given
      <4>2. QED BY <1>2, <3>1, <4>1
    <3>4. QED BY <3>2, <3>3
  <2>3. QED BY <2>1, <2>2
<1>5. QED BY <1>1, <1>2, <1>4

LEMMA GivenKept ==
    ASSUME NEW V \in SUBSET KeyVars, NEW C, Closed(C, V), NEW c \in C,
           NEW s, s.to \in V \cup {Blank.to}, NEW ok \in BOOLEAN
    PROVE  <<Given(s, c[1], ok), c[2]>> \in C
BY GivenStays

LEMMA QuietStep ==
    ASSUME NEW V \in SUBSET KeyVars, NEW C, Closed(C, V), NEW s, Quiet(s, V), NEW c \in C
    PROVE  Allows(s, c) /\ (s.op \notin Turning => After(s, c) \subseteq C)
<1>1. /\ c \in Sane /\ c = <<c[1], c[2]>> /\ c[1] \in KeyValues /\ c[2] \in BOOLEAN
  BY GivenStays
<1>2. Allows(s, c)
  BY DEF Quiet, Allows
<1>3. \A v \in V, i \in {0, 1} : <<[c[1] EXCEPT ![v] = i], c[2]>> \in C
  BY GivenStays
<1>4. c \in C /\ <<c[1], c[2]>> \in C
  BY <1>1
<1>5. ASSUME s.op = "call", NEW ok \in BOOLEAN
      PROVE  <<Given(s, c[1], ok), c[2]>> \in C
  BY <1>5, GivenStays DEF Quiet
<1>6. ASSUME s.op \notin Turning PROVE After(s, c) \subseteq C
  <2>1. CASE s.op = "call"
    <3>1. After(s, c) = {<<Given(s, c[1], TRUE), c[2]>>, <<Given(s, c[1], FALSE), c[2]>>}
      <4>1. "decryption" \notin s.makes /\ "decryption" \notin s.drops
        BY <2>1 DEF Quiet
      <4>2. ("decryption" \in s.makes \/ (c[2] /\ "decryption" \notin s.drops)) = c[2]
        BY <1>1, <4>1
      <4>3. (c[2] /\ "decryption" \notin s.drops) = c[2]
        BY <1>1, <4>1
      <4>4. QED BY <2>1, <4>2, <4>3 DEF After
    <3>2. QED BY <1>5, <2>1, <3>1
  <2>2. CASE s.op = "put"
    <3>1. After(s, c) = {<<[c[1] EXCEPT ![s.to] = s.skip], c[2]>>}
      BY <2>2 DEF After
    <3>2. s.to \in V /\ s.skip \in {0, 1}
      BY <2>2 DEF Quiet
    <3>3. QED BY <1>3, <3>1, <3>2
  <2>3. CASE s.op \notin {"call", "put"}
    BY <1>4, <2>3 DEF After, Quiet
  <2>4. QED BY <2>1, <2>2, <2>3
<1>7. QED BY <1>2, <1>6

LEMMA AllQuiet ==
    ASSUME NEW V \in SUBSET KeyVars, NEW A, IsCode(A), \A n \in DOMAIN A : Quiet(A[n], V)
    PROVE  Tame(A, V)
<1> SUFFICES ASSUME NEW C, Closed(C, V) PROVE Triple(C, A, C, C)
  BY DEF Tame
<1> DEFINE a == Len(A)
           h == [i \in 1 .. a + 1 |-> C]
<1>1. a \in Nat /\ DOMAIN A = 1 .. a /\ C \in Steady
  BY CodeLength DEF Closed
<1>2. h \in [1 .. a + 1 -> Steady] /\ \A i \in 1 .. a + 1 : h[i] = C
  BY <1>1
<1>3. a + 1 \in 1 .. a + 1 /\ 1 \in 1 .. a + 1
  BY <1>1
<1> HIDE DEF h
<1>4. ASSUME NEW n \in 1 .. a, NEW c \in h[n + 0]
      PROVE  Follows(A[n], n + 0, c, h, C)
  <2>1. n + 0 = n /\ n \in 1 .. a + 1 /\ n + 1 \in 1 .. a + 1
    BY <1>1
  <2>2. c \in C /\ h[n + 1] = C /\ Quiet(A[n], V)
    BY <1>1, <1>2, <1>4, <2>1
  <2>3. Allows(A[n], c) /\ (A[n].op \notin Turning => After(A[n], c) \subseteq C)
    BY <2>2, QuietStep
  <2>4. QED BY <2>1, <2>2, <2>3 DEF Follows, Quiet
<1>5. Notes(A, h, C)
  BY <1>2, <1>4 DEF Notes, Part
<1>6. QED BY <1>1, <1>2, <1>3, <1>5 DEF Triple

LEMMA QuietRules ==
    ASSUME NEW V \in SUBSET KeyVars
    PROVE  /\ \A xs, ys : {"library", "decryption"} \cap xs = {} => Quiet(Call(xs, ys), V)
           /\ \A xs : xs \cap ClearBuffers = {} => Quiet(Deref(xs), V)
           /\ \A xs : "decryption" \notin xs => Quiet(Free(xs), V)
           /\ \A x : x \notin {"library", "decryption"} => Quiet(New(x), V)
           /\ \A x : Quiet(Wait(x), V) /\ Quiet(Exit(x), V)
           /\ Quiet(Signal, V) /\ Quiet(Return, V)
           /\ \A s : Quiet(s, V) => Quiet(Sure(s), V)
           /\ \A s, xs : Quiet(s, V) /\ "decryption" \notin xs
                => Quiet([s EXCEPT !.drops = xs], V)
           /\ \A s, xs : Quiet(s, V) /\ xs \cap ClearBuffers = {} => Quiet(Reads(xs, s), V)
           /\ \A s : \A v \in V : Quiet(s, V) => Quiet(Into(v, s), V) /\ Quiet(OrInto(v, s), V)
           /\ \A v \in V : \A n \in {0, 1} : Quiet(Put(v, n), V)
<1>1. \A xs, ys : {"library", "decryption"} \cap xs = {} => Quiet(Call(xs, ys), V)
  BY DEF Quiet, Call, Blank
<1>2. \A xs : xs \cap ClearBuffers = {} => Quiet(Deref(xs), V)
  BY DEF Quiet, Deref, Blank
<1>3. \A xs : "decryption" \notin xs => Quiet(Free(xs), V)
  BY DEF Quiet, Free, Blank
<1>4. \A x : x \notin {"library", "decryption"} => Quiet(New(x), V)
  BY <1>1 DEF New
<1>5. /\ \A x : Quiet(Wait(x), V) /\ Quiet(Exit(x), V)
      /\ Quiet(Signal, V) /\ Quiet(Return, V)
  BY DEF Quiet, Wait, Exit, Signal, Return, Blank
<1>6. \A v \in V : \A n \in {0, 1} : Quiet(Put(v, n), V)
  BY DEF Quiet, Put, Blank
<1>7. \A s : Quiet(s, V) => Quiet(Sure(s), V)
  BY Zenon DEF Quiet, Sure, Blank
<1>8. \A s, xs : Quiet(s, V) /\ "decryption" \notin xs => Quiet([s EXCEPT !.drops = xs], V)
  BY Zenon DEF Quiet, Blank
<1>9. \A s, xs : Quiet(s, V) /\ xs \cap ClearBuffers = {} => Quiet(Reads(xs, s), V)
  BY Zenon DEF Quiet, Reads, Blank
<1>10. \A s : \A v \in V : Quiet(s, V) => Quiet(Into(v, s), V) /\ Quiet(OrInto(v, s), V)
  <2> TAKE s
  <2> TAKE v \in V
  <2> HAVE Quiet(s, V)
  <2>1. /\ DOMAIN Into(v, s) = DOMAIN Blank /\ Into(v, s).to = v
        /\ Into(v, s).op = s.op /\ Into(v, s).skip = s.skip /\ Into(v, s).makes = s.makes
        /\ Into(v, s).drops = s.drops /\ Into(v, s).touches = s.touches
    BY Zenon DEF Quiet, Into, Blank
  <2>2. /\ DOMAIN OrInto(v, s) = DOMAIN Blank /\ OrInto(v, s).to = v
        /\ OrInto(v, s).op = s.op /\ OrInto(v, s).skip = s.skip /\ OrInto(v, s).makes = s.makes
        /\ OrInto(v, s).drops = s.drops /\ OrInto(v, s).touches = s.touches
    BY Zenon DEF Quiet, OrInto, Blank
  <2>3. QED BY <2>1, <2>2 DEF Quiet
<1>11. QED BY <1>1, <1>2, <1>3, <1>4, <1>5, <1>6, <1>7, <1>8, <1>9, <1>10

LEMMA TameRules ==
    ASSUME NEW V, NEW A, Tame(A, V)
    PROVE  /\ \A B : Tame(B, V) => Tame(A \o B, V)
           /\ \A x : Tame(If(x, A), V) /\ Tame(IfNot(x, A), V) /\ Tame(While(x, A), V)
           /\ Tame(Maybe(A), V)
           /\ \A x, B : Tame(B, V) => Tame(IfElse(x, A, B), V)
           /\ Tame(Fn(A), V)
<1>1. \A B : Tame(B, V) => Tame(A \o B, V)
  BY Then DEF Tame
<1>2. \A x, C : When(x, C) \subseteq C /\ Unlike(x, C) \subseteq C
  BY DEF When, Unlike
<1>3. \A C : Closed(C, V) => C \in Steady
  BY DEF Closed
<1>4. \A x : Tame(If(x, A), V)
  BY <1>2, <1>3, IfRule DEF Tame
<1>5. \A x : Tame(IfNot(x, A), V)
  BY <1>2, <1>3, IfNotRule DEF Tame
<1>6. \A x : Tame(While(x, A), V)
  BY <1>2, <1>3, WhileRule DEF Tame
<1>7. \A x, B : Tame(B, V) => Tame(IfElse(x, A, B), V)
  BY <1>2, <1>3, IfElseRule DEF Tame
<1>8. Tame(Fn(A), V)
  BY FnRule DEF Tame
<1>9. QED BY <1>1, <1>4, <1>5, <1>6, <1>7, <1>8 DEF Maybe

LEMMA QuietLists ==
    ASSUME NEW V \in SUBSET KeyVars
    PROVE  /\ \A a1 : Quiet(a1, V) => Tame(<<a1>>, V)
           /\ \A a1, a2 : Quiet(a1, V) /\ Quiet(a2, V) => Tame(<<a1, a2>>, V)
           /\ \A a1, a2, a3 : Quiet(a1, V) /\ Quiet(a2, V) /\ Quiet(a3, V)
                => Tame(<<a1, a2, a3>>, V)
           /\ \A a1, a2, a3, a4 : Quiet(a1, V) /\ Quiet(a2, V) /\ Quiet(a3, V) /\ Quiet(a4, V)
                => Tame(<<a1, a2, a3, a4>>, V)
           /\ \A a1, a2, a3, a4, a5, a6, a7 : Quiet(a1, V) /\ Quiet(a2, V) /\ Quiet(a3, V)
                /\ Quiet(a4, V) /\ Quiet(a5, V) /\ Quiet(a6, V) /\ Quiet(a7, V)
                => Tame(<<a1, a2, a3, a4, a5, a6, a7>>, V)
<1>1. \A a1 : Quiet(a1, V) => Tame(<<a1>>, V)
  <2> TAKE a1
  <2> DEFINE A == <<a1>>
  <2>1. IsCode(A) /\ (Quiet(a1, V) => \A n \in DOMAIN A : Quiet(A[n], V))
    BY DEF IsCode, Range
  <2> HIDE DEF A
  <2>2. Quiet(a1, V) => Tame(A, V)
    BY <2>1, AllQuiet
  <2>3. QED BY <2>2 DEF A
<1>2. \A a1, a2 : Quiet(a1, V) /\ Quiet(a2, V) => Tame(<<a1, a2>>, V)
  <2> TAKE a1, a2
  <2> DEFINE A == <<a1, a2>>
  <2>1. IsCode(A) /\ (Quiet(a1, V) /\ Quiet(a2, V) => \A n \in DOMAIN A : Quiet(A[n], V))
    BY DEF IsCode, Range
  <2> HIDE DEF A
  <2>2. Quiet(a1, V) /\ Quiet(a2, V) => Tame(A, V)
    BY <2>1, AllQuiet
  <2>3. QED BY <2>2 DEF A
<1>3. \A a1, a2, a3 : Quiet(a1, V) /\ Quiet(a2, V) /\ Quiet(a3, V) => Tame(<<a1, a2, a3>>, V)
  <2> TAKE a1, a2, a3
  <2> DEFINE A == <<a1, a2, a3>>
  <2>1. /\ IsCode(A)
        /\ Quiet(a1, V) /\ Quiet(a2, V) /\ Quiet(a3, V) => \A n \in DOMAIN A : Quiet(A[n], V)
    BY DEF IsCode, Range
  <2> HIDE DEF A
  <2>2. Quiet(a1, V) /\ Quiet(a2, V) /\ Quiet(a3, V) => Tame(A, V)
    BY <2>1, AllQuiet
  <2>3. QED BY <2>2 DEF A
<1>4. \A a1, a2, a3, a4 : Quiet(a1, V) /\ Quiet(a2, V) /\ Quiet(a3, V) /\ Quiet(a4, V)
        => Tame(<<a1, a2, a3, a4>>, V)
  <2> TAKE a1, a2, a3, a4
  <2> DEFINE A == <<a1, a2, a3, a4>>
             Q == Quiet(a1, V) /\ Quiet(a2, V) /\ Quiet(a3, V) /\ Quiet(a4, V)
  <2>1. IsCode(A) /\ (Q => \A n \in DOMAIN A : Quiet(A[n], V))
    BY DEF IsCode, Range
  <2> HIDE DEF A
  <2>2. Q => Tame(A, V)
    BY <2>1, AllQuiet
  <2>3. QED BY <2>2 DEF A
<1>5. \A a1, a2, a3, a4, a5, a6, a7 : Quiet(a1, V) /\ Quiet(a2, V) /\ Quiet(a3, V)
        /\ Quiet(a4, V) /\ Quiet(a5, V) /\ Quiet(a6, V) /\ Quiet(a7, V)
        => Tame(<<a1, a2, a3, a4, a5, a6, a7>>, V)
  <2> TAKE a1, a2, a3, a4, a5, a6, a7
  <2> DEFINE A == <<a1, a2, a3, a4, a5, a6, a7>>
             Q == /\ Quiet(a1, V) /\ Quiet(a2, V) /\ Quiet(a3, V) /\ Quiet(a4, V)
                  /\ Quiet(a5, V) /\ Quiet(a6, V) /\ Quiet(a7, V)
  <2>1. IsCode(A) /\ (Q => \A n \in DOMAIN A : Quiet(A[n], V))
    BY DEF IsCode, Range
  <2> HIDE DEF A
  <2>2. Q => Tame(A, V)
    BY <2>1, AllQuiet
  <2>3. QED BY <2>2 DEF A
<1>6. QED BY <1>1, <1>2, <1>3, <1>4, <1>5

LEMMA QuietIdioms ==
    ASSUME NEW V \in SUBSET KeyVars
    PROVE  /\ \A v : Tame(GiveUp(v), V)
           /\ \A x : x \notin {"library", "decryption"} => Tame(Alloc(x), V) /\ Tame(Malloc(x), V)
           /\ "rv" \in V => \A s : Quiet(s, V) => Tame(Try(s), V)
           /\ \A v \in V : Tame(RunServer(v, "running"), V)
<1>1. \A v : Tame(GiveUp(v), V)
  <2> TAKE v
  <2>1. Tame(<<Exit("failure")>>, V)
    BY QuietRules, QuietLists
  <2>2. QED BY <2>1, TameRules DEF GiveUp
<1>2. ASSUME NEW x, x \notin {"library", "decryption"}
      PROVE  Tame(Alloc(x), V) /\ Tame(Malloc(x), V)
  <2>1. Quiet(New(x), V) /\ Quiet(Sure(New(x)), V) /\ Quiet(Return, V)
    BY <1>2, QuietRules
  <2>2. Tame(<<New(x)>>, V) /\ Tame(<<Sure(New(x))>>, V) /\ Tame(<<Return>>, V)
    BY <2>1, QuietLists
  <2>3. Tame(IfNot(x, <<Return>>), V)
    BY <2>2, TameRules
  <2>4. QED BY <2>2, <2>3, TameRules DEF Alloc, Malloc
<1>3. ASSUME "rv" \in V, NEW s, Quiet(s, V)
      PROVE  Tame(Try(s), V)
  <2>1. Quiet(Into("rv", s), V) /\ Quiet(Return, V)
    BY <1>3, QuietRules
  <2>2. Tame(<<Into("rv", s)>>, V) /\ Tame(<<Return>>, V)
    BY <2>1, QuietLists
  <2>3. Tame(If("rv", <<Return>>), V)
    BY <2>2, TameRules
  <2>4. QED BY <2>2, <2>3, TameRules DEF Try
<1>4. ASSUME NEW v \in V PROVE Tame(RunServer(v, "running"), V)
  <2>1. {"library", "decryption"} \cap {} = {}
    OBVIOUS
  <2>2. Quiet(Call({}, {"server"}), V)
    BY <2>1, QuietRules
  <2>3. Quiet(OrInto(v, Call({}, {"server"})), V) /\ Quiet(Wait("running"), V)
    BY <2>2, QuietRules
  <2>4. Tame(<<OrInto(v, Call({}, {"server"}))>>, V) /\ Tame(<<Wait("running")>>, V)
    BY <2>3, QuietLists
  <2>5. Tame(IfNot(v, <<Wait("running")>>), V)
    BY <2>4, TameRules
  <2>6. QED BY <2>4, <2>5, TameRules DEF RunServer
<1>5. QED BY <1>1, <1>2, <1>3, <1>4

\* Nothing is being decrypted; or something was left so, and rv says that it failed.
Clean == {c \in Sane : ~c[2]}
Excused == {c \in Sane : c[2] => c[1].rv # 0}

\* decrypt: the file has been compared with its digest; it is as it was sealed.
Compared == {c \in Clean : c[1].digest = 1 => c[1].same = c[1].intact}
Genuine == {c \in Clean : c[1].intact = 1 \/ c[1].digest = 0}

\* decrypt_data: no key yet; while one is looked for; one that was asked for; it is used.
Keyless == {c \in Clean : c[1].found = 0}
Fresh == Genuine \cap Keyless
Looking == {c \in Clean : /\ c[1].searching # 0 => c[1].found = 0
                          /\ c[1].found # 0 => c[1].handle = 1}
Found == {c \in Clean : c[1].found = 1 /\ c[1].handle = 1}
Held == {c \in Sane : c[1].found = 1 /\ c[1].handle = 1}

\* A block of 16 bytes has room after "part" others, and another one if there are more.
Room == {c \in Held : /\ c[1].length \in Lengths /\ c[1].part \in Nat
                      /\ c[1].part * 16 + 16 <= c[1].length
                      /\ c[1].more # 0 => c[1].part * 16 + 32 <= c[1].length}
RoomFor == {c \in Room : c[1].more # 0}

\* What is known does not depend on these.
Loose == {"strayEncrypted", "strayClear", "strayDigest", "failed"}
Slack == Loose \cup {"rv"}

LEMMA KeyVarsFacts ==
    /\ Loose \in SUBSET KeyVars /\ Slack \in SUBSET KeyVars /\ KeyVars \in SUBSET KeyVars
    /\ "rv" \in Slack
BY DEF Loose, Slack, KeyVars, Settings

LEMMA StoppedFacts ==
    ASSUME NEW c \in Sane
    PROVE  /\ Stopped(c) \in Sane /\ Stopped(c)[2] = c[2]
           /\ \A v \in Settings : Stopped(c)[1][v] = c[1][v]
           /\ c[1] \in KeyValues /\ c[2] \in BOOLEAN /\ c = <<c[1], c[2]>>
BY DEF Sane, Stopped, KeyValues, KeyVars, Settings, Numbers

\* C says nothing of the variables but those in K.
About(C, K) ==
    /\ C \subseteq Sane
    /\ \A c \in C : \A d \in KeyValues : (\A v \in K : d[v] = c[1][v]) => <<d, c[2]>> \in C

LEMMA AboutClosed ==
    ASSUME NEW C, NEW K \in SUBSET Settings, About(C, K), NEW V, K \cap V = {}
    PROVE  Closed(C, V)
<1>1. \A c \in C : Stopped(c) \in C
  <2> TAKE c \in C
  <2>1. /\ Stopped(c) \in Sane /\ Stopped(c)[2] = c[2]
        /\ \A v \in K : Stopped(c)[1][v] = c[1][v]
    BY StoppedFacts DEF About
  <2>2. Stopped(c)[1] \in KeyValues /\ Stopped(c) = <<Stopped(c)[1], Stopped(c)[2]>>
    BY <2>1, StoppedFacts
  <2>3. QED BY <2>1, <2>2 DEF About
<1>2. K \subseteq KeyVars \ V
  BY DEF KeyVars
<1>3. QED BY <1>1, <1>2 DEF Closed, Steady, About

KeyFacts == {"digest", "same", "intact", "searching", "found", "handle", "more", "part", "length"}

LEMMA KnownSets ==
    /\ Closed(Clean, KeyVars) /\ Closed(Excused, Loose)
    /\ \A C \in {Compared, Genuine, Keyless, Fresh, Looking, Found, Held, Room, RoomFor} :
         Closed(C, Slack)
<1>1. KeyFacts \in SUBSET Settings /\ KeyFacts \cup {"rv"} \in SUBSET Settings
  BY DEF KeyFacts, Settings
<1>2. KeyFacts \cap Slack = {} /\ (KeyFacts \cup {"rv"}) \cap Loose = {}
  BY DEF KeyFacts, Slack, Loose
<1>3. About(Clean, {})
  BY DEF About, Clean, Sane
<1>4. About(Excused, KeyFacts \cup {"rv"})
  BY DEF About, Excused, Sane, KeyFacts
<1>5. About(Compared, KeyFacts) /\ About(Genuine, KeyFacts) /\ About(Keyless, KeyFacts)
  BY DEF About, Compared, Genuine, Keyless, Clean, Sane, KeyFacts
<1>6. About(Fresh, KeyFacts)
  BY <1>5 DEF About, Fresh
<1>7. About(Looking, KeyFacts)
  BY DEF About, Looking, Clean, Sane, KeyFacts
<1>8. About(Found, KeyFacts)
  BY DEF About, Found, Clean, Sane, KeyFacts
<1>9. About(Held, KeyFacts)
  BY DEF About, Held, Sane, KeyFacts
<1>10. About(Room, KeyFacts)
  <2> SUFFICES ASSUME NEW c \in Room, NEW d \in KeyValues, \A v \in KeyFacts : d[v] = c[1][v]
               PROVE  <<d, c[2]>> \in Room
    BY DEF About, Room, Held
  <2>1. <<d, c[2]>> \in Held
    BY <1>9 DEF About, Room
  <2>2. d.length = c[1].length /\ d.part = c[1].part /\ d.more = c[1].more
    BY DEF KeyFacts
  <2>3. QED BY <2>1, <2>2 DEF Room
<1>15. About(RoomFor, KeyFacts)
  BY <1>10 DEF About, RoomFor, KeyFacts
<1>11. Closed(Clean, KeyVars)
  BY <1>3, AboutClosed
<1>12. Closed(Excused, Loose)
  BY <1>1, <1>2, <1>4, AboutClosed
<1>13. ASSUME NEW C, About(C, KeyFacts) PROVE Closed(C, Slack)
  BY <1>1, <1>2, <1>13, AboutClosed
<1>14. QED BY <1>5, <1>6, <1>7, <1>8, <1>9, <1>10, <1>11, <1>12, <1>13, <1>15

LEMMA OutFacts ==
    ASSUME NEW out \in Outs
    PROVE  /\ {out.self, out.data, out.md_value, out.pSlotList, out.ptr_encrypted_data,
               out.data_clear} \cap {"library", "decryption"} = {}
           /\ {out.self, out.data, out.md_value, out.pSlotList, out.ptr_encrypted_data}
                 \cap ClearBuffers = {}
           /\ out.data_clear \in ClearBuffers
           /\ {"nothing", "sign_out_data", "sign_out_data.data", "encrypt_out_data",
               "encrypt_out_data.data"} \cap ClearBuffers = {}
<1>1. ClearBuffers = {"encrypt_out_data.data_clear", "sign_out_data.data_clear",
                      "certificate_out_data.data_clear"}
  BY DEF ClearBuffers, Outs, EncryptOut, SignOut, CertificateOut
<1>2. QED BY <1>1 DEF Outs, EncryptOut, SignOut, CertificateOut

LEMMA QuietOne ==
    ASSUME NEW V \in SUBSET KeyVars, NEW C, Closed(C, V), NEW s, Quiet(s, V), s.op # "return", NEW R
    PROVE  Triple(C, <<s>>, R, C)
<1>1. \A c \in C : Allows(s, c) /\ (s.op \notin Turning => After(s, c) \subseteq C)
  BY QuietStep
<1>2. C \in Steady
  BY DEF Closed
<1>3. s.op \notin {"spawn", "jump", "unless"} /\ s.skip \in Int
  BY DEF Quiet
<1>4. QED BY <1>1, <1>2, <1>3, OneStep

LEMMA TameClean ==
    ASSUME NEW V, NEW C, Closed(C, V), C \subseteq Excused, NEW A, Tame(A, V)
    PROVE  Triple(C, A, Excused, C)
<1>1. Triple(C, A, C, C) /\ C \in Steady
  BY DEF Tame, Closed
<1>2. QED BY <1>1, Weaker

\* A call that fails is a return, and rv says so.
LEMMA TryRule ==
    ASSUME NEW C \in Steady, NEW D \in Steady, NEW s, s.op = "call", s.skip \in Int,
           \A c \in C : Allows(Into("rv", s), c) /\ After(Into("rv", s), c) \subseteq D,
           DOMAIN s = DOMAIN Blank
    PROVE  Triple(C, Try(s), Excused, D)
<1>1. Into("rv", s).op = "call" /\ Into("rv", s).skip \in Int
  BY DEF Into, Blank
<1>2. Triple(C, <<Into("rv", s)>>, Excused, D)
  <2> DEFINE t == Into("rv", s)
  <2>1. t.op = "call" /\ t.skip \in Int /\ \A c \in C : Allows(t, c) /\ After(t, c) \subseteq D
    BY <1>1
  <2> HIDE DEF t
  <2>2. t.op \notin {"spawn", "jump", "unless"} /\ t.op # "return"
    BY <2>1
  <2>3. Triple(C, <<t>>, Excused, D)
    BY <2>1, <2>2, OneStep
  <2>4. QED BY <2>3 DEF t
<1>3. When("rv", D) \in Steady /\ When("rv", D) \subseteq Excused
  <2>1. D \subseteq Sane /\ "rv" \in Conditions
    BY DEF Steady, Conditions, KeyVars, Settings
  <2>2. QED BY <2>1, Sides DEF When, MayHold, Excused
<1>4. Triple(When("rv", D), <<Return>>, Excused, D)
  <2>1. /\ Return.op = "return" /\ Return.skip \in Int
        /\ \A c \in When("rv", D) : Allows(Return, c)
    BY DEF Return, Blank, Allows
  <2>2. Return.op \notin {"spawn", "jump", "unless"} /\ Return.op \in Turning
    BY <2>1 DEF Turning
  <2>3. QED BY <1>3, <2>1, <2>2, OneStep
<1>5. Unlike("rv", D) \subseteq D
  BY DEF Unlike
<1>6. Triple(D, If("rv", <<Return>>), Excused, D)
  BY <1>4, <1>5, IfRule
<1>7. QED BY <1>2, <1>6, Then DEF Try

LEMMA QuietTry ==
    ASSUME NEW C, Closed(C, Slack), NEW s, Quiet(s, Slack), s.op = "call"
    PROVE  Triple(C, Try(s), Excused, C)
<1>1. Quiet(Into("rv", s), Slack) /\ Into("rv", s).op = "call"
  BY KeyVarsFacts, QuietRules, Zenon DEF Into, Quiet, Blank
<1>2. \A c \in C : Allows(Into("rv", s), c) /\ After(Into("rv", s), c) \subseteq C
  <2>1. Into("rv", s).op \notin Turning
    BY <1>1 DEF Turning
  <2>2. QED BY <1>1, <2>1, KeyVarsFacts, QuietStep
<1>3. C \in Steady /\ s.skip \in Int /\ DOMAIN s = DOMAIN Blank
  BY DEF Closed, Quiet
<1>4. QED BY <1>2, <1>3, TryRule

LEMMA CleanSets ==
    \A C \in {Clean, Compared, Genuine, Keyless, Fresh, Looking, Found} : C \subseteq Excused
BY DEF Clean, Compared, Genuine, Keyless, Fresh, Looking, Found, Excused

-----------------------------------------------------------------------------
(* The parts of the key stores.                                            *)

\* The calls of the token and of the library are none of those that are watched.
LEMMA OtherCalls ==
    ASSUME NEW V \in SUBSET KeyVars
    PROVE  /\ \A ys : Quiet(Call({}, ys), V)
           /\ \A x, ys : x \notin {"library", "decryption"} => Quiet(Call({x}, ys), V)
           /\ \A x : Quiet(Free({x}), V) \/ x = "decryption"
           /\ \A x, y : x # "decryption" /\ y # "decryption" => Quiet(Free({x, y}), V)
           /\ \A x : x \notin ClearBuffers => Quiet(Deref({x}), V)
           /\ \A x, y : x \notin ClearBuffers /\ y \notin ClearBuffers => Quiet(Deref({x, y}), V)
           /\ \A xs, ys : Call(xs, ys).op = "call"
           /\ \A xs : Free(xs).op = "call" /\ Deref(xs).op = "call"
           /\ \A x : New(x).op = "call" /\ Sure(New(x)).op = "call"
           /\ \A v, n : Put(v, n).op = "put"
<1>1. \A ys : Quiet(Call({}, ys), V)
  BY QuietRules
<1>2. \A x, ys : x \notin {"library", "decryption"} => Quiet(Call({x}, ys), V)
  BY QuietRules
<1>3. \A x : Quiet(Free({x}), V) \/ x = "decryption"
  BY QuietRules
<1>4. \A x, y : x # "decryption" /\ y # "decryption" => Quiet(Free({x, y}), V)
  BY QuietRules
<1>5. \A x : x \notin ClearBuffers => Quiet(Deref({x}), V)
  BY QuietRules
<1>6. \A x, y : x \notin ClearBuffers /\ y \notin ClearBuffers => Quiet(Deref({x, y}), V)
  BY QuietRules
<1>7. /\ \A xs, ys : Call(xs, ys).op = "call"
      /\ \A xs : Free(xs).op = "call" /\ Deref(xs).op = "call"
      /\ \A x : New(x).op = "call" /\ Sure(New(x)).op = "call"
      /\ \A v, n : Put(v, n).op = "put"
  BY DEF Call, Free, Deref, New, Sure, Put, Blank
<1>8. QED BY <1>1, <1>2, <1>3, <1>4, <1>5, <1>6, <1>7

LEMMA PutAfter ==
    ASSUME NEW c, NEW v, NEW n \in Int
    PROVE  /\ After(Put(v, n), c) = {<<[c[1] EXCEPT ![v] = n], c[2]>>}
           /\ Allows(Put(v, n), c) /\ Put(v, n).op = "put" /\ Put(v, n).skip \in Int
           /\ Put(v, n).op \notin {"spawn", "jump", "unless", "return"}
BY DEF After, Allows, Put, Blank

LEMMA DoAfter ==
    ASSUME NEW c, NEW name
    PROVE  /\ After(Do(name), c) = {<<d, c[2]>> : d \in KeyStoreEffect(name, c[1])}
           /\ Allows(Do(name), c) /\ Do(name).skip \in Int
           /\ Do(name).op \notin {"spawn", "jump", "unless", "return"}
BY DEF After, Allows, Do, Blank

LEMMA PutRule ==
    ASSUME NEW C \in Steady, NEW v, NEW n \in Int, NEW R, NEW D \in Steady,
           \A c \in C : <<[c[1] EXCEPT ![v] = n], c[2]>> \in D
    PROVE  Triple(C, <<Put(v, n)>>, R, D)
<1> DEFINE s == Put(v, n)
<1>1. s.op \notin {"spawn", "jump", "unless", "return"} /\ s.skip \in Int
  BY PutAfter
<1>2. \A c \in C : Allows(s, c) /\ After(s, c) \subseteq D
  BY PutAfter
<1> HIDE DEF s
<1>3. Triple(C, <<s>>, R, D)
  BY <1>1, <1>2, OneStep
<1>4. QED BY <1>3 DEF s

LEMMA DoRule ==
    ASSUME NEW C \in Steady, NEW name, NEW R, NEW D \in Steady,
           \A c \in C : \A d \in KeyStoreEffect(name, c[1]) : <<d, c[2]>> \in D
    PROVE  Triple(C, <<Do(name)>>, R, D)
<1> DEFINE s == Do(name)
<1>1. s.op \notin {"spawn", "jump", "unless", "return"} /\ s.skip \in Int
  BY DoAfter
<1>2. \A c \in C : Allows(s, c) /\ After(s, c) \subseteq D
  BY DoAfter
<1> HIDE DEF s
<1>3. Triple(C, <<s>>, R, D)
  BY <1>1, <1>2, OneStep
<1>4. QED BY <1>3 DEF s

LEMMA PutTo ==
    ASSUME NEW C \in Steady, NEW v \in Settings \ (Numbers \cup {"found"}), NEW n \in {0, 1},
           NEW R, NEW D \in Steady,
           \A c \in C : \A d \in KeyValues :
              <<d, c[2]>> \in Sane /\ d[v] = n /\ (\A w \in KeyVars \ {v} : d[w] = c[1][w])
                => <<d, c[2]>> \in D
    PROVE  Triple(C, <<Put(v, n)>>, R, D)
<1>1. ASSUME NEW c \in C PROVE <<[c[1] EXCEPT ![v] = n], c[2]>> \in D
  <2> DEFINE d == [c[1] EXCEPT ![v] = n]
  <2>1. c \in Sane
    BY DEF Steady
  <2>2. c[1] \in KeyValues /\ c[2] \in BOOLEAN /\ (c[2] => c[1].handle = 1 /\ c[1].found = 1)
    BY <2>1 DEF Sane
  <2>3. v \in KeyVars \ Numbers /\ v # "handle" /\ v # "found"
    BY DEF KeyVars, Numbers
  <2>4. d \in [KeyVars -> Int] /\ d[v] = n /\ \A w \in KeyVars \ {v} : d[w] = c[1][w]
    BY <2>2, <2>3 DEF KeyValues
  <2> HIDE DEF d
  <2>5. d \in KeyValues
    BY <2>2, <2>4 DEF KeyValues
  <2>6. d.handle = c[1].handle /\ d.found = c[1].found
    BY <2>3, <2>4 DEF KeyVars, Settings
  <2>7. <<d, c[2]>> \in Sane
    BY <2>2, <2>5, <2>6 DEF Sane
  <2>8. <<d, c[2]>> \in D
    BY <2>4, <2>5, <2>7
  <2>9. QED BY <2>8 DEF d
<1>2. QED BY <1>1, PutRule

LEMMA SteadySets ==
    \A C \in {Clean, Excused, Compared, Genuine, Keyless, Fresh, Looking, Found, Held, Room,
              RoomFor} : C \in Steady
BY KnownSets DEF Closed

LEMMA Effects ==
    ASSUME NEW e
    PROVE  /\ KeyStoreEffect("compare", e) = Compare(e)
           /\ KeyStoreEffect("object", e) = NextObject(e)
           /\ KeyStoreEffect("blocks", e) = Blocks(e)
           /\ KeyStoreEffect("next", e) =
                {[e EXCEPT !.part = @ + 1, !.more = More(e.part + 1, e.length)]}
BY DEF KeyStoreEffect

LEMMA Pair ==
    /\ \A u, v : <<u>> \o <<v>> = <<u, v>>
    /\ \A u, v, w : <<u>> \o <<v, w>> = <<u, v, w>>
<1>1. \A u, v : <<u>> \o <<v>> = <<u, v>>
  <2> TAKE u, v
  <2> DEFINE X == {u, v}
             F == <<u>> \o <<v>>
  <2>1. <<u>> \in Seq(X) /\ <<v>> \in Seq(X) /\ <<u, v>> \in Seq(X)
    OBVIOUS
  <2>2. F \in Seq(X) /\ Len(F) = 2 /\ F[1] = u /\ F[2] = v
    BY <2>1, ConcatProperties
  <2> HIDE DEF X, F
  <2>3. F = <<u, v>>
    BY <2>2
  <2>4. QED BY <2>3 DEF F
<1>2. \A u, v, w : <<u>> \o <<v, w>> = <<u, v, w>>
  <2> TAKE u, v, w
  <2> DEFINE X == {u, v, w}
             F == <<u>> \o <<v, w>>
  <2>1. <<u>> \in Seq(X) /\ <<v, w>> \in Seq(X) /\ <<u, v, w>> \in Seq(X)
    OBVIOUS
  <2>2. /\ F \in Seq(X) /\ Len(F) = 3
        /\ F[1] = u /\ F[2] = v /\ F[3] = w
    BY <2>1, ConcatProperties
  <2> HIDE DEF X, F
  <2>3. F = <<u, v, w>>
    BY <2>2
  <2>4. QED BY <2>3 DEF F
<1>3. QED BY <1>1, <1>2

LEMMA KeyIsFound == Triple(Keyless, find_object_by_label, Excused, Looking)
<1> DEFINE B == When("searching", Looking)
           s == Into("failed", Call({}, {"search"}))
           A == <<s, Do("object")>>
<1>1. /\ Keyless \in Steady /\ Looking \in Steady /\ B \in Steady
      /\ B = {c \in Looking : c[1].searching # 0}
  BY SteadySets, Sides DEF When, MayHold, Conditions, KeyVars, Settings
<1>2. About(B, KeyFacts)
  BY <1>1 DEF About, Looking, Clean, Sane, KeyFacts
<1>3. Closed(B, Slack)
  BY <1>2, AboutClosed DEF KeyFacts, Settings, Slack, Loose
<1> HIDE DEF B
<1>4. Triple(Keyless, <<Put("searching", 1)>>, Excused, Looking)
  <2>1. "searching" \in Settings \ (Numbers \cup {"found"}) /\ "found" \in KeyVars \ {"searching"}
    BY DEF Settings, Numbers, KeyVars
  <2>2. ASSUME NEW c \in Keyless, NEW d, <<d, c[2]>> \in Sane,
               \A w \in KeyVars \ {"searching"} : d[w] = c[1][w]
        PROVE  <<d, c[2]>> \in Looking
    BY <2>1, <2>2 DEF Keyless, Looking, Clean
  <2>3. QED BY <1>1, <2>1, <2>2, PutTo
<1>5. Triple(B, <<s>>, Excused, B)
  <2>1. Quiet(Call({}, {"search"}), Slack) /\ "failed" \in Slack
    BY OtherCalls, KeyVarsFacts DEF Slack, Loose
  <2>2. Quiet(s, Slack) /\ s.op = "call"
    <3>1. Quiet(s, Slack)
      BY <2>1, KeyVarsFacts, QuietRules
    <3>2. s.op = "call"
      BY DEF Into, Call, Blank
    <3>3. QED BY <3>1, <3>2
  <2> HIDE DEF s
  <2>3. QED BY <1>3, <2>2, KeyVarsFacts, QuietOne
<1>6. Triple(B, <<Do("object")>>, Excused, Looking)
  <2>1. ASSUME NEW c \in B, NEW d \in KeyStoreEffect("object", c[1])
        PROVE  <<d, c[2]>> \in Looking
    <3>1. /\ c \in Sane /\ ~c[2] /\ c[1].found = 0 /\ c[1] \in KeyValues /\ c[2] \in BOOLEAN
      BY <1>1 DEF Looking, Clean, Sane
    <3>2. \/ d = [c[1] EXCEPT !.searching = 0]
          \/ d = [c[1] EXCEPT !.handle = 2]
          \/ d = [c[1] EXCEPT !.handle = 1, !.found = 1, !.searching = 0]
      <4>1. d \in NextObject(c[1])
        BY Effects, Zenon
      <4>2. d \in {[c[1] EXCEPT !.searching = 0], [c[1] EXCEPT !.handle = 2],
                   [c[1] EXCEPT !.handle = 1, !.found = 1, !.searching = 0]}
        BY <4>1 DEF NextObject
      <4>3. QED BY <4>2
    <3>3. d \in KeyValues /\ (d.searching # 0 => d.found = 0) /\ (d.found # 0 => d.handle = 1)
      <4>1. /\ {"searching", "handle", "found"} \subseteq KeyVars
            /\ "searching" \notin Numbers /\ "found" \notin Numbers /\ "handle" \in Numbers
        BY DEF KeyVars, Settings, Numbers
      <4>2. DOMAIN c[1] = KeyVars
        BY <3>1 DEF KeyValues
      <4>3. d \in [KeyVars -> Int]
        <5>1. c[1] \in [KeyVars -> Int]
          BY <3>1 DEF KeyValues
        <5>2. CASE d = [c[1] EXCEPT !.searching = 0]
          BY <5>1, <5>2
        <5>3. CASE d = [c[1] EXCEPT !.handle = 2]
          BY <5>1, <5>3
        <5>4. CASE d = [c[1] EXCEPT !.handle = 1, !.found = 1, !.searching = 0]
          <6> DEFINE e == [c[1] EXCEPT !.handle = 1]
                     f == [e EXCEPT !.found = 1]
          <6>1. e \in [KeyVars -> Int]
            BY <5>1
          <6> HIDE DEF e
          <6>2. f \in [KeyVars -> Int]
            BY <6>1
          <6>3. d = [f EXCEPT !.searching = 0]
            BY <5>1, <5>4 DEF e
          <6> HIDE DEF f
          <6>4. QED BY <6>2, <6>3
        <5>5. QED BY <3>2, <5>2, <5>3, <5>4
      <4>4. \A v \in KeyVars \ Numbers : d[v] \in {0, 1}
        BY <3>1, <3>2, <4>1, <4>2 DEF KeyValues
      <4>5. (d.searching # 0 => d.found = 0) /\ (d.found # 0 => d.handle = 1)
        BY <3>1, <3>2, <4>1, <4>2
      <4>6. QED BY <4>3, <4>4, <4>5 DEF KeyValues
    <3>4. QED BY <3>1, <3>3 DEF Looking, Clean, Sane
  <2>2. QED BY <1>1, <2>1, DoRule
<1>7. Triple(B, A, Excused, Looking)
  <2>1. <<s>> \o <<Do("object")>> = A
    BY Pair
  <2> HIDE DEF A, s
  <2>2. QED BY <1>5, <1>6, <2>1, Then
<1>8. Triple(Looking, While("searching", A), Excused, Looking)
  <2>1. Unlike("searching", Looking) \subseteq Looking /\ When("searching", Looking) \subseteq B
    BY DEF Unlike, B
  <2> HIDE DEF A
  <2>2. QED BY <1>1, <1>7, <2>1, WhileRule
<1>9. QED BY <1>4, <1>8, Then DEF find_object_by_label

LEMMA FoundKey == Triple(Keyless, FindKey(find_object_by_label), Excused, Found)
<1> DEFINE s == Call({"search"}, {"session"})
           t == [Call({}, {"search"}) EXCEPT !.drops = {"search"}]
<1>1. /\ Keyless \in Steady /\ Looking \in Steady /\ Found \in Steady
      /\ Closed(Keyless, Slack) /\ Closed(Found, Slack)
  BY SteadySets, KnownSets
<1>2. Triple(Keyless, Try(s), Excused, Keyless)
  <2>1. Quiet(s, Slack) /\ s.op = "call"
    BY OtherCalls, KeyVarsFacts
  <2> HIDE DEF s
  <2>2. QED BY <1>1, <2>1, QuietTry
<1>3. Triple(Looking, IfNot("found", <<Return>>), Excused, Found)
  <2>1. "found" \in Conditions
    BY DEF Conditions, KeyVars, Settings
  <2>2. When("found", Looking) \subseteq Found
    <3> SUFFICES ASSUME NEW c \in Looking, c[1].found # 0 PROVE c \in Found
      BY <2>1 DEF When, MayHold
    <3>1. c \in Sane /\ c[1] \in KeyValues /\ "found" \in KeyVars \ Numbers
      BY DEF Looking, Clean, Sane, KeyVars, Settings, Numbers
    <3>2. c[1].found = 1
      BY <3>1 DEF KeyValues
    <3>3. QED BY <3>2 DEF Looking, Found
  <2>3. Unlike("found", Looking) \subseteq Looking /\ Looking \subseteq Excused
    BY CleanSets DEF Unlike
  <2>4. Triple(Looking, <<Return>>, Excused, Found)
    <3>1. /\ Return.op = "return" /\ Return.skip \in Int /\ \A c : Allows(Return, c)
      BY DEF Return, Blank, Allows
    <3>2. Return.op \notin {"spawn", "jump", "unless"} /\ Return.op \in Turning
      BY <3>1 DEF Turning
    <3> HIDE DEF Return
    <3>3. QED BY <1>1, <2>3, <3>1, <3>2, OneStep
  <2>5. QED BY <1>1, <2>2, <2>3, <2>4, IfNotRule
<1>4. Triple(Found, Try(t), Excused, Found)
  <2>1. Quiet(Call({}, {"search"}), Slack) /\ "decryption" \notin {"search"}
    BY OtherCalls, KeyVarsFacts
  <2>2. Quiet(t, Slack)
    BY <2>1, KeyVarsFacts, QuietRules
  <2>3. t.op = "call"
    BY DEF Call, Blank
  <2> HIDE DEF t
  <2>4. QED BY <1>1, <2>2, <2>3, QuietTry
<1>5. Triple(Keyless, Try(s) \o find_object_by_label, Excused, Looking)
  BY <1>2, KeyIsFound, Then
<1>6. Triple(Keyless, (Try(s) \o find_object_by_label) \o IfNot("found", <<Return>>), Excused, Found)
  BY <1>3, <1>5, Then
<1>7. QED BY <1>4, <1>6, Then DEF FindKey

LEMMA MoreFacts ==
    ASSUME NEW n \in Lengths, NEW p \in Nat, p * 16 + 16 <= n
    PROVE  /\ More(p, n) \in {0, 1} /\ n \in Int
           /\ More(p, n) # 0 => (p + 1) * 16 + 16 <= n
<1>1. n \in 16 .. 255 /\ n % 16 = 0
  BY LengthsAssumption
<1>2. PICK q \in Int : n = 16 * q
  <2>1. n = (16 * (n \div 16)) + (n % 16) /\ n \div 16 \in Int
    BY <1>1
  <2>2. QED BY <1>1, <2>1
<1>3. (n - 16) % 256 = n - 16
  BY <1>1
<1>4. 2^8 = 256
  OBVIOUS
<1>5. (n - 16) % 2^8 = n - 16
  BY <1>3, <1>4
<1>6. More(p, n) = IF p * 16 < n - 16 THEN 1 ELSE 0
  BY <1>5 DEF More
<1>7. p * 16 < n - 16 => (p + 1) * 16 + 16 <= n
  BY <1>2
<1>8. QED BY <1>1, <1>6, <1>7

LEMMA BlocksRule == Triple(Held, <<Do("blocks")>>, Excused, Room)
<1>1. ASSUME NEW c \in Held, NEW d \in KeyStoreEffect("blocks", c[1])
      PROVE  <<d, c[2]>> \in Room
  <2>1. PICK n \in Lengths : d = [c[1] EXCEPT !.length = n, !.part = 0, !.more = More(0, n)]
    <3> DEFINE e == c[1]
    <3>1. d \in KeyStoreEffect("blocks", e)
      OBVIOUS
    <3> HIDE DEF e
    <3>2. d \in Blocks(e)
      BY <3>1, Effects, Zenon
    <3>3. \E n \in Lengths : d = [e EXCEPT !.length = n, !.part = 0, !.more = More(0, n)]
      BY <3>2, Zenon DEF Blocks
    <3>4. QED BY <3>3, Zenon DEF e
  <2>2. n \in 16 .. 255 /\ 0 * 16 + 16 <= n
    BY LengthsAssumption
  <2>3. More(0, n) \in {0, 1} /\ (More(0, n) # 0 => (0 + 1) * 16 + 16 <= n)
    BY <2>2, MoreFacts
  <2> DEFINE m == More(0, n)
  <2> HIDE DEF m
  <2>4. d = [c[1] EXCEPT !.length = n, !.part = 0, !.more = m] /\ m \in {0, 1}
    BY <2>1, <2>3 DEF m
  <2>5. /\ {"length", "part", "more", "found", "handle"} \subseteq KeyVars
        /\ "length" \in Numbers /\ "part" \in Numbers
        /\ "more" \notin Numbers
    BY DEF KeyVars, Settings, Numbers
  <2>6. /\ c[1] \in [KeyVars -> Int] /\ \A v \in KeyVars \ Numbers : c[1][v] \in {0, 1}
        /\ c[2] \in BOOLEAN /\ c[1].found = 1 /\ c[1].handle = 1
    BY DEF Held, Sane, KeyValues
  <2>7. /\ d \in [KeyVars -> Int] /\ d.length = n /\ d.part = 0 /\ d.more = m
        /\ \A v \in KeyVars \ {"length", "part", "more"} : d[v] = c[1][v]
    <3> DEFINE e == [c[1] EXCEPT !.length = n]
               f == [e EXCEPT !.part = 0]
    <3>1. e \in [KeyVars -> Int] /\ e.length = n /\ \A v \in KeyVars \ {"length"} : e[v] = c[1][v]
      BY <2>2, <2>5, <2>6
    <3>2. d = [f EXCEPT !.more = m]
      BY <2>4
    <3> HIDE DEF e
    <3>3. /\ f \in [KeyVars -> Int] /\ f.length = n /\ f.part = 0
          /\ \A v \in KeyVars \ {"length", "part"} : f[v] = c[1][v]
      BY <2>5, <3>1
    <3> HIDE DEF f
    <3>4. QED BY <2>4, <2>5, <3>2, <3>3
  <2>8. d \in KeyValues
    BY <2>4, <2>5, <2>6, <2>7 DEF KeyValues
  <2>9. d.found = 1 /\ d.handle = 1
    BY <2>5, <2>6, <2>7
  <2>10. <<d, c[2]>> \in Held
    BY <2>6, <2>8, <2>9 DEF Held, Sane
  <2>11. /\ d.length \in Lengths /\ d.part \in Nat /\ d.part * 16 + 16 <= d.length
         /\ d.more # 0 => d.part * 16 + 32 <= d.length
    BY <2>2, <2>3, <2>7 DEF m
  <2>12. QED BY <2>10, <2>11 DEF Room
<1>2. Held \in Steady /\ Room \in Steady
  BY SteadySets
<1>3. QED BY <1>1, <1>2, DoRule

LEMMA NextRule == Triple(RoomFor, <<Do("next")>>, Excused, Room)
<1>1. ASSUME NEW c \in RoomFor, NEW d \in KeyStoreEffect("next", c[1])
      PROVE  <<d, c[2]>> \in Room
  <2> DEFINE n == c[1].length
             p == c[1].part
             m == More(p + 1, n)
  <2>1. /\ n \in Lengths /\ p \in Nat /\ p * 16 + 32 <= n
    BY DEF RoomFor, Room
  <2>2. n \in 16 .. 255 /\ (p + 1) * 16 + 16 <= n /\ p + 1 \in Nat
    BY <2>1, LengthsAssumption
  <2>3. m \in {0, 1} /\ (m # 0 => ((p + 1) + 1) * 16 + 16 <= n)
    BY <2>1, <2>2, MoreFacts
  <2>4. d = [c[1] EXCEPT !.part = p + 1, !.more = m]
    BY DEF KeyStoreEffect
  <2> HIDE DEF m
  <2>5. /\ {"length", "part", "more", "found", "handle"} \subseteq KeyVars
        /\ "part" \in Numbers /\ "more" \notin Numbers
    BY DEF KeyVars, Settings, Numbers
  <2>6. /\ c[1] \in [KeyVars -> Int] /\ \A v \in KeyVars \ Numbers : c[1][v] \in {0, 1}
        /\ c[2] \in BOOLEAN /\ c[1].found = 1 /\ c[1].handle = 1
    BY DEF RoomFor, Room, Held, Sane, KeyValues
  <2>7. /\ d \in [KeyVars -> Int] /\ d.part = p + 1 /\ d.more = m
        /\ \A v \in KeyVars \ {"part", "more"} : d[v] = c[1][v]
    <3> DEFINE q == p + 1
               f == [c[1] EXCEPT !.part = q]
    <3>0. q \in Int
      BY <2>2
    <3> HIDE DEF q
    <3>1. /\ f \in [KeyVars -> Int] /\ f.part = q
          /\ \A v \in KeyVars \ {"part"} : f[v] = c[1][v]
      BY <3>0, <2>5, <2>6
    <3>2. d = [f EXCEPT !.more = m]
      BY <2>4 DEF q
    <3> HIDE DEF f
    <3>3. QED BY <2>3, <2>5, <3>1, <3>2 DEF q
  <2>8. d \in KeyValues
    BY <2>3, <2>5, <2>6, <2>7 DEF KeyValues
  <2>9. d.found = 1 /\ d.handle = 1 /\ d.length = n
    BY <2>5, <2>6, <2>7
  <2>10. <<d, c[2]>> \in Held
    BY <2>6, <2>8, <2>9 DEF Held, Sane
  <2>11. /\ d.length \in Lengths /\ d.part \in Nat /\ d.part * 16 + 16 <= d.length
         /\ d.more # 0 => d.part * 16 + 32 <= d.length
    BY <2>1, <2>2, <2>3, <2>7, <2>9
  <2>12. QED BY <2>10, <2>11 DEF Room
<1>2. RoomFor \in Steady /\ Room \in Steady
  BY SteadySets
<1>3. QED BY <1>1, <1>2, DoRule

\* A block is decrypted into the buffer.
BlockInto(out) == Reads({out.data_clear}, Call({}, {"decryption"}))

LEMMA BlockRule ==
    ASSUME NEW out \in Outs, NEW C \in {Room, RoomFor}
    PROVE  Triple(C, Try(BlockInto(out)), Excused, C)
<1> DEFINE s == BlockInto(out)
           t == Into("rv", s)
<1>1. C \in Steady /\ Closed(C, Slack)
  BY SteadySets, KnownSets
<1>2. s.op = "call" /\ s.skip \in Int /\ DOMAIN s = DOMAIN Blank
  BY DEF BlockInto, Reads, Call, Blank
<1>3. t.op = "call" /\ t.to = "rv" /\ t.makes = {} /\ t.drops = {}
  BY DEF BlockInto, Into, Reads, Call, Blank
<1> HIDE DEF t, s
<1>4. ASSUME NEW c \in C PROVE Allows(t, c) /\ After(t, c) \subseteq C
  <2>1. c[1].part * 16 + 16 <= c[1].length
    BY DEF Room, RoomFor
  <2>2. Allows(t, c)
    BY <1>3, <2>1 DEF Allows
  <2>3. \A ok \in BOOLEAN : <<Given(t, c[1], ok), c[2]>> \in C
    <3>1. Slack \in SUBSET KeyVars /\ t.to \in Slack \cup {Blank.to}
      BY <1>3, KeyVarsFacts
    <3>2. QED BY <1>1, <3>1, GivenKept
  <2>4. c[2] \in BOOLEAN
    BY <1>1, GivenStays, KeyVarsFacts
  <2>5. ("decryption" \in t.makes \/ (c[2] /\ "decryption" \notin t.drops)) = c[2]
        /\ (c[2] /\ "decryption" \notin t.drops) = c[2]
    BY <1>3, <2>4
  <2>6. After(t, c) = {<<Given(t, c[1], TRUE), c[2]>>, <<Given(t, c[1], FALSE), c[2]>>}
    BY <1>3, <2>5 DEF After
  <2>7. QED BY <2>2, <2>3, <2>6
<1>5. \A c \in C : Allows(Into("rv", s), c) /\ After(Into("rv", s), c) \subseteq C
  BY <1>4 DEF t
<1>6. Triple(C, Try(s), Excused, C)
  BY <1>1, <1>2, <1>5, TryRule
<1>7. QED BY <1>6 DEF s

LEMMA DecryptionStarts == Triple(Found, Try(Call({"decryption"}, {"session"})), Excused, Held)
<1> DEFINE s == Call({"decryption"}, {"session"})
           t == Into("rv", s)
<1>1. Found \in Steady /\ Held \in Steady /\ Closed(Held, Slack)
  BY SteadySets, KnownSets
<1>2. s.op = "call" /\ s.skip \in Int /\ DOMAIN s = DOMAIN Blank
  BY DEF Call, Blank
<1>3. t.op = "call" /\ t.to = "rv" /\ t.makes = {"decryption"} /\ t.touches = {}
  BY DEF Into, Call, Blank
<1> HIDE DEF t, s
<1>4. ASSUME NEW c \in Found PROVE Allows(t, c) /\ After(t, c) \subseteq Held
  <2>1. Allows(t, c)
    BY <1>3 DEF Allows
  <2>2. c[1] \in KeyValues /\ c[1].found = 1 /\ c[1].handle = 1
    BY DEF Found, Clean, Sane
  <2>3. ASSUME NEW b \in BOOLEAN, NEW ok \in BOOLEAN
        PROVE  <<Given(t, c[1], ok), b>> \in Held
    <3> DEFINE e == <<c[1], b>>
    <3>1. e \in Held /\ e[1] = c[1] /\ e[2] = b
      BY <2>2 DEF Held, Sane
    <3> HIDE DEF e
    <3>2. <<Given(t, e[1], ok), e[2]>> \in Held
      <4>1. Slack \in SUBSET KeyVars /\ t.to \in Slack \cup {Blank.to}
        BY <1>3, KeyVarsFacts
      <4>2. e \in Held
        BY <3>1
      <4>3. QED BY <1>1, <4>1, <4>2, GivenKept
    <3>3. QED BY <3>1, <3>2
  <2>4. \A e \in After(t, c) : \E b \in BOOLEAN, ok \in BOOLEAN : e = <<Given(t, c[1], ok), b>>
    <3>1. ("decryption" \in t.makes \/ (c[2] /\ "decryption" \notin t.drops)) \in BOOLEAN
          /\ (c[2] /\ "decryption" \notin t.drops) \in BOOLEAN
      OBVIOUS
    <3> DEFINE b1 == "decryption" \in t.makes \/ (c[2] /\ "decryption" \notin t.drops)
               b2 == c[2] /\ "decryption" \notin t.drops
    <3>2. After(t, c) = {<<Given(t, c[1], TRUE), b1>>, <<Given(t, c[1], FALSE), b2>>}
      BY <1>3 DEF After
    <3> HIDE DEF b1, b2
    <3>3. b1 \in BOOLEAN /\ b2 \in BOOLEAN
      BY <3>1 DEF b1, b2
    <3>4. QED BY <3>2, <3>3
  <2>5. QED BY <2>1, <2>3, <2>4
<1>5. \A c \in Found : Allows(Into("rv", s), c) /\ After(Into("rv", s), c) \subseteq Held
  BY <1>4 DEF t
<1>6. Triple(Found, Try(s), Excused, Held)
  BY <1>1, <1>2, <1>5, TryRule
<1>7. QED BY <1>6 DEF s

LEMMA Decrypted ==
    ASSUME NEW out \in Outs
    PROVE  Triple(Found, Decrypt(out), Excused, Held)
<1>1. /\ Closed(Found, Slack) /\ Closed(Held, Slack) /\ Held \in Steady /\ Room \in Steady
      /\ RoomFor \in Steady
  BY SteadySets, KnownSets
<1>2. ASSUME NEW C \in {Found, Held}, NEW x, x \notin {"library", "decryption"}
      PROVE  Triple(C, Malloc(x), Excused, C)
  <2>1. Quiet(Sure(New(x)), Slack) /\ Sure(New(x)).op # "return"
    BY <1>2, KeyVarsFacts, QuietRules, OtherCalls
  <2> DEFINE s == Sure(New(x))
  <2> HIDE DEF s
  <2>2. Triple(C, <<s>>, Excused, C)
    BY <1>1, <2>1, KeyVarsFacts, QuietOne DEF s
  <2>3. QED BY <2>2 DEF Malloc, s
<1>3. ASSUME NEW C \in {Found, Held}, NEW v \in {"strayEncrypted", "strayClear"}
      PROVE  Triple(C, <<Put(v, 0)>>, Excused, C)
  <2> DEFINE s == Put(v, 0)
  <2>1. v \in Slack
    BY DEF Slack, Loose
  <2>2. Quiet(s, Slack) /\ s.op # "return"
    BY <2>1, KeyVarsFacts, QuietRules, OtherCalls
  <2> HIDE DEF s
  <2>3. Triple(C, <<s>>, Excused, C)
    BY <1>1, <2>2, KeyVarsFacts, QuietOne
  <2>4. QED BY <2>3 DEF s
<1>4. /\ out.ptr_encrypted_data \notin {"library", "decryption"}
      /\ out.data_clear \notin {"library", "decryption"}
  BY OutFacts
<1>5. Triple(Room, While("more", Try(BlockInto(out)) \o <<Do("next")>>), Excused, Room)
  <2>1. Triple(RoomFor, Try(BlockInto(out)) \o <<Do("next")>>, Excused, Room)
    BY BlockRule, NextRule, Then
  <2>2. When("more", Room) \subseteq RoomFor /\ Unlike("more", Room) \subseteq Room
    BY DEF When, Unlike, MayHold, RoomFor, Conditions, KeyVars, Settings
  <2>3. QED BY <1>1, <2>1, <2>2, WhileRule
<1>6. Triple(Room, Try(BlockInto(out)), Excused, Held)
  <2>1. Room \subseteq Held
    BY DEF Room
  <2>2. Triple(Room, Try(BlockInto(out)), Excused, Room)
    BY BlockRule
  <2>3. QED BY <1>1, <2>1, <2>2, Weaker
<1> DEFINE A1 == Malloc(out.ptr_encrypted_data)
           A2 == <<Put("strayEncrypted", 0)>>
           A3 == Try(Call({"decryption"}, {"session"}))
           A4 == Malloc(out.data_clear)
           A5 == <<Put("strayClear", 0)>>
           A6 == <<Do("blocks")>>
           A7 == While("more", Try(BlockInto(out)) \o <<Do("next")>>)
           A8 == Try(BlockInto(out))
<1>7. /\ Triple(Found, A1, Excused, Found) /\ Triple(Found, A2, Excused, Found)
      /\ Triple(Found, A3, Excused, Held) /\ Triple(Held, A4, Excused, Held)
      /\ Triple(Held, A5, Excused, Held) /\ Triple(Held, A6, Excused, Room)
      /\ Triple(Room, A7, Excused, Room) /\ Triple(Room, A8, Excused, Held)
  BY <1>2, <1>3, <1>4, <1>5, <1>6, DecryptionStarts, BlocksRule
<1>8. Decrypt(out) = A1 \o A2 \o A3 \o A4 \o A5 \o A6 \o A7 \o A8
  BY DEF Decrypt, BlockInto
<1> HIDE DEF A1, A2, A3, A4, A5, A6, A7, A8
<1>9. Triple(Found, A1 \o A2 \o A3, Excused, Held)
  BY <1>7, Then
<1>10. Triple(Found, A1 \o A2 \o A3 \o A4 \o A5, Excused, Held)
  BY <1>7, <1>9, Then
<1>11. Triple(Found, A1 \o A2 \o A3 \o A4 \o A5 \o A6 \o A7 \o A8, Excused, Held)
  BY <1>7, <1>10, Then
<1>12. QED BY <1>8, <1>11

LEMMA LoggedOut == Triple(Held, LogOut, Excused, Clean)
<1>1. Held \in Steady /\ Clean \in Steady /\ Closed(Held, Slack) /\ Closed(Clean, KeyVars)
  BY SteadySets, KnownSets
<1>2. Triple(Held, If("login", <<Free({"login"})>>), Excused, Held)
  <2> DEFINE s == Free({"login"})
  <2>1. Quiet(s, Slack) /\ s.op # "return"
    BY KeyVarsFacts, OtherCalls
  <2> HIDE DEF s
  <2>2. Triple(Held, <<s>>, Excused, Held)
    BY <1>1, <2>1, KeyVarsFacts, QuietOne
  <2>3. When("login", Held) \subseteq Held /\ Unlike("login", Held) \subseteq Held
    BY DEF When, Unlike
  <2>4. Triple(Held, If("login", <<s>>), Excused, Held)
    BY <1>1, <2>2, <2>3, IfRule
  <2>5. QED BY <2>4 DEF s
<1>3. Triple(Held, <<Free({"decryption"})>>, Excused, Clean)
  <2> DEFINE s == Free({"decryption"})
  <2>1. /\ s.op = "call" /\ s.skip \in Int /\ s.to = Blank.to /\ s.makes = {} /\ s.touches = {}
        /\ s.drops = {"decryption"}
    BY DEF Free, Blank
  <2> HIDE DEF s
  <2>2. ASSUME NEW c \in Held PROVE Allows(s, c) /\ After(s, c) \subseteq Clean
    <3>1. Allows(s, c)
      BY <2>1 DEF Allows
    <3>2. c[1] \in KeyValues /\ <<c[1], FALSE>> \in Clean
      BY DEF Held, Sane, Clean
    <3>3. Given(s, c[1], TRUE) = c[1] /\ Given(s, c[1], FALSE) = c[1]
      BY <2>1 DEF Given
    <3>4. ("decryption" \in s.makes \/ (c[2] /\ "decryption" \notin s.drops)) = FALSE
          /\ (c[2] /\ "decryption" \notin s.drops) = FALSE
      BY <2>1
    <3>5. After(s, c) = {<<c[1], FALSE>>}
      BY <2>1, <3>3, <3>4 DEF After
    <3>6. QED BY <3>1, <3>2, <3>5
  <2>3. s.op \notin {"spawn", "jump", "unless"} /\ s.op # "return"
    BY <2>1
  <2>4. Triple(Held, <<s>>, Excused, Clean)
    BY <1>1, <2>1, <2>2, <2>3, OneStep
  <2>5. QED BY <2>4 DEF s
<1>4. Triple(Clean, <<Free({"session"}), Free({"library"})>>, Excused, Clean)
  <2>1. Quiet(Free({"session"}), KeyVars) /\ Quiet(Free({"library"}), KeyVars)
    BY KeyVarsFacts, OtherCalls
  <2>2. Tame(<<Free({"session"}), Free({"library"})>>, KeyVars)
    BY <2>1, KeyVarsFacts, QuietLists
  <2>3. QED BY <1>1, <2>2, CleanSets, TameClean
<1>5. Triple(Held, <<Free({"decryption"})>> \o <<Free({"session"}), Free({"library"})>>, Excused, Clean)
  BY <1>3, <1>4, Then
<1>6. Triple(Held, <<Free({"decryption"}), Free({"session"}), Free({"library"})>>, Excused, Clean)
  BY <1>5, Pair
<1>7. QED BY <1>2, <1>6, Then DEF LogOut

LEMMA Initialized == Triple(Fresh, Initialize, Excused, Fresh)
<1>1. Fresh \in Steady /\ Closed(Fresh, Slack) /\ Fresh \subseteq Excused
  BY SteadySets, KnownSets, CleanSets
<1>2. Triple(Fresh, If("library", <<Put("rv", 1), Return>>), Excused, Fresh)
  <2>1. Quiet(Put("rv", 1), Slack) /\ Quiet(Return, Slack)
    BY KeyVarsFacts, QuietRules
  <2>2. Tame(<<Put("rv", 1), Return>>, Slack)
    BY <2>1, KeyVarsFacts, QuietLists
  <2>3. Tame(If("library", <<Put("rv", 1), Return>>), Slack)
    BY <2>2, TameRules
  <2>4. QED BY <1>1, <2>3, TameClean
<1>3. Triple(Fresh, Try(Call({"library"}, {})), Excused, Fresh)
  <2> DEFINE s == Call({"library"}, {})
             t == Into("rv", s)
  <2>1. s.op = "call" /\ s.skip \in Int /\ DOMAIN s = DOMAIN Blank
    BY DEF Call, Blank
  <2>2. /\ t.op = "call" /\ t.to = "rv" /\ t.makes = {"library"} /\ t.touches = {}
        /\ t.drops = {}
    BY DEF Into, Call, Blank
  <2> HIDE DEF t, s
  <2>3. ASSUME NEW c \in Fresh PROVE Allows(t, c) /\ After(t, c) \subseteq Fresh
    <3>1. c[1].intact = 1 \/ c[1].digest = 0
      BY DEF Fresh, Genuine
    <3>2. Allows(t, c)
      BY <2>2, <3>1 DEF Allows
    <3>3. \A ok \in BOOLEAN : <<Given(t, c[1], ok), c[2]>> \in Fresh
      <4>1. Slack \in SUBSET KeyVars /\ t.to \in Slack \cup {Blank.to}
        BY <2>2, KeyVarsFacts
      <4>2. QED BY <1>1, <4>1, GivenKept
    <3>4. c[2] = FALSE
      BY DEF Fresh, Keyless, Clean, Sane
    <3>5. ("decryption" \in t.makes \/ (c[2] /\ "decryption" \notin t.drops)) = c[2]
          /\ (c[2] /\ "decryption" \notin t.drops) = c[2]
      BY <2>2, <3>4
    <3>6. After(t, c) = {<<Given(t, c[1], TRUE), c[2]>>, <<Given(t, c[1], FALSE), c[2]>>}
      BY <2>2, <3>5 DEF After
    <3>7. QED BY <3>2, <3>3, <3>6
  <2>4. \A c \in Fresh : Allows(Into("rv", s), c) /\ After(Into("rv", s), c) \subseteq Fresh
    BY <2>3 DEF t
  <2>5. Triple(Fresh, Try(s), Excused, Fresh)
    BY <1>1, <2>1, <2>4, TryRule
  <2>6. QED BY <2>5 DEF s
<1>4. QED BY <1>2, <1>3, Then DEF Initialize

\* The token's slot and session.
LEMMA SessionTame ==
    ASSUME NEW out \in Outs
    PROVE  Tame(Slots(out), Slack) /\ Tame(ChooseSlot(out), Slack) /\ Tame(LogIn, Slack)
<1>1. /\ Slack \in SUBSET KeyVars /\ "rv" \in Slack
      /\ out.pSlotList \notin {"library", "decryption"} /\ out.pSlotList \notin ClearBuffers
  BY KeyVarsFacts, OutFacts
<1>2. /\ \A ys : Quiet(Call({}, ys), Slack)
      /\ Quiet(Call({"session"}, {"library"}), Slack)
      /\ Quiet(Call({"login"}, {"session"}), Slack)
      /\ Quiet(New(out.pSlotList), Slack) /\ Quiet(Deref({out.pSlotList}), Slack)
      /\ Quiet(Put("rv", 1), Slack) /\ Quiet(Return, Slack)
  BY <1>1, OtherCalls, QuietRules
<1>3. /\ \A ys : Tame(Try(Call({}, ys)), Slack)
      /\ Tame(Try(Call({"session"}, {"library"})), Slack)
      /\ Tame(Try(Call({"login"}, {"session"})), Slack)
  BY <1>1, <1>2, QuietIdioms
<1>4. /\ Tame(<<Return>>, Slack) /\ Tame(<<New(out.pSlotList)>>, Slack)
      /\ Tame(<<Deref({out.pSlotList})>>, Slack) /\ Tame(<<Put("rv", 1), Return>>, Slack)
  BY <1>1, <1>2, QuietLists
<1>5. /\ Tame(Maybe(<<Return>>), Slack)
      /\ Tame(IfNot(out.pSlotList, <<Put("rv", 1), Return>>), Slack)
      /\ Tame(Maybe(Try(Call({}, {"library"}))), Slack)
      /\ Tame(Maybe(Try(Call({"login"}, {"session"}))), Slack)
  BY <1>3, <1>4, TameRules
<1>6. Tame(Slots(out), Slack)
  <2>1. Tame(Try(Call({}, {"library"})) \o Maybe(<<Return>>) \o <<New(out.pSlotList)>>, Slack)
    BY <1>3, <1>4, <1>5, TameRules
  <2>2. Tame(IfNot(out.pSlotList, <<Put("rv", 1), Return>>), Slack)
    BY <1>5
  <2>3. Tame(Try(Call({}, {"library"})) \o Maybe(<<Return>>) \o <<New(out.pSlotList)>>
             \o IfNot(out.pSlotList, <<Put("rv", 1), Return>>), Slack)
    BY <2>1, <2>2, TameRules
  <2>4. QED BY <1>3, <2>3, TameRules DEF Slots
<1>7. Tame(ChooseSlot(out), Slack)
  BY <1>4, <1>5, TameRules DEF ChooseSlot
<1>8. Tame(LogIn, Slack)
  <2>1. Tame(Try(Call({"session"}, {"library"})) \o Try(Call({}, {"session"})), Slack)
    BY <1>3, TameRules
  <2>2. QED BY <1>5, <2>1, TameRules DEF LogIn
<1>9. QED BY <1>6, <1>7, <1>8

LEMMA FreeIfSetTame ==
    ASSUME NEW V \in SUBSET KeyVars, NEW x, x # "decryption", NEW stray
    PROVE  Tame(FreeIfSet(x, stray), V)
<1>1. "nothing" \notin ClearBuffers
  BY DEF ClearBuffers, Outs, EncryptOut, SignOut, CertificateOut
<1>2. Quiet(Deref({"nothing"}), V) /\ Quiet(Free({x}), V)
  BY <1>1, OtherCalls
<1>3. Tame(<<Deref({"nothing"})>>, V) /\ Tame(<<Free({x})>>, V)
  BY <1>2, QuietLists
<1>4. QED BY <1>3, TameRules DEF FreeIfSet

LEMMA DeclaredTame ==
    ASSUME NEW V \in SUBSET KeyVars, NEW v \in V, NEW x
    PROVE  Tame(Declared(v, x), V)
<1>1. Quiet(Put(v, 0), V) /\ Quiet(Put(v, 1), V)
  BY QuietRules
<1>2. Tame(<<Put(v, 0)>>, V) /\ Tame(<<Put(v, 1)>>, V)
  BY <1>1, QuietLists
<1>3. Tame(If(x, Maybe(<<Put(v, 1)>>)), V)
  BY <1>2, TameRules
<1>4. QED BY <1>2, <1>3, TameRules DEF Declared

LEMMA DataDecrypted ==
    ASSUME NEW out \in Outs
    PROVE  Triple(Genuine, decrypt_data(out, find_object_by_label), Excused, Excused)
<1>1. /\ Genuine \in Steady /\ Fresh \in Steady /\ Keyless \in Steady /\ Clean \in Steady
      /\ Held \in Steady /\ Excused \in Steady
      /\ Closed(Fresh, Slack) /\ Closed(Keyless, Slack) /\ Closed(Held, Slack)
      /\ Closed(Clean, KeyVars) /\ Closed(Excused, Loose)
      /\ Fresh \subseteq Excused /\ Keyless \subseteq Excused /\ Clean \subseteq Excused
  BY SteadySets, KnownSets, CleanSets
<1>2. Triple(Genuine, <<Put("found", 0)>>, Excused, Fresh)
  <2>1. ASSUME NEW c \in Genuine PROVE <<[c[1] EXCEPT !.found = 0], c[2]>> \in Fresh
    <3> DEFINE d == [c[1] EXCEPT !.found = 0]
    <3>1. /\ c[1] \in [KeyVars -> Int] /\ c[2] = FALSE
          /\ \A v \in KeyVars \ Numbers : c[1][v] \in {0, 1}
      BY DEF Genuine, Clean, Sane, KeyValues
    <3>2. {"found", "intact", "digest"} \subseteq KeyVars
      BY DEF KeyVars, Settings
    <3>3. /\ d \in [KeyVars -> Int] /\ d.found = 0
          /\ \A v \in KeyVars \ {"found"} : d[v] = c[1][v]
      BY <3>1, <3>2
    <3> HIDE DEF d
    <3>4. d \in KeyValues
      BY <3>1, <3>3 DEF KeyValues
    <3>5. d.intact = 1 \/ d.digest = 0
      BY <3>2, <3>3 DEF Genuine
    <3>6. <<d, c[2]>> \in Fresh
      BY <3>1, <3>3, <3>4, <3>5 DEF Fresh, Genuine, Keyless, Clean, Sane
    <3>7. QED BY <3>6 DEF d
  <2>2. QED BY <1>1, <2>1, PutRule
<1>3. /\ Triple(Fresh, Declared("strayEncrypted", "unset"), Excused, Fresh)
      /\ Triple(Fresh, Declared("strayClear", "unset"), Excused, Fresh)
  <2>1. "strayEncrypted" \in Slack /\ "strayClear" \in Slack
    BY DEF Slack, Loose
  <2>2. QED BY <1>1, <2>1, KeyVarsFacts, DeclaredTame, TameClean
<1> DEFINE I == Initialize
           A1 == Slots(out)
           A2 == ChooseSlot(out)
           A3 == LogIn
           A4 == FindKey(find_object_by_label)
           A5 == Decrypt(out)
           A6 == <<Free({out.data})>>
           A7 == Malloc(out.data)
           A8 == LogOut
           F == I \o A1 \o A2 \o A3 \o A4 \o A5 \o A6 \o A7 \o A8
<1>4. Triple(Fresh, I, Excused, Keyless)
  <2>1. Fresh \subseteq Keyless
    BY DEF Fresh
  <2>2. QED BY <1>1, <2>1, Initialized, Weaker
<1>5. /\ Triple(Keyless, A1, Excused, Keyless) /\ Triple(Keyless, A2, Excused, Keyless)
      /\ Triple(Keyless, A3, Excused, Keyless)
  BY <1>1, SessionTame, TameClean
<1>6. Triple(Keyless, A4, Excused, Found) /\ Triple(Found, A5, Excused, Held)
  BY FoundKey, Decrypted
<1>7. Triple(Held, A6, Excused, Held)
  <2> DEFINE s == Free({out.data})
  <2>1. out.data # "decryption"
    BY OutFacts
  <2>2. Quiet(s, Slack) /\ s.op # "return"
    BY <2>1, KeyVarsFacts, OtherCalls
  <2> HIDE DEF s
  <2>3. Triple(Held, <<s>>, Excused, Held)
    BY <1>1, <2>2, KeyVarsFacts, QuietOne
  <2>4. QED BY <2>3 DEF s
<1>8. Triple(Held, A7, Excused, Held)
  <2> DEFINE s == Sure(New(out.data))
  <2>1. out.data \notin {"library", "decryption"}
    BY OutFacts
  <2>2. Quiet(s, Slack) /\ s.op # "return"
    BY <2>1, KeyVarsFacts, QuietRules, OtherCalls
  <2> HIDE DEF s
  <2>3. Triple(Held, <<s>>, Excused, Held)
    BY <1>1, <2>2, KeyVarsFacts, QuietOne
  <2>4. QED BY <2>3 DEF s, Malloc
<1>9. Triple(Held, A8, Excused, Excused)
  BY <1>1, LoggedOut, Weaker
<1>10. Triple(Fresh, Fn(F), Excused, Excused)
  <2> HIDE DEF I, A1, A2, A3, A4, A5, A6, A7, A8
  <2>1. Triple(Fresh, I \o A1 \o A2 \o A3, Excused, Keyless)
    BY <1>4, <1>5, Then
  <2>2. Triple(Fresh, I \o A1 \o A2 \o A3 \o A4 \o A5, Excused, Held)
    BY <1>6, <2>1, Then
  <2>3. Triple(Fresh, F, Excused, Excused)
    BY <1>7, <1>8, <1>9, <2>2, Then
  <2> HIDE DEF F
  <2>4. QED BY <2>3, FnRule
<1>11. /\ Triple(Excused, FreeIfSet(out.data_clear, "strayClear"), Excused, Excused)
       /\ Triple(Excused, <<Free({out.pSlotList})>>, Excused, Excused)
       /\ Triple(Excused, FreeIfSet(out.ptr_encrypted_data, "strayEncrypted"), Excused, Excused)
  <2>1. /\ out.data_clear # "decryption" /\ out.pSlotList # "decryption"
        /\ out.ptr_encrypted_data # "decryption"
    BY OutFacts
  <2>2. Tame(<<Free({out.pSlotList})>>, Loose)
    <3>1. Quiet(Free({out.pSlotList}), Loose)
      BY <2>1, KeyVarsFacts, OtherCalls
    <3>2. QED BY <3>1, KeyVarsFacts, QuietLists
  <2>3. QED BY <1>1, <2>1, <2>2, KeyVarsFacts, FreeIfSetTame, TameClean
<1> DEFINE B1 == <<Put("found", 0)>>
           B2 == Declared("strayEncrypted", "unset")
           B3 == Declared("strayClear", "unset")
           B4 == Fn(F)
           B5 == FreeIfSet(out.data_clear, "strayClear")
           B6 == <<Free({out.pSlotList})>>
           B7 == FreeIfSet(out.ptr_encrypted_data, "strayEncrypted")
<1>12. decrypt_data(out, find_object_by_label) = B1 \o B2 \o B3 \o B4 \o B5 \o B6 \o B7
  BY DEF decrypt_data
<1>13. /\ Triple(Genuine, B1, Excused, Fresh) /\ Triple(Fresh, B2, Excused, Fresh)
       /\ Triple(Fresh, B3, Excused, Fresh) /\ Triple(Fresh, B4, Excused, Excused)
       /\ Triple(Excused, B5, Excused, Excused) /\ Triple(Excused, B6, Excused, Excused)
       /\ Triple(Excused, B7, Excused, Excused)
  BY <1>2, <1>3, <1>10, <1>11
<1> HIDE DEF B1, B2, B3, B4, B5, B6, B7
<1>14. Triple(Genuine, B1 \o B2 \o B3 \o B4, Excused, Excused)
  BY <1>13, Then
<1>15. Triple(Genuine, B1 \o B2 \o B3 \o B4 \o B5 \o B6 \o B7, Excused, Excused)
  BY <1>13, <1>14, Then
<1>16. QED BY <1>12, <1>15

LEMMA MacTame ==
    ASSUME NEW out \in Outs
    PROVE  Tame(get_MAC(out), KeyVars)
<1>1. /\ KeyVars \in SUBSET KeyVars /\ {"rv", "digest", "strayDigest"} \subseteq KeyVars
      /\ out.md_value \notin {"library", "decryption"}
  BY OutFacts DEF KeyVars, Settings
<1>2. /\ Quiet(Put("digest", 0), KeyVars) /\ Quiet(Put("digest", 1), KeyVars)
      /\ Quiet(Put("strayDigest", 0), KeyVars) /\ Quiet(Call({}, {"md_ctx"}), KeyVars)
      /\ Quiet(Free({"md_ctx"}), KeyVars)
  BY <1>1, QuietRules, OtherCalls
<1> DEFINE A1 == <<Put("digest", 0)>>
           A2 == Alloc("md_ctx")
           A3 == Try(Call({}, {"md_ctx"}))
           A4 == Alloc(out.md_value)
           A5 == <<Put("strayDigest", 0)>>
           A6 == <<Put("digest", 1), Free({"md_ctx"})>>
<1>3. /\ Tame(A1, KeyVars) /\ Tame(A2, KeyVars) /\ Tame(A3, KeyVars) /\ Tame(A4, KeyVars)
      /\ Tame(A5, KeyVars) /\ Tame(A6, KeyVars)
  BY <1>1, <1>2, QuietLists, QuietIdioms
<1>4. get_MAC(out) = Fn(A1 \o A2 \o A3 \o A3 \o A4 \o A5 \o A3 \o A6)
  BY DEF get_MAC
<1> HIDE DEF A1, A2, A3, A4, A5, A6
<1>5. Tame(A1 \o A2 \o A3 \o A3, KeyVars)
  BY <1>3, TameRules
<1>6. Tame(A1 \o A2 \o A3 \o A3 \o A4 \o A5, KeyVars)
  BY <1>3, <1>5, TameRules
<1>7. Tame(A1 \o A2 \o A3 \o A3 \o A4 \o A5 \o A3 \o A6, KeyVars)
  BY <1>3, <1>6, TameRules
<1>8. QED BY <1>4, <1>7, TameRules

LEMMA CompareRule == Triple(Clean, <<Do("compare")>>, Excused, Compared)
<1>1. ASSUME NEW c \in Clean, NEW d \in KeyStoreEffect("compare", c[1])
      PROVE  <<d, c[2]>> \in Compared
  <2> DEFINE e == c[1]
  <2>1. d \in Compare(e)
    BY Effects, Zenon
  <2>2. e \in [KeyVars -> Int] /\ c[2] = FALSE /\ \A v \in KeyVars \ Numbers : e[v] \in {0, 1}
    BY DEF Clean, Sane, KeyValues
  <2> HIDE DEF e
  <2>3. /\ d \in {[e EXCEPT !.intact = i, !.same = s] : i, s \in {0, 1}}
        /\ e.digest = 1 => d.same = d.intact
    BY <2>1 DEF Compare
  <2>4. \E i, s \in {0, 1} : d = [e EXCEPT !.intact = i, !.same = s]
    BY <2>3
  <2>5. PICK i \in {0, 1} : \E s \in {0, 1} : d = [e EXCEPT !.intact = i, !.same = s]
    BY <2>4
  <2>6. PICK s \in {0, 1} : d = [e EXCEPT !.intact = i, !.same = s]
    BY <2>5
  <2>7. {"intact", "same", "digest"} \subseteq KeyVars
    BY DEF KeyVars, Settings
  <2>8. /\ d \in [KeyVars -> Int] /\ d.digest = e.digest
        /\ \A v \in KeyVars \ Numbers : d[v] \in {0, 1}
    <3> DEFINE f == [e EXCEPT !.intact = i]
    <3>1. /\ f \in [KeyVars -> Int] /\ f.digest = e.digest
          /\ \A v \in KeyVars \ Numbers : f[v] \in {0, 1}
      BY <2>2, <2>7
    <3>2. d = [f EXCEPT !.same = s]
      BY <2>6
    <3> HIDE DEF f
    <3>3. QED BY <2>7, <3>1, <3>2
  <2>9. QED BY <2>2, <2>3, <2>8 DEF Compared, Clean, Sane, KeyValues
<1>2. Clean \in Steady /\ Compared \in Steady
  BY SteadySets
<1>3. QED BY <1>1, <1>2, DoRule

LEMMA FileDecrypted ==
    ASSUME NEW out \in Outs
    PROVE  Triple(Clean, decrypt(out, get_MAC(out), decrypt_data(out, find_object_by_label)),
                  Excused, Excused)
<1>1. /\ Clean \in Steady /\ Compared \in Steady /\ Genuine \in Steady /\ Excused \in Steady
      /\ Closed(Clean, KeyVars) /\ Closed(Excused, Loose) /\ Closed(Compared, Slack)
      /\ Clean \subseteq Excused /\ Compared \subseteq Excused
  BY SteadySets, KnownSets, CleanSets
<1>2. /\ KeyVars \in SUBSET KeyVars /\ Loose \in SUBSET KeyVars /\ Slack \in SUBSET KeyVars
      /\ "strayDigest" \in KeyVars /\ "rv" \in Slack
      /\ out.md_value # "decryption" /\ out.md_value \notin ClearBuffers
      /\ "nothing" \notin ClearBuffers
  BY KeyVarsFacts, OutFacts DEF KeyVars, Settings
<1> DEFINE A1 == Declared("strayDigest", "unset")
           A2 == Malloc("enc_data")
           A3 == Malloc("iv_data")
           A4 == get_MAC(out)
           A5 == IfElse("digest", <<Deref({out.md_value})>>, Maybe(<<Deref({"nothing"})>>))
           A6 == <<Do("compare")>>
           B1 == decrypt_data(out, find_object_by_label)
           B2 == <<Free({"iv_data"}), Free({"enc_data"})>>
           B3 == FreeIfSet(out.md_value, "strayDigest")
           A7 == IfElse("same", B1 \o B2 \o B3, <<Put("rv", 1)>>)
<1>3. Tame(A1, KeyVars) /\ Tame(A2, KeyVars) /\ Tame(A3, KeyVars) /\ Tame(A4, KeyVars)
  BY <1>2, DeclaredTame, QuietIdioms, MacTame
<1>4. Tame(A5, KeyVars)
  <2>1. Quiet(Deref({out.md_value}), KeyVars) /\ Quiet(Deref({"nothing"}), KeyVars)
    BY <1>2, OtherCalls
  <2>2. Tame(<<Deref({out.md_value})>>, KeyVars) /\ Tame(<<Deref({"nothing"})>>, KeyVars)
    BY <1>2, <2>1, QuietLists
  <2>3. Tame(Maybe(<<Deref({"nothing"})>>), KeyVars)
    BY <2>2, TameRules
  <2>4. QED BY <2>2, <2>3, TameRules
<1>5. Triple(Genuine, B1, Excused, Excused)
  BY DataDecrypted
<1>6. Triple(Excused, B2, Excused, Excused) /\ Triple(Excused, B3, Excused, Excused)
  <2>1. Quiet(Free({"iv_data"}), Loose) /\ Quiet(Free({"enc_data"}), Loose)
    BY <1>2, OtherCalls
  <2>2. Tame(B2, Loose) /\ Tame(B3, Loose)
    BY <1>2, <2>1, QuietLists, FreeIfSetTame
  <2>3. QED BY <1>1, <2>2, TameClean
<1>7. Triple(Compared, <<Put("rv", 1)>>, Excused, Excused)
  <2> DEFINE s == Put("rv", 1)
  <2>1. Quiet(s, Slack) /\ s.op # "return"
    BY <1>2, QuietRules, OtherCalls
  <2> HIDE DEF s
  <2>2. Triple(Compared, <<s>>, Excused, Compared)
    BY <1>1, <1>2, <2>1, QuietOne
  <2>3. Triple(Compared, <<s>>, Excused, Excused)
    BY <1>1, <2>2, Weaker
  <2>4. QED BY <2>3 DEF s
<1> HIDE DEF A1, A2, A3, A4, A5, B1, B2, B3
<1>8. Triple(Clean, A1 \o A2 \o A3 \o A4 \o A5, Excused, Clean)
  <2>1. Tame(A1 \o A2 \o A3, KeyVars)
    BY <1>3, TameRules
  <2>2. Tame(A1 \o A2 \o A3 \o A4 \o A5, KeyVars)
    BY <1>3, <1>4, <2>1, TameRules
  <2>3. QED BY <1>1, <2>2, TameClean
<1>9. Triple(Clean, A6, Excused, Compared)
  BY CompareRule
<1>10. Triple(Compared, A7, Excused, Excused)
  <2>1. Triple(Genuine, B1 \o B2 \o B3, Excused, Excused)
    BY <1>5, <1>6, Then
  <2>2. When("same", Compared) \subseteq Genuine
    <3> SUFFICES ASSUME NEW c \in Compared, c[1].same # 0 PROVE c \in Genuine
      BY DEF When, MayHold, Conditions, KeyVars, Settings
    <3>1. c \in Clean /\ c[1] \in KeyValues
      BY DEF Compared, Clean, Sane
    <3>2. {"same", "digest", "intact"} \subseteq KeyVars \ Numbers
      BY DEF KeyVars, Settings, Numbers
    <3>3. c[1].same = 1 /\ c[1].digest \in {0, 1}
      BY <3>1, <3>2 DEF KeyValues
    <3>4. QED BY <3>1, <3>3 DEF Compared, Genuine
  <2>3. Unlike("same", Compared) \subseteq Compared
    BY DEF Unlike
  <2> DEFINE Z == <<Put("rv", 1)>>
             W == B1 \o B2 \o B3
  <2>4. Triple(Genuine, W, Excused, Excused) /\ Triple(Compared, Z, Excused, Excused)
    BY <1>7, <2>1
  <2> HIDE DEF W, Z
  <2>5. Triple(Compared, IfElse("same", W, Z), Excused, Excused)
    BY <1>1, <2>2, <2>3, <2>4, IfElseRule
  <2>6. QED BY <2>5 DEF W, Z
<1>11. decrypt(out, get_MAC(out), decrypt_data(out, find_object_by_label))
         = A1 \o A2 \o A3 \o A4 \o A5 \o A6 \o A7
  BY DEF decrypt, A1, A2, A3, A4, A5, B1, B2, B3
<1> HIDE DEF A6, A7
<1>12. Triple(Clean, A1 \o A2 \o A3 \o A4 \o A5 \o A6 \o A7, Excused, Excused)
  BY <1>8, <1>9, <1>10, Then
<1>13. QED BY <1>11, <1>12

LEMMA Unsealed ==
    ASSUME NEW out \in Outs, NEW A, Triple(Clean, A, Excused, Excused)
    PROVE  Triple(Clean, Unseal(out, A), Excused, Clean)
<1>1. Clean \in Steady /\ Excused \in Steady /\ Closed(Clean, KeyVars) /\ Clean \subseteq Excused
  BY SteadySets, KnownSets, CleanSets
<1>2. Triple(Clean, Malloc(out.self), Excused, Clean)
  <2>1. out.self \notin {"library", "decryption"}
    BY OutFacts
  <2>2. Tame(Malloc(out.self), KeyVars)
    BY <2>1, KeyVarsFacts, QuietIdioms
  <2>3. QED BY <1>1, <2>2, TameClean
<1>3. Triple(Excused, GiveUp("rv"), Excused, Clean)
  <2> DEFINE s == Exit("failure")
  <2>1. s.op = "exit" /\ s.skip \in Int
    BY DEF Exit, Blank
  <2> HIDE DEF s
  <2>2. Triple(Excused, <<s>>, Excused, Clean)
    <3>1. \A c \in Excused : Allows(s, c)
      BY <2>1 DEF Allows
    <3>2. s.op \notin {"spawn", "jump", "unless"} /\ s.op # "return" /\ s.op \in Turning
      BY <2>1 DEF Turning
    <3>3. QED BY <1>1, <2>1, <3>1, <3>2, OneStep
  <2>3. When("rv", Excused) \subseteq Excused /\ Unlike("rv", Excused) \subseteq Clean
    BY DEF When, Unlike, MayFail, Excused, Clean, Conditions, KeyVars, Settings
  <2>4. Triple(Excused, If("rv", <<s>>), Excused, Clean)
    BY <1>1, <2>2, <2>3, IfRule
  <2>5. QED BY <2>4 DEF GiveUp, s
<1>4. QED BY <1>2, <1>3, Then DEF Unseal

LEMMA PubSteps ==
    /\ \A m, n : Pub!Call(m, n) = Call(m, n)
    /\ \A v, s : Pub!Into(v, s) = Into(v, s)
    /\ \A v, s : Pub!OrInto(v, s) = OrInto(v, s)
    /\ \A m : Pub!Deref(m) = Deref(m)
    /\ \A m : Pub!Free(m) = Free(m)
    /\ \A m, s : Pub!Reads(m, s) = Reads(m, s)
    /\ \A v, n : Pub!Put(v, n) = Put(v, n)
    /\ Pub!Signal = Signal
    /\ \A v : Pub!Exit(v) = Exit(v)
    /\ \A v, s : Pub!If(v, s) = If(v, s)
    /\ \A v : Pub!New(v) = New(v)
    /\ \A v : Pub!GiveUp(v) = GiveUp(v)
    /\ \A n, s : Pub!Times(n, s) = Times(n, s)
    /\ \A v, n : Pub!RunServer(v, n) = RunServer(v, n)
    /\ Pub!NewServer = NewServer /\ Pub!DeleteServer = DeleteServer
BY DEF Pub!Call, Call, Pub!Into, Into, Pub!OrInto, OrInto, Pub!Deref, Deref, Pub!Free, Free,
       Pub!Reads, Reads, Pub!Put, Put, Pub!Signal, Signal, Pub!Exit, Exit, Pub!If, If,
       Pub!IfNot, IfNot, Pub!New, New, Pub!GiveUp, GiveUp, Pub!Times, Times,
       Pub!RunServer, RunServer, Pub!Wait, Wait, Pub!NewServer, NewServer,
       Pub!DeleteServer, DeleteServer, Pub!Blank, Blank, Pub!Unless, Unless, Pub!Jump, Jump

LEMMA SubSteps ==
    /\ \A m, n : Sub!Call(m, n) = Call(m, n)
    /\ \A v, s : Sub!Into(v, s) = Into(v, s)
    /\ \A v, s : Sub!OrInto(v, s) = OrInto(v, s)
    /\ \A m : Sub!Deref(m) = Deref(m)
    /\ \A m : Sub!Free(m) = Free(m)
    /\ \A m, s : Sub!Reads(m, s) = Reads(m, s)
    /\ \A v, n : Sub!Put(v, n) = Put(v, n)
    /\ Sub!Signal = Signal
    /\ \A v : Sub!Exit(v) = Exit(v)
    /\ \A v, s : Sub!If(v, s) = If(v, s)
    /\ \A v : Sub!New(v) = New(v)
    /\ \A v : Sub!GiveUp(v) = GiveUp(v)
    /\ \A n, s : Sub!Times(n, s) = Times(n, s)
    /\ \A v, n : Sub!RunServer(v, n) = RunServer(v, n)
    /\ Sub!NewServer = NewServer /\ Sub!DeleteServer = DeleteServer
BY DEF Sub!Call, Call, Sub!Into, Into, Sub!OrInto, OrInto, Sub!Deref, Deref, Sub!Free, Free,
       Sub!Reads, Reads, Sub!Put, Put, Sub!Signal, Signal, Sub!Exit, Exit, Sub!If, If,
       Sub!IfNot, IfNot, Sub!New, New, Sub!GiveUp, GiveUp, Sub!Times, Times,
       Sub!RunServer, RunServer, Sub!Wait, Wait, Sub!NewServer, NewServer,
       Sub!DeleteServer, DeleteServer, Sub!Blank, Blank, Sub!Unless, Unless, Sub!Jump, Jump


\* What all four do besides.
LEMMA CommonTame ==
    /\ \A x : Tame(Maybe(<<Exit(x)>>), KeyVars) /\ Tame(<<Exit(x)>>, KeyVars)
    /\ Tame(<<Signal>>, KeyVars) /\ Tame(ReadArguments, KeyVars)
    /\ Tame(NewServer, KeyVars) /\ Tame(DeleteServer, KeyVars)
    /\ Tame(RunServer("retval", "running"), KeyVars)
    /\ Tame(Forget(EncryptOut), KeyVars) /\ Tame(Forget(SignOut), KeyVars)
    /\ Tame(<<Deref({"server"}), New("securityPolicies"),
              Reads({"securityPolicies"}, Call({"policy"}, {"config"}))>>, KeyVars)
<1>1. /\ KeyVars \in SUBSET KeyVars /\ "retval" \in KeyVars
      /\ EncryptOut \in Outs /\ SignOut \in Outs
      /\ "server" \notin ClearBuffers /\ {"securityPolicies"} \cap ClearBuffers = {}
  BY DEF KeyVars, Outs, ClearBuffers, EncryptOut, SignOut, CertificateOut
<1>2. \A x : Tame(<<Exit(x)>>, KeyVars) /\ Tame(Maybe(<<Exit(x)>>), KeyVars)
  BY <1>1, QuietRules, QuietLists, TameRules
<1>3. Tame(<<Signal>>, KeyVars)
  BY <1>1, QuietRules, QuietLists
<1>4. Tame(ReadArguments, KeyVars)
  BY <1>2, TameRules DEF ReadArguments
<1>5. Tame(NewServer, KeyVars)
  <2>1. Quiet(New("server"), KeyVars) /\ Quiet(Call({"config"}, {"server"}), KeyVars)
    BY <1>1, QuietRules, OtherCalls
  <2>2. QED BY <1>1, <2>1, QuietLists DEF NewServer
<1>6. Tame(DeleteServer, KeyVars)
  <2>1. Quiet(Free({"server"}), KeyVars)
    BY <1>1, OtherCalls
  <2>2. QED BY <1>1, <2>1, QuietLists DEF DeleteServer
<1>7. Tame(RunServer("retval", "running"), KeyVars)
  BY <1>1, QuietIdioms
<1>8. ASSUME NEW out \in Outs PROVE Tame(Forget(out), KeyVars)
  <2>1. out.self \notin ClearBuffers /\ out.self # "decryption" /\ out.data # "decryption"
    BY OutFacts
  <2>2. /\ Quiet(Deref({out.self}), KeyVars) /\ Quiet(Free({out.self}), KeyVars)
        /\ Quiet(Free({out.data}), KeyVars)
    BY <1>1, <2>1, OtherCalls
  <2>3. QED BY <1>1, <2>2, QuietLists DEF Forget
<1>9. Tame(<<Deref({"server"}), New("securityPolicies"),
             Reads({"securityPolicies"}, Call({"policy"}, {"config"}))>>, KeyVars)
  <2>1. /\ Quiet(Deref({"server"}), KeyVars) /\ Quiet(New("securityPolicies"), KeyVars)
        /\ Quiet(Call({"policy"}, {"config"}), KeyVars)
    BY <1>1, QuietRules, OtherCalls
  <2>2. Quiet(Reads({"securityPolicies"}, Call({"policy"}, {"config"})), KeyVars)
    BY <1>1, <2>1, QuietRules
  <2>3. QED BY <1>1, <2>1, <2>2, QuietLists
<1>10. QED BY <1>1, <1>2, <1>3, <1>4, <1>5, <1>6, <1>7, <1>8, <1>9

LEMMA PublisherTame == Tame(publish_run, KeyVars)
<1>1. KeyVars \in SUBSET KeyVars /\ "server" \notin ClearBuffers /\ "message" \notin ClearBuffers
  BY DEF KeyVars, Outs, ClearBuffers, EncryptOut, SignOut, CertificateOut
<1> DEFINE A0 == <<Signal>>
           A1 == NewServer
           A2 == <<Deref({"server"}), New("securityPolicies"),
                   Reads({"securityPolicies"}, Call({"policy"}, {"config"}))>>
           A3 == <<Call({"connection"}, {"server"})>>
           A4 == <<Call({"dataSet"}, {"server"})>>
           A5 == <<Call({"node"}, {"server"}), Call({"field"}, {"dataSet", "node"})>>
           A6 == <<Deref({"server"}), New("message"), Deref({"message"}),
                   Call({"writerGroup"}, {"connection", "policy"}),
                   Call({"operational"}, {"writerGroup"}),
                   Free({"message"}), Call({"keys"}, {"writerGroup"})>>
           A7 == <<Call({"writer"}, {"writerGroup", "dataSet"})>>
           A8 == RunServer("retval", "running") \o DeleteServer \o <<Exit("retval")>>
<1>2. /\ Pub!Policy = A2 /\ publish_addPubSubConnection = A3
      /\ publish_addPublishedDataSet = A4 /\ publish_addDataSetField = A5
      /\ publish_addWriterGroup = A6 /\ publish_addDataSetWriter = A7 /\ Pub!Run = A8
  BY PubSteps DEF Pub!Policy, publish_addPubSubConnection, Pub!addPubSubConnection,
     publish_addPublishedDataSet, Pub!addPublishedDataSet, publish_addDataSetField,
     Pub!tpm_addDataSetField, publish_addWriterGroup, Pub!encrypted_addWriterGroup,
     publish_addDataSetWriter, Pub!addDataSetWriter, Pub!Run
<1>3. /\ Quiet(Call({"connection"}, {"server"}), KeyVars)
      /\ Quiet(Call({"dataSet"}, {"server"}), KeyVars) /\ Quiet(Call({"node"}, {"server"}), KeyVars)
      /\ Quiet(Call({"field"}, {"dataSet", "node"}), KeyVars)
      /\ Quiet(Call({"writerGroup"}, {"connection", "policy"}), KeyVars)
      /\ Quiet(Call({"operational"}, {"writerGroup"}), KeyVars)
      /\ Quiet(Call({"keys"}, {"writerGroup"}), KeyVars)
      /\ Quiet(Call({"writer"}, {"writerGroup", "dataSet"}), KeyVars)
      /\ Quiet(Deref({"server"}), KeyVars) /\ Quiet(Deref({"message"}), KeyVars)
      /\ Quiet(New("message"), KeyVars) /\ Quiet(Free({"message"}), KeyVars)
  BY <1>1, OtherCalls, QuietRules
<1>4. /\ Tame(A0, KeyVars) /\ Tame(A1, KeyVars) /\ Tame(A2, KeyVars) /\ Tame(A3, KeyVars)
      /\ Tame(A4, KeyVars) /\ Tame(A5, KeyVars) /\ Tame(A6, KeyVars) /\ Tame(A7, KeyVars)
  BY <1>1, <1>3, CommonTame, QuietLists
<1>5. Tame(A8, KeyVars)
  BY CommonTame, TameRules
<1>6. publish_run = A0 \o A1 \o A2 \o A3 \o A4 \o A5 \o A6 \o A7 \o A8
  <2>1. Pub!Signal = Signal /\ Pub!NewServer = NewServer
    BY PubSteps
  <2> HIDE DEF A2, A3, A4, A5, A6, A7, A8
  <2>2. QED BY <1>2, <2>1 DEF publish_run, Pub!SecuredRun
<1> HIDE DEF A0, A1, A2, A3, A4, A5, A6, A7, A8
<1>7. Tame(A0 \o A1 \o A2 \o A3, KeyVars)
  BY <1>4, TameRules
<1>8. Tame(A0 \o A1 \o A2 \o A3 \o A4 \o A5 \o A6, KeyVars)
  BY <1>4, <1>7, TameRules
<1>9. Tame(A0 \o A1 \o A2 \o A3 \o A4 \o A5 \o A6 \o A7 \o A8, KeyVars)
  BY <1>4, <1>5, <1>8, TameRules
<1>10. QED BY <1>6, <1>9

LEMMA SubscribedVariablesTame == Tame(subscribe_addSubscribedVariables, KeyVars)
<1>1. /\ KeyVars \in SUBSET KeyVars /\ {"retval", "added"} \subseteq KeyVars
      /\ "targetVars" \notin ClearBuffers /\ {"fields"} \cap ClearBuffers = {}
  BY DEF KeyVars, Settings, Outs, ClearBuffers, EncryptOut, SignOut, CertificateOut
<1> DEFINE B1 == Reads({"fields"}, OrInto("added", Call({}, {"folder"})))
           B2 == Deref({"targetVars"})
           B == <<B1, B2>>
           T == Times(4, B)
           A1 == <<Call({"folder"}, {"server"}), New("targetVars")>>
           A3 == <<Into("added", Call({"targets"}, {"reader"})), Free({"targetVars"}),
                   Free({"fields"})>>
           A4 == If("added", <<Put("retval", 1)>>)
<1>2. /\ Quiet(Call({}, {"folder"}), KeyVars) /\ Quiet(B2, KeyVars)
      /\ Quiet(Call({"folder"}, {"server"}), KeyVars) /\ Quiet(New("targetVars"), KeyVars)
      /\ Quiet(Call({"targets"}, {"reader"}), KeyVars) /\ Quiet(Put("retval", 1), KeyVars)
      /\ Quiet(Free({"targetVars"}), KeyVars) /\ Quiet(Free({"fields"}), KeyVars)
  BY <1>1, OtherCalls, QuietRules
<1>3. Quiet(OrInto("added", Call({}, {"folder"})), KeyVars)
      /\ Quiet(Into("added", Call({"targets"}, {"reader"})), KeyVars)
  BY <1>1, <1>2, QuietRules
<1>4. Quiet(B1, KeyVars)
  BY <1>1, <1>3, QuietRules
<1>5. Tame(A1, KeyVars) /\ Tame(A3, KeyVars) /\ Tame(<<Put("retval", 1)>>, KeyVars)
  BY <1>1, <1>2, <1>3, QuietLists
<1>6. Tame(A4, KeyVars)
  BY <1>5, TameRules
<1>7. Tame(T, KeyVars)
  <2> HIDE DEF B1, B2
  <2>1. Len(B) = 2 /\ B[1] = B1 /\ B[2] = B2
    OBVIOUS
  <2> HIDE DEF B
  <2>2. T = [i \in 1 .. 8 |-> B[((i - 1) % 2) + 1]]
    BY <2>1 DEF Times
  <2> HIDE DEF T
  <2>3. DOMAIN T = 1 .. 8 /\ \A n \in 1 .. 8 : T[n] \in {B1, B2}
    BY <2>1, <2>2
  <2>4. IsCode(T)
    <3>1. Range(T) = {T[i] : i \in 1 .. 8} /\ T = [i \in 1 .. 8 |-> T[i]]
      BY <2>2 DEF Range
    <3>2. T \in [1 .. 8 -> Range(T)] /\ 8 \in Nat
      BY <3>1
    <3>3. QED BY <3>2, SeqDef DEF IsCode
  <2>5. \A n \in DOMAIN T : Quiet(T[n], KeyVars)
    BY <1>2, <1>4, <2>3
  <2>6. QED BY <1>1, <2>4, <2>5, AllQuiet
<1>8. subscribe_addSubscribedVariables = A1 \o T \o A3 \o A4
  BY SubSteps DEF subscribe_addSubscribedVariables, Sub!addSubscribedVariables
<1> HIDE DEF A1, A3, A4, T
<1>9. Tame(A1 \o T \o A3 \o A4, KeyVars)
  BY <1>5, <1>6, <1>7, TameRules
<1>10. QED BY <1>8, <1>9

LEMMA SubscriberTame == Tame(subscribe_run, KeyVars)
<1>1. /\ KeyVars \in SUBSET KeyVars /\ "retval" \in KeyVars
      /\ "fields" \notin ClearBuffers /\ {"server"} \cap ClearBuffers = {}
  BY DEF KeyVars, Outs, ClearBuffers, EncryptOut, SignOut, CertificateOut
<1> DEFINE A0 == <<Signal>>
           A1 == NewServer
           A2 == <<Deref({"server"}), New("securityPolicies"),
                   Reads({"securityPolicies"}, Call({"policy"}, {"config"}))>>
           A3 == <<OrInto("retval", Call({"connection"}, {"server"}))>>
           A4 == <<Reads({"server"}, OrInto("retval", Call({"readerGroup"}, {"connection", "policy"}))),
                   Call({"keys"}, {"readerGroup"}), Call({"operational"}, {"readerGroup"})>>
           A5 == <<New("fields"), Deref({"fields"})>>
           A6 == <<OrInto("retval", Call({"reader"}, {"readerGroup"}))>>
           A7 == A5 \o A6
           A8 == subscribe_addSubscribedVariables
           A9 == <<Put("retval", 0)>> \o RunServer("retval", "running") \o DeleteServer
                 \o <<Exit("retval")>>
           Q == GiveUp("retval")
<1>2. /\ Sub!Policy = A2 /\ subscribe_addPubSubConnection = A3
      /\ subscribe_addReaderGroup = A4 /\ subscribe_addDataSetReader = A7 /\ Sub!Run = A9
  BY SubSteps DEF Sub!Policy, subscribe_addPubSubConnection, Sub!addPubSubConnection,
     subscribe_addReaderGroup, Sub!encrypted_addReaderGroup, subscribe_addDataSetReader,
     subscribe_fillTestDataSetMetaData, Sub!fillTestDataSetMetaData, Sub!Reader, Sub!Run
<1>3. /\ Quiet(Call({"connection"}, {"server"}), KeyVars)
      /\ Quiet(Call({"readerGroup"}, {"connection", "policy"}), KeyVars)
      /\ Quiet(Call({"keys"}, {"readerGroup"}), KeyVars)
      /\ Quiet(Call({"operational"}, {"readerGroup"}), KeyVars)
      /\ Quiet(Call({"reader"}, {"readerGroup"}), KeyVars)
      /\ Quiet(New("fields"), KeyVars) /\ Quiet(Deref({"fields"}), KeyVars)
      /\ Quiet(Put("retval", 0), KeyVars)
  BY <1>1, OtherCalls, QuietRules
<1>4. /\ Quiet(OrInto("retval", Call({"connection"}, {"server"})), KeyVars)
      /\ Quiet(OrInto("retval", Call({"readerGroup"}, {"connection", "policy"})), KeyVars)
      /\ Quiet(OrInto("retval", Call({"reader"}, {"readerGroup"})), KeyVars)
  BY <1>1, <1>3, QuietRules
<1>5. Quiet(Reads({"server"}, OrInto("retval", Call({"readerGroup"}, {"connection", "policy"}))),
            KeyVars)
  BY <1>1, <1>4, QuietRules
<1>6. /\ Tame(A0, KeyVars) /\ Tame(A1, KeyVars) /\ Tame(A2, KeyVars) /\ Tame(A3, KeyVars)
      /\ Tame(A4, KeyVars) /\ Tame(A5, KeyVars) /\ Tame(A6, KeyVars)
      /\ Tame(<<Put("retval", 0)>>, KeyVars)
  BY <1>1, <1>3, <1>4, <1>5, CommonTame, QuietLists
<1>7. Tame(A7, KeyVars) /\ Tame(A8, KeyVars) /\ Tame(Q, KeyVars)
  BY <1>1, <1>6, TameRules, SubscribedVariablesTame, QuietIdioms
<1>8. Tame(A9, KeyVars)
  <2>1. Tame(RunServer("retval", "running") \o DeleteServer \o <<Exit("retval")>>, KeyVars)
    BY CommonTame, TameRules
  <2>2. QED BY <1>6, <2>1, CommonTame, TameRules
<1>9. subscribe_run = A0 \o A1 \o A2 \o A3 \o Q \o A4 \o Q \o A7 \o Q \o A8 \o Q \o A9
  <2>1. Sub!Signal = Signal /\ Sub!NewServer = NewServer /\ Sub!GiveUp("retval") = Q
    BY SubSteps
  <2> HIDE DEF A2, A3, A4, A7, A8, A9, Q
  <2>2. QED BY <1>2, <2>1 DEF subscribe_run, Sub!SecuredRun, A8
<1> HIDE DEF A0, A1, A2, A3, A4, A7, A8, A9, Q
<1>10. Tame(A0 \o A1 \o A2 \o A3 \o Q, KeyVars)
  BY <1>6, <1>7, TameRules
<1>11. Tame(A0 \o A1 \o A2 \o A3 \o Q \o A4 \o Q \o A7, KeyVars)
  BY <1>6, <1>7, <1>10, TameRules
<1>12. Tame(A0 \o A1 \o A2 \o A3 \o Q \o A4 \o Q \o A7 \o Q \o A8 \o Q, KeyVars)
  BY <1>6, <1>7, <1>11, TameRules
<1>13. Tame(A0 \o A1 \o A2 \o A3 \o Q \o A4 \o Q \o A7 \o Q \o A8 \o Q \o A9, KeyVars)
  BY <1>8, <1>12, TameRules
<1>14. QED BY <1>9, <1>13

LEMMA AllUnsealed ==
    \A out \in Outs :
       Triple(Clean, Unseal(out, decrypt(out, get_MAC(out), decrypt_data(out, find_object_by_label))),
              Excused, Clean)
BY FileDecrypted, Unsealed

LEMMA TameThroughout ==
    ASSUME NEW A, Tame(A, KeyVars)
    PROVE  Triple(Clean, A, Excused, Clean)
BY KnownSets, CleanSets, TameClean

LEMMA PublisherMain == Triple(Clean, publish_main, Excused, Clean)
<1>1. /\ KeyVars \in SUBSET KeyVars /\ {"unset"} \subseteq KeyVars
      /\ EncryptOut \in Outs /\ SignOut \in Outs
      /\ {"sign_out_data", "sign_out_data.data"} \cap ClearBuffers = {}
      /\ {"encrypt_out_data", "encrypt_out_data.data"} \cap ClearBuffers = {}
      /\ "encrypt_in_data" \notin {"library", "decryption"}
      /\ "sign_in_data" \notin {"library", "decryption"}
  BY DEF KeyVars, Settings, Outs, ClearBuffers, EncryptOut, SignOut, CertificateOut
<1> DEFINE A1 == ReadArguments
           A2 == <<Put("unset", 1)>>
           A3 == KeyFile("encrypt_in_data")
           A4 == KeyFile("sign_in_data")
           A5 == Unseal(EncryptOut, publish_decrypt(EncryptOut))
           A6 == Unseal(SignOut, publish_decrypt(SignOut))
           A7 == <<Deref({"sign_out_data", "sign_out_data.data"}),
                   Deref({"encrypt_out_data", "encrypt_out_data.data"}),
                   Free({"encrypt_in_data"}), Free({"sign_in_data"})>>
           A8 == Forget(SignOut)
           A9 == Forget(EncryptOut)
           A10 == publish_run
<1>2. /\ Quiet(Put("unset", 1), KeyVars)
      /\ Quiet(Deref({"sign_out_data", "sign_out_data.data"}), KeyVars)
      /\ Quiet(Deref({"encrypt_out_data", "encrypt_out_data.data"}), KeyVars)
      /\ Quiet(Free({"encrypt_in_data"}), KeyVars) /\ Quiet(Free({"sign_in_data"}), KeyVars)
  BY <1>1, OtherCalls, QuietRules
<1>3. Tame(A1, KeyVars) /\ Tame(A2, KeyVars) /\ Tame(A7, KeyVars)
  BY <1>1, <1>2, CommonTame, QuietLists
<1>4. Tame(A3, KeyVars) /\ Tame(A4, KeyVars)
  <2>1. Tame(Malloc("encrypt_in_data"), KeyVars) /\ Tame(Malloc("sign_in_data"), KeyVars)
    BY <1>1, QuietIdioms
  <2>2. QED BY <2>1, CommonTame, TameRules DEF KeyFile
<1>5. Tame(A8, KeyVars) /\ Tame(A9, KeyVars) /\ Tame(A10, KeyVars)
  BY CommonTame, PublisherTame
<1>6. Triple(Clean, A5, Excused, Clean) /\ Triple(Clean, A6, Excused, Clean)
  BY <1>1, AllUnsealed DEF publish_decrypt, publish_get_MAC, publish_decrypt_data,
     publish_find_object_by_label
<1>7. publish_main = A1 \o A2 \o A3 \o A4 \o A5 \o A6 \o A7 \o A8 \o A9 \o A10
  BY DEF publish_main
<1> HIDE DEF A1, A2, A3, A4, A5, A6, A7, A8, A9, A10
<1>8. Triple(Clean, A1 \o A2 \o A3 \o A4, Excused, Clean)
  BY <1>3, <1>4, TameRules, TameThroughout
<1>9. Triple(Clean, A1 \o A2 \o A3 \o A4 \o A5 \o A6, Excused, Clean)
  BY <1>6, <1>8, Then
<1>10. Triple(Clean, A1 \o A2 \o A3 \o A4 \o A5 \o A6 \o A7 \o A8, Excused, Clean)
  BY <1>3, <1>5, <1>9, Then, TameThroughout
<1>11. Triple(Clean, A1 \o A2 \o A3 \o A4 \o A5 \o A6 \o A7 \o A8 \o A9 \o A10, Excused, Clean)
  BY <1>5, <1>10, Then, TameThroughout
<1>12. QED BY <1>7, <1>11

LEMMA SubscriberMain == Triple(Clean, subscribe_main, Excused, Clean)
<1>1. /\ KeyVars \in SUBSET KeyVars /\ {"unset"} \subseteq KeyVars
      /\ EncryptOut \in Outs /\ SignOut \in Outs
      /\ {"sign_out_data", "sign_out_data.data"} \cap ClearBuffers = {}
      /\ {"encrypt_out_data", "encrypt_out_data.data"} \cap ClearBuffers = {}
      /\ "encrypt_in_data" \notin {"library", "decryption"}
      /\ "sign_in_data" \notin {"library", "decryption"}
  BY DEF KeyVars, Settings, Outs, ClearBuffers, EncryptOut, SignOut, CertificateOut
<1> DEFINE A1 == ReadArguments
           A2 == <<Put("unset", 1)>>
           A3 == KeyFile("encrypt_in_data")
           A4 == KeyFile("sign_in_data")
           A5 == Unseal(EncryptOut, subscribe_decrypt(EncryptOut))
           A6 == Unseal(SignOut, subscribe_decrypt(SignOut))
           A7 == <<Deref({"sign_out_data", "sign_out_data.data"}),
                   Deref({"encrypt_out_data", "encrypt_out_data.data"}),
                   Free({"encrypt_in_data"}), Free({"sign_in_data"})>>
           A8 == Forget(SignOut)
           A9 == Forget(EncryptOut)
           A10 == subscribe_run
<1>2. /\ Quiet(Put("unset", 1), KeyVars)
      /\ Quiet(Deref({"sign_out_data", "sign_out_data.data"}), KeyVars)
      /\ Quiet(Deref({"encrypt_out_data", "encrypt_out_data.data"}), KeyVars)
      /\ Quiet(Free({"encrypt_in_data"}), KeyVars) /\ Quiet(Free({"sign_in_data"}), KeyVars)
  BY <1>1, OtherCalls, QuietRules
<1>3. Tame(A1, KeyVars) /\ Tame(A2, KeyVars) /\ Tame(A7, KeyVars)
  BY <1>1, <1>2, CommonTame, QuietLists
<1>4. Tame(A3, KeyVars) /\ Tame(A4, KeyVars)
  <2>1. Tame(Malloc("encrypt_in_data"), KeyVars) /\ Tame(Malloc("sign_in_data"), KeyVars)
    BY <1>1, QuietIdioms
  <2>2. QED BY <2>1, CommonTame, TameRules DEF KeyFile
<1>5. Tame(A8, KeyVars) /\ Tame(A9, KeyVars) /\ Tame(A10, KeyVars)
  BY CommonTame, SubscriberTame
<1>6. Triple(Clean, A5, Excused, Clean) /\ Triple(Clean, A6, Excused, Clean)
  BY <1>1, AllUnsealed DEF subscribe_decrypt, subscribe_get_MAC, subscribe_decrypt_data,
     subscribe_find_object_by_label
<1>7. subscribe_main = A1 \o A2 \o A3 \o A4 \o A5 \o A6 \o A7 \o A8 \o A9 \o A10
  BY DEF subscribe_main
<1> HIDE DEF A1, A2, A3, A4, A5, A6, A7, A8, A9, A10
<1>8. Triple(Clean, A1 \o A2 \o A3 \o A4, Excused, Clean)
  BY <1>3, <1>4, TameRules, TameThroughout
<1>9. Triple(Clean, A1 \o A2 \o A3 \o A4 \o A5 \o A6, Excused, Clean)
  BY <1>6, <1>8, Then
<1>10. Triple(Clean, A1 \o A2 \o A3 \o A4 \o A5 \o A6 \o A7 \o A8, Excused, Clean)
  BY <1>3, <1>5, <1>9, Then, TameThroughout
<1>11. Triple(Clean, A1 \o A2 \o A3 \o A4 \o A5 \o A6 \o A7 \o A8 \o A9 \o A10, Excused, Clean)
  BY <1>5, <1>10, Then, TameThroughout
<1>12. QED BY <1>7, <1>11

LEMMA ServerMain == Triple(Clean, server_main, Excused, Clean)
<1>1. /\ KeyVars \in SUBSET KeyVars /\ "retval" \in KeyVars
      /\ EncryptOut \in Outs /\ CertificateOut \in Outs
      /\ "encrypt_in_data" \notin {"library", "decryption"}
      /\ "certificate_in_date" \notin {"library", "decryption"}
  BY DEF KeyVars, Settings, Outs
<1> DEFINE A1 == <<Signal>>
           A2 == Maybe(<<Exit("failure")>>)
           A3 == Malloc("certificate_in_date") \o Malloc("encrypt_in_data")
           A4 == Unseal(EncryptOut, server_decrypt(EncryptOut))
           A5 == Unseal(CertificateOut, server_decrypt(CertificateOut))
           A6 == <<New("server"),
                   Into("retval", Call({"config"}, {"server", "encrypt_out_data.data",
                                                    "certificate_out_data.data"}))>>
           A7 == Forget(EncryptOut)
           A8 == <<Free({"certificate_in_date"}), Free({"encrypt_in_data"})>>
           A9 == IfNot("retval", RunServer("retval", "running"))
           A10 == DeleteServer
           A11 == <<Exit("retval")>>
<1>2. /\ Quiet(New("server"), KeyVars)
      /\ Quiet(Call({"config"}, {"server", "encrypt_out_data.data", "certificate_out_data.data"}),
               KeyVars)
      /\ Quiet(Free({"encrypt_in_data"}), KeyVars) /\ Quiet(Free({"certificate_in_date"}), KeyVars)
  BY <1>1, OtherCalls, QuietRules
<1>3. Quiet(Into("retval", Call({"config"}, {"server", "encrypt_out_data.data",
                                             "certificate_out_data.data"})), KeyVars)
  BY <1>1, <1>2, QuietRules
<1>4. /\ Tame(A1, KeyVars) /\ Tame(A2, KeyVars) /\ Tame(A6, KeyVars) /\ Tame(A7, KeyVars)
      /\ Tame(A8, KeyVars)
  BY <1>1, <1>2, <1>3, CommonTame, QuietLists
<1>5. Tame(A3, KeyVars)
  <2>1. Tame(Malloc("encrypt_in_data"), KeyVars) /\ Tame(Malloc("certificate_in_date"), KeyVars)
    BY <1>1, QuietIdioms
  <2>2. QED BY <2>1, TameRules
<1>6. Tame(A9, KeyVars) /\ Tame(A10, KeyVars) /\ Tame(A11, KeyVars)
  BY CommonTame, TameRules
<1>7. Triple(Clean, A4, Excused, Clean) /\ Triple(Clean, A5, Excused, Clean)
  BY <1>1, AllUnsealed DEF server_decrypt, server_get_MAC, server_decrypt_data,
     server_find_object_by_label
<1>8. server_main = A1 \o A2 \o A3 \o A4 \o A5 \o A6 \o A7 \o A8 \o A9 \o A10 \o A11
  BY DEF server_main, Files
<1> HIDE DEF A1, A2, A3, A4, A5, A6, A7, A8, A9, A10, A11
<1>9. Triple(Clean, A1 \o A2 \o A3, Excused, Clean)
  BY <1>4, <1>5, TameRules, TameThroughout
<1>10. Triple(Clean, A1 \o A2 \o A3 \o A4 \o A5, Excused, Clean)
  BY <1>7, <1>9, Then
<1>11. Triple(Clean, A1 \o A2 \o A3 \o A4 \o A5 \o A6 \o A7, Excused, Clean)
  BY <1>4, <1>10, Then, TameThroughout
<1>12. Triple(Clean, A1 \o A2 \o A3 \o A4 \o A5 \o A6 \o A7 \o A8 \o A9, Excused, Clean)
  BY <1>4, <1>6, <1>11, Then, TameThroughout
<1>13. Triple(Clean, A1 \o A2 \o A3 \o A4 \o A5 \o A6 \o A7 \o A8 \o A9 \o A10 \o A11, Excused,
              Clean)
  BY <1>6, <1>12, Then, TameThroughout
<1>14. QED BY <1>8, <1>13

LEMMA ClientMain == Triple(Clean, client_main, Excused, Clean)
<1>1. /\ KeyVars \in SUBSET KeyVars /\ "retval" \in KeyVars
      /\ EncryptOut \in Outs /\ CertificateOut \in Outs
      /\ "encrypt_in_data" \notin {"library", "decryption"}
      /\ "certificate_in_date" \notin {"library", "decryption"}
  BY DEF KeyVars, Settings, Outs
<1> DEFINE A2 == Maybe(<<Exit("failure")>>)
           A3 == Malloc("certificate_in_date") \o Malloc("encrypt_in_data")
           A4 == Unseal(EncryptOut, client_decrypt(EncryptOut))
           A5 == Unseal(CertificateOut, client_decrypt(CertificateOut))
           A6 == <<New("client"),
                   Call({"config"}, {"client", "encrypt_out_data.data",
                                     "certificate_out_data.data"})>>
           A7 == Forget(EncryptOut)
           A8 == <<Free({"certificate_in_date"}), Free({"encrypt_in_data"})>>
           A9 == <<Into("retval", Call({"connected"}, {"client"}))>>
           A10 == If("retval", <<Free({"client"}), Exit("failure")>>)
           A11 == <<Into("retval", Call({"value"}, {"connected"})), Free({"value"}),
                    Free({"client"}), Exit("retval")>>
<1>2. /\ Quiet(New("client"), KeyVars)
      /\ Quiet(Call({"config"}, {"client", "encrypt_out_data.data", "certificate_out_data.data"}),
               KeyVars)
      /\ Quiet(Free({"encrypt_in_data"}), KeyVars) /\ Quiet(Free({"certificate_in_date"}), KeyVars)
      /\ Quiet(Call({"connected"}, {"client"}), KeyVars)
      /\ Quiet(Call({"value"}, {"connected"}), KeyVars)
      /\ Quiet(Free({"client"}), KeyVars) /\ Quiet(Free({"value"}), KeyVars)
      /\ Quiet(Exit("failure"), KeyVars) /\ Quiet(Exit("retval"), KeyVars)
  BY <1>1, OtherCalls, QuietRules
<1>3. /\ Quiet(Into("retval", Call({"connected"}, {"client"})), KeyVars)
      /\ Quiet(Into("retval", Call({"value"}, {"connected"})), KeyVars)
  BY <1>1, <1>2, QuietRules
<1>4. /\ Tame(A2, KeyVars) /\ Tame(A6, KeyVars) /\ Tame(A7, KeyVars) /\ Tame(A8, KeyVars)
      /\ Tame(A9, KeyVars) /\ Tame(<<Free({"client"}), Exit("failure")>>, KeyVars)
      /\ Tame(A11, KeyVars)
  BY <1>1, <1>2, <1>3, CommonTame, QuietLists
<1>5. Tame(A3, KeyVars)
  <2>1. Tame(Malloc("encrypt_in_data"), KeyVars) /\ Tame(Malloc("certificate_in_date"), KeyVars)
    BY <1>1, QuietIdioms
  <2>2. QED BY <2>1, TameRules
<1>6. Tame(A10, KeyVars)
  BY <1>4, TameRules
<1>7. Triple(Clean, A4, Excused, Clean) /\ Triple(Clean, A5, Excused, Clean)
  BY <1>1, AllUnsealed DEF client_decrypt, client_get_MAC, client_decrypt_data,
     client_find_object_by_label
<1>8. client_main = A2 \o A3 \o A4 \o A5 \o A6 \o A7 \o A8 \o A9 \o A10 \o A11
  BY DEF client_main, Files
<1> HIDE DEF A2, A3, A4, A5, A6, A7, A8, A9, A10, A11
<1>9. Triple(Clean, A2 \o A3, Excused, Clean)
  BY <1>4, <1>5, TameRules, TameThroughout
<1>10. Triple(Clean, A2 \o A3 \o A4 \o A5, Excused, Clean)
  BY <1>7, <1>9, Then
<1>11. Triple(Clean, A2 \o A3 \o A4 \o A5 \o A6 \o A7, Excused, Clean)
  BY <1>4, <1>10, Then, TameThroughout
<1>12. Triple(Clean, A2 \o A3 \o A4 \o A5 \o A6 \o A7 \o A8 \o A9, Excused, Clean)
  BY <1>4, <1>11, Then, TameThroughout
<1>13. Triple(Clean, A2 \o A3 \o A4 \o A5 \o A6 \o A7 \o A8 \o A9 \o A10 \o A11, Excused, Clean)
  BY <1>4, <1>6, <1>12, Then, TameThroughout
<1>14. QED BY <1>8, <1>13

-----------------------------------------------------------------------------
(* A program of one thread does what its notes say.                        *)

\* A step of the program leads from what the notes say to what they say there.
LEMMA Landed ==
    ASSUME NEW A, NEW h, NEW R, Notes(A, h, R), NEW m, NEW c, To(h, m, c)
    PROVE  To(h, Land(A, m), c)
<1>1. Len(A) \in Nat /\ DOMAIN A = 1 .. Len(A) /\ DOMAIN h = 1 .. Len(A) + 1
  BY NotesFacts
<1>2. CASE m \in DOMAIN A /\ A[m].op = "jump"
  <2>1. m \in 1 .. Len(A) /\ m + 0 = m /\ c \in h[m + 0]
    BY <1>1, <1>2 DEF To
  <2>2. Follows(A[m], m + 0, c, h, R)
    BY <2>1 DEF Notes, Part
  <2>3. To(h, m + 1 + A[m].skip, c)
    BY <1>2, <2>1, <2>2 DEF Follows
  <2>4. QED BY <1>2, <2>3 DEF Land
<1>3. CASE ~(m \in DOMAIN A /\ A[m].op = "jump")
  BY <1>3 DEF Land
<1>4. QED BY <1>2, <1>3

KeyMain(p) == Programs[p].threads["main"]
KeyNotes(p) == CHOOSE h : Notes(KeyMain(p), h, Excused) /\ Clean \subseteq h[1]

KeyState == <<data, "decryption" \in live>>

\* Where the control is, the notes are right.
KeyInv == /\ pc \in [{"main"} -> Int]
          /\ To(KeyNotes(prog), pc["main"], KeyState)

\* Each key store does what KeyStoreEffect says.
KeyEffectsGiven ==
    \A p \in KeyStores : \A name, d : Effect(p, name, d) = KeyStoreEffect(name, d)

LEMMA KeyPrograms ==
    ASSUME NEW p \in KeyStores, p \in DOMAIN Programs
    PROVE  /\ Programs[p] = Program(KeyMain(p), Settings)
           /\ DOMAIN Programs[p].threads = {"main"}
           /\ Notes(KeyMain(p), KeyNotes(p), Excused) /\ Clean \subseteq KeyNotes(p)[1]
<1>1. Programs[p] = KeyStorePrograms[p]
  BY KeyTableAssumption
<1>2. PICK A : KeyStorePrograms[p] = Program(A, Settings) /\ Triple(Clean, A, Excused, Clean)
  <2>1. CASE p = "keyServer"
    BY <2>1, ServerMain DEF KeyStorePrograms
  <2>2. CASE p = "keyClient"
    BY <2>2, ClientMain DEF KeyStorePrograms
  <2>3. CASE p = "keyPublisher"
    BY <2>3, PublisherMain DEF KeyStorePrograms
  <2>4. CASE p = "keySubscriber"
    BY <2>4, SubscriberMain DEF KeyStorePrograms
  <2>5. QED BY <2>1, <2>2, <2>3, <2>4 DEF KeyStores
<1>3. Program(A, Settings).threads = [main |-> A]
  BY DEF Program
<1>4. KeyMain(p) = A /\ DOMAIN Programs[p].threads = {"main"}
  BY <1>1, <1>2, <1>3 DEF KeyMain
<1>5. \E h : Notes(KeyMain(p), h, Excused) /\ Clean \subseteq h[1]
  BY <1>2, <1>4 DEF Triple
<1>6. Notes(KeyMain(p), KeyNotes(p), Excused) /\ Clean \subseteq KeyNotes(p)[1]
  BY <1>5 DEF KeyNotes
<1>7. QED BY <1>1, <1>2, <1>4, <1>6

LEMMA KeyStart ==
    ASSUME Init, prog \in KeyStores
    PROVE  KeyInv
<1>1. prog \in DOMAIN Programs
  BY DEF Init
<1>2. Programs[prog] = Program(KeyMain(prog), Settings) /\ Threads(prog) = {"main"}
  BY <1>1, KeyPrograms DEF Threads
<1>3. pc \in [{"main"} -> Int] /\ pc["main"] = 1
  BY <1>2 DEF Init
<1>4. data = [v \in KeyVars |-> IF v = "running" THEN 1 ELSE 0]
  BY <1>2 DEF Init, Program, KeyVars
<1>5. KeyState \in Clean
  <2>1. data \in [KeyVars -> Int] /\ \A v \in KeyVars : data[v] \in {0, 1}
    BY <1>4
  <2>2. KeyState = <<data, FALSE>>
    <3>1. ("decryption" \in live) = FALSE
      BY DEF Init
    <3>2. QED BY <3>1 DEF KeyState
  <2>3. QED BY <2>1, <2>2 DEF Clean, Sane, KeyValues
<1>6. 1 \in DOMAIN KeyNotes(prog) /\ KeyState \in KeyNotes(prog)[1]
  BY <1>1, <1>5, KeyPrograms, NotesFacts
<1>7. QED BY <1>3, <1>6 DEF KeyInv, To

\* What holds where the control is.
LEMMA KeyHere ==
    ASSUME prog \in KeyStores, prog \in DOMAIN Programs, KeyInv
    PROVE  /\ KeyState \in Sane /\ KeyState[1] = data /\ KeyState[2] = ("decryption" \in live)
           /\ DOMAIN pc = {"main"} /\ Code("main") = KeyMain(prog)
           /\ Notes(Code("main"), KeyNotes(prog), Excused)
           /\ DOMAIN data = KeyVars
           /\ pc["main"] \in DOMAIN Code("main")
                => Follows(Current("main"), pc["main"], KeyState, KeyNotes(prog), Excused)
<1>1. Notes(KeyMain(prog), KeyNotes(prog), Excused) /\ Code("main") = KeyMain(prog)
  BY KeyPrograms DEF Code, KeyMain
<1>2. /\ pc["main"] \in 1 .. Len(KeyMain(prog)) + 1 /\ KeyState \in KeyNotes(prog)[pc["main"]]
      /\ Len(KeyMain(prog)) \in Nat /\ DOMAIN KeyMain(prog) = 1 .. Len(KeyMain(prog))
  BY <1>1, NotesFacts DEF KeyInv, To
<1>3. KeyState \in Sane
  BY <1>1, <1>2, NotesFacts
<1>4. pc["main"] \in DOMAIN Code("main")
        => Follows(Current("main"), pc["main"], KeyState, KeyNotes(prog), Excused)
  <2>1. SUFFICES ASSUME pc["main"] \in DOMAIN Code("main")
                 PROVE  Follows(Current("main"), pc["main"], KeyState, KeyNotes(prog), Excused)
    OBVIOUS
  <2>2. pc["main"] + 0 = pc["main"]
    BY <1>2
  <2>3. Follows(KeyMain(prog)[pc["main"]], pc["main"] + 0, KeyState, KeyNotes(prog), Excused)
    BY <1>1, <1>2, <2>1, <2>2 DEF Notes, Part
  <2>4. QED BY <1>1, <2>2, <2>3 DEF Current
<1>5. DOMAIN data = KeyVars
  BY <1>3 DEF Sane, KeyState, KeyValues
<1>6. QED BY <1>1, <1>3, <1>4, <1>5 DEF KeyState, KeyInv

LEMMA ResultGiven ==
    ASSUME NEW s, NEW ok \in BOOLEAN
    PROVE  Result(s, ok) = Given(s, data, ok)
<1>1. Blank.to = ""
  BY Zenon DEF Blank
<1>2. QED BY <1>1, Zenon DEF Result, Given

\* Where a step that takes the control on leads to.
LEMMA KeyGoes ==
    ASSUME prog \in KeyStores, prog \in DOMAIN Programs, KeyInv, prog' = prog,
           NEW j \in Int, Go("main", Code("main"), j),
           To(KeyNotes(prog), pc["main"] + 1 + j, KeyState')
    PROVE  KeyInv'
<1> DEFINE m == pc["main"] + 1 + j
<1>1. Notes(Code("main"), KeyNotes(prog), Excused) /\ pc \in [{"main"} -> Int]
  BY KeyHere DEF KeyInv
<1>2. To(KeyNotes(prog), Land(Code("main"), m), KeyState')
  BY <1>1, Landed
<1>3. pc' = [pc EXCEPT !["main"] = Land(Code("main"), m)]
  BY DEF Go
<1>4. Land(Code("main"), m) \in Int
  <2>1. DOMAIN KeyNotes(prog) \subseteq Int
    BY <1>1, NotesFacts
  <2>2. QED BY <1>2, <2>1 DEF To
<1> HIDE DEF m
<1>5. pc' \in [{"main"} -> Int] /\ pc'["main"] = Land(Code("main"), m)
  BY <1>1, <1>3, <1>4
<1>6. QED BY <1>2, <1>5 DEF KeyInv

LEMMA KeyCalls ==
    ASSUME prog \in KeyStores, prog \in DOMAIN Programs, KeyInv,
           pc["main"] \in DOMAIN Code("main"), NEW s, s = Current("main"),
           \/ Succeed("main", Code("main"), s)
           \/ Fail("main", Code("main"), s)
    PROVE  prog' = prog /\ KeyInv'
<1> DEFINE n == pc["main"]
           h == KeyNotes(prog)
<1>1. Follows(s, n, KeyState, h, Excused) /\ KeyState \in Sane /\ n \in Int
      /\ DOMAIN h = 1 .. Len(Code("main")) + 1 /\ n \in 1 .. Len(Code("main"))
      /\ Len(Code("main")) \in Nat
  BY KeyHere, NotesFacts
<1>2. s.op = "call" /\ prog' = prog /\ Go("main", Code("main"), 0)
  BY DEF Succeed, Fail
<1>3. KeyState' \in After(s, KeyState)
  <2>1. KeyState[1] = data /\ KeyState[2] = ("decryption" \in live)
    BY KeyHere
  <2>2. CASE Succeed("main", Code("main"), s)
    <3>1. data' = Given(s, data, TRUE)
      BY <2>2, ResultGiven DEF Succeed
    <3>2. live' = (live \ s.drops) \cup s.makes
      BY <2>2 DEF Succeed
    <3>3. ("decryption" \in live')
            = ("decryption" \in s.makes \/ ("decryption" \in live /\ "decryption" \notin s.drops))
      BY <3>2
    <3>4. KeyState' = <<Given(s, KeyState[1], TRUE),
                        "decryption" \in s.makes \/ (KeyState[2] /\ "decryption" \notin s.drops)>>
      BY <2>1, <3>1, <3>3, Zenon DEF KeyState
    <3>5. QED BY <1>2, <3>4 DEF After
  <2>3. CASE Fail("main", Code("main"), s)
    <3>1. data' = Given(s, data, FALSE)
      BY <2>3, ResultGiven DEF Fail
    <3>2. live' = live \ s.drops
      BY <2>3 DEF Fail
    <3>3. ("decryption" \in live') = ("decryption" \in live /\ "decryption" \notin s.drops)
      BY <3>2
    <3>4. KeyState' = <<Given(s, KeyState[1], FALSE), KeyState[2] /\ "decryption" \notin s.drops>>
      BY <2>1, <3>1, <3>3, Zenon DEF KeyState
    <3>5. QED BY <1>2, <3>4 DEF After
  <2>4. QED BY <2>2, <2>3
<1>4. KeyState' \in h[n + 1]
  <2>1. s.op \notin Turning
    BY <1>2 DEF Turning
  <2>2. QED BY <1>1, <1>3, <2>1 DEF Follows
<1>5. To(h, n + 1 + 0, KeyState')
  <2>1. n + 1 + 0 = n + 1 /\ n + 1 \in DOMAIN h
    BY <1>1
  <2>2. QED BY <1>4, <2>1 DEF To
<1>6. QED BY <1>2, <1>5, KeyGoes

LEMMA KeyComputes ==
    ASSUME KeyEffectsGiven, prog \in KeyStores, prog \in DOMAIN Programs, KeyInv,
           pc["main"] \in DOMAIN Code("main"), NEW s, s = Current("main"),
           \/ Compute("main", Code("main"), s)
           \/ Install("main", Code("main"), s)
           \/ Await("main", Code("main"), s)
    PROVE  prog' = prog /\ KeyInv'
<1> DEFINE n == pc["main"]
           h == KeyNotes(prog)
<1>1. Follows(s, n, KeyState, h, Excused) /\ KeyState \in Sane /\ n \in Int
      /\ DOMAIN h = 1 .. Len(Code("main")) + 1 /\ n \in 1 .. Len(Code("main"))
      /\ Len(Code("main")) \in Nat
  BY KeyHere, NotesFacts
<1>2. prog' = prog /\ Go("main", Code("main"), 0) /\ live' = live
      /\ s.op \in {"put", "do", "signal", "join", "wait"}
  BY DEF Compute, Install, Await
<1>3. KeyState' \in After(s, KeyState)
  <2>1. KeyState[1] = data /\ KeyState[2] = ("decryption" \in live)
        /\ KeyState' = <<data', KeyState[2]>> /\ KeyState = <<data, KeyState[2]>>
    BY <1>2, KeyHere DEF KeyState
  <2>2. CASE s.op = "put"
    <3>1. data' = [data EXCEPT ![s.to] = s.skip]
      BY <2>2 DEF Compute, Install, Await
    <3>2. After(s, KeyState) = {<<[data EXCEPT ![s.to] = s.skip], KeyState[2]>>}
      BY <2>1, <2>2 DEF After
    <3>3. QED BY <2>1, <3>1, <3>2
  <2>3. CASE s.op = "do"
    <3>1. data' \in KeyStoreEffect(s.arg, data)
      BY <2>3 DEF Compute, Install, Await, KeyEffectsGiven
    <3>2. After(s, KeyState) = {<<d, KeyState[2]>> : d \in KeyStoreEffect(s.arg, data)}
      BY <2>1, <2>3 DEF After
    <3>3. QED BY <2>1, <3>1, <3>2
  <2>4. CASE s.op \notin {"put", "do"}
    <3>1. data' = data
      BY <2>4 DEF Compute, Install, Await
    <3>2. After(s, KeyState) = {KeyState}
      BY <1>2, <2>4 DEF After
    <3>3. QED BY <2>1, <3>1, <3>2
  <2>5. QED BY <2>2, <2>3, <2>4
<1>4. KeyState' \in h[n + 1]
  <2>1. s.op \notin Turning
    BY <1>2 DEF Turning
  <2>2. QED BY <1>1, <1>3, <2>1 DEF Follows
<1>5. To(h, n + 1 + 0, KeyState')
  <2>1. n + 1 + 0 = n + 1 /\ n + 1 \in DOMAIN h
    BY <1>1
  <2>2. QED BY <1>4, <2>1 DEF To
<1>6. QED BY <1>2, <1>5, KeyGoes

LEMMA KeyBranches ==
    ASSUME prog \in KeyStores, prog \in DOMAIN Programs, KeyInv,
           pc["main"] \in DOMAIN Code("main"), NEW s, s = Current("main"),
           Branch("main", Code("main"), s)
    PROVE  prog' = prog /\ KeyInv'
<1> DEFINE n == pc["main"]
           h == KeyNotes(prog)
<1>1. Follows(s, n, KeyState, h, Excused) /\ KeyState \in Sane /\ n \in Int /\ s.skip \in Int
      /\ DOMAIN h = 1 .. Len(Code("main")) + 1 /\ n \in 1 .. Len(Code("main"))
      /\ Len(Code("main")) \in Nat
  BY KeyHere, NotesFacts DEF Follows
<1>2. KeyState[1] = data /\ DOMAIN data = KeyVars
  BY KeyHere
<1>3. prog' = prog /\ KeyState' = KeyState
  BY DEF Branch, KeyState
<1>4. CASE s.op = "jump" /\ Go("main", Code("main"), s.skip)
  <2>1. To(h, n + 1 + s.skip, KeyState')
    BY <1>1, <1>3, <1>4 DEF Follows
  <2>2. QED BY <1>1, <1>3, <1>4, <2>1, KeyGoes
<1>5. CASE s.op = "unless" /\ (s.arg = "choice" \/ Holds(s.arg)) /\ Go("main", Code("main"), 0)
  <2>1. MayHold(s.arg, KeyState)
    BY <1>2, <1>5 DEF MayHold, Holds, Conditions, KeyVars, Settings
  <2>2. KeyState' \in h[n + 1]
    BY <1>1, <1>3, <1>5, <2>1 DEF Follows
  <2>3. To(h, n + 1 + 0, KeyState')
    <3>1. n + 1 + 0 = n + 1 /\ n + 1 \in DOMAIN h
      BY <1>1
    <3>2. QED BY <2>2, <3>1 DEF To
  <2>4. QED BY <1>3, <1>5, <2>3, KeyGoes
<1>6. CASE s.op = "unless" /\ (s.arg = "choice" \/ ~Holds(s.arg)) /\ Go("main", Code("main"), s.skip)
  <2>1. MayFail(s.arg, KeyState)
    BY <1>2, <1>6 DEF MayFail, Holds, Conditions, KeyVars, Settings
  <2>2. To(h, n + 1 + s.skip, KeyState')
    BY <1>1, <1>3, <1>6, <2>1 DEF Follows
  <2>3. QED BY <1>1, <1>3, <1>6, <2>2, KeyGoes
<1>7. QED BY <1>4, <1>5, <1>6 DEF Branch

LEMMA KeyStep ==
    ASSUME KeyEffectsGiven, prog \in KeyStores, prog \in DOMAIN Programs, KeyInv, Step("main")
    PROVE  prog' = prog /\ KeyInv'
<1> DEFINE s == Current("main")
           A == Code("main")
<1>1. pc["main"] \in DOMAIN A /\ Perform("main", A, s)
  BY DEF Step, Running
<1>2. s.op # "spawn"
  BY <1>1, KeyHere DEF Follows
<1> HIDE DEF s, A
<1>3. CASE Crash \/ Finish(s)
  BY <1>3 DEF Crash, Finish, KeyInv, KeyState
<1>4. CASE Succeed("main", A, s) \/ Fail("main", A, s)
  BY <1>1, <1>4, KeyCalls DEF s, A
<1>5. CASE Compute("main", A, s) \/ Install("main", A, s) \/ Await("main", A, s)
  BY <1>1, <1>5, KeyComputes DEF s, A
<1>6. CASE Branch("main", A, s)
  BY <1>1, <1>6, KeyBranches DEF s, A
<1>7. ~Create("main", A, s)
  BY <1>2 DEF Create
<1>8. QED BY <1>1, <1>3, <1>4, <1>5, <1>6, <1>7 DEF Perform

LEMMA KeySigint ==
    ASSUME prog \in KeyStores, prog \in DOMAIN Programs, KeyInv, Sigint
    PROVE  prog' = prog /\ KeyInv'
<1>1. prog' = prog /\ pc' = pc /\ live' = live
  BY DEF Sigint
<1>2. CASE data' = data
  BY <1>1, <1>2 DEF KeyInv, KeyState
<1>3. CASE data' = [v \in DOMAIN data |-> IF v \in DOMAIN Programs[prog].handler
                                THEN Programs[prog].handler[v] ELSE data[v]]
  <2>1. KeyState \in Sane /\ DOMAIN data = KeyVars /\ KeyState[1] = data
        /\ KeyState[2] = ("decryption" \in live)
        /\ Notes(Code("main"), KeyNotes(prog), Excused)
    BY KeyHere
  <2>2. Programs[prog].handler = [running |-> 0]
    BY KeyPrograms DEF Program
  <2>3. data' = [data EXCEPT !.running = 0]
    <3>1. data \in [KeyVars -> Int]
      BY <2>1 DEF Sane, KeyValues
    <3>2. data' = [v \in KeyVars |-> IF v = "running" THEN 0 ELSE data[v]]
      BY <1>3, <2>1, <2>2
    <3>3. QED BY <3>1, <3>2
  <2>4. KeyState' = Stopped(KeyState)
    BY <1>1, <2>1, <2>3 DEF KeyState, Stopped
  <2>5. KeyNotes(prog)[pc["main"]] \in Steady /\ KeyState \in KeyNotes(prog)[pc["main"]]
    BY <2>1, NotesFacts DEF KeyInv, To
  <2>6. KeyState' \in KeyNotes(prog)[pc["main"]]
    BY <2>4, <2>5 DEF Steady
  <2>7. QED BY <1>1, <2>6 DEF KeyInv, To
<1>4. QED BY <1>2, <1>3 DEF Sigint

LEMMA KeyNext ==
    ASSUME KeyEffectsGiven, prog \in KeyStores, prog \in DOMAIN Programs, KeyInv, [Next]_vars
    PROVE  KeyInv'
<1>1. CASE UNCHANGED vars
  BY <1>1 DEF vars, KeyInv, KeyState
<1>2. CASE Done
  BY <1>2 DEF Done, vars, KeyInv, KeyState
<1>3. CASE Sigint
  BY <1>3, KeySigint
<1>4. ASSUME NEW t \in DOMAIN pc, Step(t) PROVE KeyInv'
  <2>1. t = "main"
    BY <1>4, KeyHere
  <2>2. QED BY <1>4, <2>1, KeyStep
<1>5. QED BY <1>1, <1>2, <1>3, <1>4 DEF Next

LEMMA KeyShows ==
    ASSUME prog \in DOMAIN Programs, prog \in KeyStores => KeyInv
    PROVE  TokenRespected
<1> SUFFICES ASSUME prog \in KeyStores PROVE TokenRespected
  BY DEF TokenRespected, TokenSeesIntact, AskedForKey, InsideBuffer
<1>1. KeyState \in Sane /\ KeyState[1] = data /\ KeyState[2] = ("decryption" \in live)
  BY KeyHere
<1>2. Running("main") => Allows(Current("main"), KeyState)
  BY KeyHere DEF Running, Follows
<1>3. AskedForKey
  BY <1>1 DEF AskedForKey, Sane
<1>4. TokenSeesIntact
  BY <1>1, <1>2 DEF TokenSeesIntact, Faces, Allows
<1>5. InsideBuffer
  BY <1>1, <1>2 DEF InsideBuffer, Faces, Allows, ClearBuffers
<1>6. QED BY <1>3, <1>4, <1>5 DEF TokenRespected

\* Where the computations of the key stores are those of TpmKeyStore, the token is asked
\* only about a file that is as it was sealed, decrypts only with the key whose label was
\* asked for, and every block has room in the buffer it goes to: in all four programs, for
\* any Lengths of LengthsAssumption, whatever the token holds, whichever calls fail and
\* whenever SIGINT comes.
THEOREM TokenIsRespected ==
    ASSUME KeyEffectsGiven
    PROVE  Spec => []TokenRespected
<1> DEFINE Inv == prog \in DOMAIN Programs /\ (prog \in KeyStores => KeyInv)
<1>1. Init => Inv
  BY KeyStart DEF Init
<1>2. Inv /\ [Next]_vars => Inv'
  <2> SUFFICES ASSUME Inv, [Next]_vars PROVE Inv'
    OBVIOUS
  <2>1. prog' = prog
    BY DEF Next, Sigint, Done, vars, Step, Perform, Crash, Succeed, Fail, Compute, Branch,
           Install, Create, Await, Finish
  <2>2. QED BY <2>1, KeyNext
<1>3. Inv => TokenRespected
  BY KeyShows
<1> HIDE DEF Inv
<1>4. QED BY <1>1, <1>2, <1>3, PTL DEF Spec

-----------------------------------------------------------------------------
(* The threads: what their steps may do, and where their jumps lead.       *)

CounterNames ==
    {"PubCounter", "SubCounter", "Pressure", "message", "published", "encoded", "recorded",
     "sent", "row"}

Branches == {"jump", "unless"}

\* What a piece of code may do beside its calls: compute these names, create these
\* threads, set these counters to zero, exit with these.
May(D, T, Z, X) == [compute |-> D, create |-> T, clear |-> Z, exit |-> X]

\* A counter is written by a computation, or set to zero.
Obeys(s, k) ==
    /\ DOMAIN s = DOMAIN Blank
    /\ s.op = "do" => s.arg \in k.compute
    /\ s.op = "spawn" => s.arg \in k.create
    /\ s.op = "exit" => s.arg \in k.exit
    /\ s.to \in CounterNames => s.op = "put" /\ s.skip = 0 /\ s.to \in k.clear

Act(s, k) == Obeys(s, k) /\ s.op \notin Branches

\* Its jumps lead at most so many steps before it, and so many after its first.
Within(A, k, before, after) ==
    /\ IsCode(A)
    /\ \A i \in DOMAIN A :
         /\ Obeys(A[i], k)
         /\ A[i].op \in Branches => A[i].skip \in -(before + i) .. after - i

\* Its jumps stay in it, or lead to its end.
Flows(A, k) == Within(A, k, 0, Len(A))

LEMMA StepRules ==
    ASSUME NEW k
    PROVE  /\ \A xs, ys : Act(Call(xs, ys), k)
           /\ \A xs : Act(Deref(xs), k) /\ Act(Free(xs), k)
           /\ \A x : Act(New(x), k) /\ Act(Wait(x), k) /\ Act(Join(x), k)
           /\ Act(Signal, k) /\ Act(Return, k)
           /\ \A s : Act(s, k) => Act(Sure(s), k) /\ \A xs : Act(Reads(xs, s), k)
           /\ \A s, v : Act(s, k) /\ v \notin CounterNames
                => Act(Into(v, s), k) /\ Act(OrInto(v, s), k)
           /\ \A v, n : v \notin CounterNames => Act(Put(v, n), k)
           /\ \A v \in k.clear : Act(Put(v, 0), k)
           /\ \A n \in k.compute : Act(Do(n), k)
           /\ \A t \in k.create : Act(Spawn(t), k)
           /\ \A v \in k.exit : Act(Exit(v), k)
<1>1. \A xs, ys : Act(Call(xs, ys), k)
  BY DEF Act, Obeys, Call, Blank, CounterNames, Branches
<1>2. \A xs : Act(Deref(xs), k) /\ Act(Free(xs), k)
  BY DEF Act, Obeys, Deref, Free, Blank, CounterNames, Branches
<1>3. \A x : Act(New(x), k) /\ Act(Wait(x), k) /\ Act(Join(x), k)
  BY <1>1 DEF Act, Obeys, New, Wait, Join, Blank, CounterNames, Branches
<1>4. Act(Signal, k) /\ Act(Return, k)
  BY DEF Act, Obeys, Signal, Return, Blank, CounterNames, Branches
<1>5. \A s : Act(s, k) => Act(Sure(s), k) /\ \A xs : Act(Reads(xs, s), k)
  BY DEF Act, Obeys, Sure, Reads, Blank
<1>6. \A s, v : Act(s, k) /\ v \notin CounterNames => Act(Into(v, s), k) /\ Act(OrInto(v, s), k)
  BY DEF Act, Obeys, Into, OrInto, Blank
<1>7. \A v, n : v \notin CounterNames => Act(Put(v, n), k)
  BY DEF Act, Obeys, Put, Blank, CounterNames, Branches
<1>8. \A v \in k.clear : Act(Put(v, 0), k)
  BY DEF Act, Obeys, Put, Blank, CounterNames, Branches
<1>9. /\ \A n \in k.compute : Act(Do(n), k)
      /\ \A t \in k.create : Act(Spawn(t), k)
      /\ \A v \in k.exit : Act(Exit(v), k)
  BY DEF Act, Obeys, Do, Spawn, Exit, Blank, CounterNames, Branches
<1>10. QED BY <1>1, <1>2, <1>3, <1>4, <1>5, <1>6, <1>7, <1>8, <1>9

LEMMA Listed ==
    ASSUME NEW k
    PROVE  /\ Flows(<< >>, k)
           /\ \A a1 : Act(a1, k) => Flows(<<a1>>, k)
           /\ \A a1, a2 : Act(a1, k) /\ Act(a2, k) => Flows(<<a1, a2>>, k)
           /\ \A a1, a2, a3 : Act(a1, k) /\ Act(a2, k) /\ Act(a3, k) => Flows(<<a1, a2, a3>>, k)
           /\ \A a1, a2, a3, a4 : Act(a1, k) /\ Act(a2, k) /\ Act(a3, k) /\ Act(a4, k)
                => Flows(<<a1, a2, a3, a4>>, k)
           /\ \A a1, a2, a3, a4, a5 : Act(a1, k) /\ Act(a2, k) /\ Act(a3, k) /\ Act(a4, k)
                /\ Act(a5, k) => Flows(<<a1, a2, a3, a4, a5>>, k)
           /\ \A a1, a2, a3, a4, a5, a6 : Act(a1, k) /\ Act(a2, k) /\ Act(a3, k) /\ Act(a4, k)
                /\ Act(a5, k) /\ Act(a6, k) => Flows(<<a1, a2, a3, a4, a5, a6>>, k)
           /\ \A a1, a2, a3, a4, a5, a6, a7 : Act(a1, k) /\ Act(a2, k) /\ Act(a3, k)
                /\ Act(a4, k) /\ Act(a5, k) /\ Act(a6, k) /\ Act(a7, k)
                     => Flows(<<a1, a2, a3, a4, a5, a6, a7>>, k)
           /\ \A a1, a2, a3, a4, a5, a6, a7, a8 : Act(a1, k) /\ Act(a2, k) /\ Act(a3, k)
                /\ Act(a4, k) /\ Act(a5, k) /\ Act(a6, k) /\ Act(a7, k) /\ Act(a8, k)
                     => Flows(<<a1, a2, a3, a4, a5, a6, a7, a8>>, k)
           /\ \A a1, a2, a3, a4, a5, a6, a7, a8, a9 : Act(a1, k) /\ Act(a2, k) /\ Act(a3, k)
                /\ Act(a4, k) /\ Act(a5, k) /\ Act(a6, k) /\ Act(a7, k) /\ Act(a8, k)
                     /\ Act(a9, k) => Flows(<<a1, a2, a3, a4, a5, a6, a7, a8, a9>>, k)
           /\ \A a1, a2, a3, a4, a5, a6, a7, a8, a9, a10 : Act(a1, k) /\ Act(a2, k)
                /\ Act(a3, k) /\ Act(a4, k) /\ Act(a5, k) /\ Act(a6, k) /\ Act(a7, k)
                     /\ Act(a8, k) /\ Act(a9, k) /\ Act(a10, k)
                          => Flows(<<a1, a2, a3, a4, a5, a6, a7, a8, a9, a10>>, k)
           /\ \A a1, a2, a3, a4, a5, a6, a7, a8, a9, a10, a11 : Act(a1, k) /\ Act(a2, k)
                /\ Act(a3, k) /\ Act(a4, k) /\ Act(a5, k) /\ Act(a6, k) /\ Act(a7, k)
                     /\ Act(a8, k) /\ Act(a9, k) /\ Act(a10, k) /\ Act(a11, k)
                          => Flows(<<a1, a2, a3, a4, a5, a6, a7, a8, a9, a10, a11>>, k)
           /\ \A a1, a2, a3, a4, a5, a6, a7, a8, a9, a10, a11, a12 : Act(a1, k) /\ Act(a2, k)
                /\ Act(a3, k) /\ Act(a4, k) /\ Act(a5, k) /\ Act(a6, k) /\ Act(a7, k)
                     /\ Act(a8, k) /\ Act(a9, k) /\ Act(a10, k) /\ Act(a11, k) /\ Act(a12, k)
                          => Flows(<<a1, a2, a3, a4, a5, a6, a7, a8, a9, a10, a11, a12>>, k)
<1>0. Flows(<< >>, k)
  BY DEF Flows, Within, IsCode
<1>1. \A a1 : Act(a1, k) => Flows(<<a1>>, k)
  BY DEF Flows, Within, IsCode, Act, Range
<1>2. \A a1, a2 : Act(a1, k) /\ Act(a2, k) => Flows(<<a1, a2>>, k)
  BY DEF Flows, Within, IsCode, Act, Range
<1>3. \A a1, a2, a3 : Act(a1, k) /\ Act(a2, k) /\ Act(a3, k) => Flows(<<a1, a2, a3>>, k)
  BY DEF Flows, Within, IsCode, Act, Range
<1>4. \A a1, a2, a3, a4 : Act(a1, k) /\ Act(a2, k) /\ Act(a3, k) /\ Act(a4, k)
        => Flows(<<a1, a2, a3, a4>>, k)
  BY DEF Flows, Within, IsCode, Act, Range
<1>5. \A a1, a2, a3, a4, a5 : Act(a1, k) /\ Act(a2, k) /\ Act(a3, k) /\ Act(a4, k) /\ Act(a5, k)
        => Flows(<<a1, a2, a3, a4, a5>>, k)
  BY DEF Flows, Within, IsCode, Act, Range
<1>6. \A a1, a2, a3, a4, a5, a6 : Act(a1, k) /\ Act(a2, k) /\ Act(a3, k) /\ Act(a4, k)
        /\ Act(a5, k) /\ Act(a6, k) => Flows(<<a1, a2, a3, a4, a5, a6>>, k)
  BY DEF Flows, Within, IsCode, Act, Range
<1>7. \A a1, a2, a3, a4, a5, a6, a7 : Act(a1, k) /\ Act(a2, k) /\ Act(a3, k) /\ Act(a4, k)
        /\ Act(a5, k) /\ Act(a6, k) /\ Act(a7, k) => Flows(<<a1, a2, a3, a4, a5, a6, a7>>, k)
  BY DEF Flows, Within, IsCode, Act, Range
<1>8. \A a1, a2, a3, a4, a5, a6, a7, a8 : Act(a1, k) /\ Act(a2, k) /\ Act(a3, k) /\ Act(a4, k)
        /\ Act(a5, k) /\ Act(a6, k) /\ Act(a7, k) /\ Act(a8, k)
             => Flows(<<a1, a2, a3, a4, a5, a6, a7, a8>>, k)
  BY DEF Flows, Within, IsCode, Act, Range
<1>9. \A a1, a2, a3, a4, a5, a6, a7, a8, a9 : Act(a1, k) /\ Act(a2, k) /\ Act(a3, k)
        /\ Act(a4, k) /\ Act(a5, k) /\ Act(a6, k) /\ Act(a7, k) /\ Act(a8, k) /\ Act(a9, k)
             => Flows(<<a1, a2, a3, a4, a5, a6, a7, a8, a9>>, k)
  BY DEF Flows, Within, IsCode, Act, Range
<1>10. \A a1, a2, a3, a4, a5, a6, a7, a8, a9, a10 : Act(a1, k) /\ Act(a2, k) /\ Act(a3, k)
         /\ Act(a4, k) /\ Act(a5, k) /\ Act(a6, k) /\ Act(a7, k) /\ Act(a8, k) /\ Act(a9, k)
              /\ Act(a10, k) => Flows(<<a1, a2, a3, a4, a5, a6, a7, a8, a9, a10>>, k)
  BY DEF Flows, Within, IsCode, Act, Range
<1>11. \A a1, a2, a3, a4, a5, a6, a7, a8, a9, a10, a11 : Act(a1, k) /\ Act(a2, k) /\ Act(a3, k)
         /\ Act(a4, k) /\ Act(a5, k) /\ Act(a6, k) /\ Act(a7, k) /\ Act(a8, k) /\ Act(a9, k)
              /\ Act(a10, k) /\ Act(a11, k)
                   => Flows(<<a1, a2, a3, a4, a5, a6, a7, a8, a9, a10, a11>>, k)
  BY DEF Flows, Within, IsCode, Act, Range
<1>12. \A a1, a2, a3, a4, a5, a6, a7, a8, a9, a10, a11, a12 : Act(a1, k) /\ Act(a2, k)
         /\ Act(a3, k) /\ Act(a4, k) /\ Act(a5, k) /\ Act(a6, k) /\ Act(a7, k) /\ Act(a8, k)
              /\ Act(a9, k) /\ Act(a10, k) /\ Act(a11, k) /\ Act(a12, k)
                   => Flows(<<a1, a2, a3, a4, a5, a6, a7, a8, a9, a10, a11, a12>>, k)
  BY DEF Flows, Within, IsCode, Act, Range
<1>13. QED BY <1>0, <1>1, <1>2, <1>3, <1>4, <1>5, <1>6, <1>7, <1>8, <1>9, <1>10, <1>11, <1>12

LEMMA Joined ==
    ASSUME NEW k, NEW A, NEW B, NEW b \in Nat, NEW a \in Nat, NEW d \in Nat, NEW e \in Nat,
           Within(A, k, b, a), Within(B, k, d, e), d = b + Len(A), a = Len(A) + e
    PROVE  Within(A \o B, k, b, a)
<1>1. /\ IsCode(A \o B) /\ Len(A \o B) = Len(A) + Len(B)
      /\ \A i \in 1 .. Len(A) : (A \o B)[i] = A[i]
      /\ \A i \in Len(A) + 1 .. Len(A) + Len(B) : (A \o B)[i] = B[i - Len(A)]
      /\ Len(A) \in Nat /\ DOMAIN A = 1 .. Len(A)
      /\ Len(B) \in Nat /\ DOMAIN B = 1 .. Len(B)
      /\ DOMAIN (A \o B) = 1 .. Len(A) + Len(B)
  BY CodeFacts DEF Within
<1>2. ASSUME NEW i \in 1 .. Len(A) + Len(B)
      PROVE  /\ Obeys((A \o B)[i], k)
             /\ (A \o B)[i].op \in Branches => (A \o B)[i].skip \in -(b + i) .. a - i
  <2>1. CASE i <= Len(A)
    BY <1>1, <2>1 DEF Within
  <2>2. CASE i > Len(A)
    <3>1. i - Len(A) \in DOMAIN B /\ (A \o B)[i] = B[i - Len(A)]
      BY <1>1, <2>2
    <3>2. /\ Obeys(B[i - Len(A)], k)
          /\ B[i - Len(A)].op \in Branches
               => B[i - Len(A)].skip \in -(d + (i - Len(A))) .. e - (i - Len(A))
      BY <3>1 DEF Within
    <3>3. -(d + (i - Len(A))) = -(b + i) /\ e - (i - Len(A)) = a - i
      BY <1>1
    <3>4. QED BY <3>1, <3>2, <3>3
  <2>3. QED BY <2>1, <2>2, <1>1
<1>3. QED BY <1>1, <1>2 DEF Within

LEMMA Widened ==
    ASSUME NEW k, NEW A, NEW b \in Nat, NEW a \in Int, Within(A, k, b, a),
           NEW c \in Nat, NEW d \in Int, b <= c, a <= d
    PROVE  Within(A, k, c, d)
<1> SUFFICES ASSUME NEW i \in DOMAIN A
             PROVE  /\ Obeys(A[i], k)
                    /\ A[i].op \in Branches => A[i].skip \in -(c + i) .. d - i
  BY DEF Within
<1>1. i \in Nat
  BY CodeLength DEF Within
<1>2. /\ Obeys(A[i], k)
      /\ A[i].op \in Branches => A[i].skip \in -(b + i) .. a - i
  BY DEF Within
<1>3. QED BY <1>1, <1>2

LEMMA FlowsJoined ==
    ASSUME NEW k, NEW A, NEW B, Flows(A, k), Flows(B, k)
    PROVE  Flows(A \o B, k)
<1> DEFINE m == Len(A) n == Len(B) p == m + n
<1>1. m \in Nat /\ n \in Nat /\ p \in Nat /\ Len(A \o B) = p
  BY CodeFacts DEF Flows, Within
<1>2. Within(A, k, 0, m) /\ Within(B, k, 0, n)
  BY DEF Flows
<1> HIDE DEF p
<1>3. Within(A, k, 0, p) /\ Within(B, k, m, n)
  BY <1>1, <1>2, Widened DEF p
<1>4. Within(A \o B, k, 0, p)
  BY <1>1, <1>3, Joined DEF p
<1>5. QED BY <1>1, <1>4 DEF Flows

LEMMA BranchRules ==
    ASSUME NEW k
    PROVE  /\ \A n : Act(Jump(n), k) = FALSE
           /\ \A c, n : Obeys(Unless(c, n), k) /\ Unless(c, n).skip = n
           /\ \A n : Obeys(Jump(n), k) /\ Jump(n).skip = n /\ Jump(n).op = "jump"
BY DEF Act, Obeys, Unless, Jump, Blank, CounterNames, Branches

\* The fields of a step, and a step that reads as well.
LEMMA StepFields ==
    /\ \A c, n : Unless(c, n).op = "unless" /\ Unless(c, n).arg = c /\ Unless(c, n).skip = n
    /\ \A n : Jump(n).op = "jump" /\ Jump(n).skip = n
    /\ \A v : Do(v).op = "do" /\ Do(v).arg = v
    /\ \A v, n : Put(v, n).op = "put" /\ Put(v, n).to = v /\ Put(v, n).skip = n
    /\ \A xs, c, n : LET s == Reads(xs, Unless(c, n))
                     IN  s.op = "unless" /\ s.arg = c /\ s.skip = n
    /\ \A xs, v : Reads(xs, Do(v)).op = "do" /\ Reads(xs, Do(v)).arg = v
    /\ \A xs, v, n : LET s == Reads(xs, Put(v, n))
                     IN  s.op = "put" /\ s.to = v /\ s.skip = n
BY DEF Unless, Jump, Do, Put, Reads, Blank

LEMMA ReadRules ==
    ASSUME NEW k
    PROVE  /\ \A xs, c, n : Obeys(Reads(xs, Unless(c, n)), k)
           /\ \A v \in k.compute : \A xs : Obeys(Do(v), k) /\ Obeys(Reads(xs, Do(v)), k)
           /\ \A v \in k.clear : \A xs : Obeys(Put(v, 0), k) /\ Obeys(Reads(xs, Put(v, 0)), k)
           /\ \A v, n, xs : v \notin CounterNames => Obeys(Put(v, n), k) /\ Obeys(Deref(xs), k)
<1>1. \A xs, c, n : Obeys(Reads(xs, Unless(c, n)), k)
  BY DEF Obeys, Reads, Unless, Blank, CounterNames
<1>2. \A v \in k.compute : \A xs : Obeys(Do(v), k) /\ Obeys(Reads(xs, Do(v)), k)
  BY StepRules DEF Act
<1>3. \A v \in k.clear : \A xs : Obeys(Put(v, 0), k) /\ Obeys(Reads(xs, Put(v, 0)), k)
  BY StepRules DEF Act
<1>4. \A v, n, xs : v \notin CounterNames => Obeys(Put(v, n), k) /\ Obeys(Deref(xs), k)
  BY StepRules DEF Act
<1>5. QED BY <1>1, <1>2, <1>3, <1>4

LEMMA Openings ==
    ASSUME NEW k, NEW c, NEW d, NEW n \in Nat
    PROVE  /\ Within(<<Unless(c, n)>>, k, 0, n + 1)
           /\ Within(<<Unless(c, 1), Jump(n)>>, k, 0, n + 2)
           /\ Within(<<Unless(c, 1), Jump(1), Unless(d, n)>>, k, 0, n + 3)
           /\ Within(<<Jump(-(n + 1))>>, k, n, 1)
<1>1. /\ IsCode(<<Unless(c, n)>>) /\ IsCode(<<Unless(c, 1), Jump(n)>>)
      /\ IsCode(<<Unless(c, 1), Jump(1), Unless(d, n)>>) /\ IsCode(<<Jump(-(n + 1))>>)
  BY DEF IsCode, Range
<1>2. /\ \A e, i : Obeys(Unless(e, i), k) /\ Obeys(Jump(i), k)
      /\ \A e, i : Unless(e, i).skip = i /\ Jump(i).skip = i
  BY BranchRules
<1>3. Within(<<Unless(c, n)>>, k, 0, n + 1)
  BY <1>1, <1>2 DEF Within
<1>4. Within(<<Unless(c, 1), Jump(n)>>, k, 0, n + 2)
  BY <1>1, <1>2 DEF Within
<1>5. Within(<<Unless(c, 1), Jump(1), Unless(d, n)>>, k, 0, n + 3)
  BY <1>1, <1>2 DEF Within
<1>6. Within(<<Jump(-(n + 1))>>, k, n, 1)
  BY <1>1, <1>2 DEF Within
<1>7. QED BY <1>3, <1>4, <1>5, <1>6

LEMMA Prefixed ==
    ASSUME NEW k, NEW Hd, NEW A, NEW m \in Nat, Within(Hd, k, 0, m), Flows(A, k), m
             = Len(A) + Len(Hd)
    PROVE  Flows(Hd \o A, k) /\ Len(Hd \o A) = m
<1>1. /\ IsCode(Hd) /\ IsCode(A) /\ Len(A) \in Nat /\ Len(Hd) \in Nat
      /\ Len(Hd \o A) = Len(Hd) + Len(A)
  BY CodeFacts DEF Flows, Within
<1>2. Within(A, k, Len(Hd), Len(A))
  BY <1>1, Widened DEF Flows
<1>3. Within(Hd \o A, k, 0, m)
  BY <1>1, <1>2, Joined
<1>4. QED BY <1>1, <1>3 DEF Flows

LEMMA Ahead ==
    ASSUME NEW F, NEW A, IsCode(F), IsCode(A)
    PROVE  /\ IsCode(F \o A) /\ Len(F \o A) = Len(F) + Len(A)
           /\ \A i \in 1 .. Len(F) : (F \o A)[i] = F[i]
           /\ \A i \in 1 .. Len(A) : (F \o A)[i + Len(F)] = A[i]
<1>1. /\ IsCode(F \o A) /\ Len(F \o A) = Len(F) + Len(A)
      /\ \A i \in 1 .. Len(F) : (F \o A)[i] = F[i]
      /\ \A i \in Len(F) + 1 .. Len(F) + Len(A) : (F \o A)[i] = A[i - Len(F)]
      /\ Len(A) \in Nat /\ Len(F) \in Nat
  BY CodeFacts
<1>2. \A i \in 1 .. Len(A) : i + Len(F) \in Len(F) + 1 .. Len(F) + Len(A)
        /\ (i + Len(F)) - Len(F) = i
  BY <1>1
<1>3. \A i \in 1 .. Len(A) : (F \o A)[i + Len(F)] = A[i]
  <2> TAKE i \in 1 .. Len(A)
  <2>1. (F \o A)[i + Len(F)] = A[(i + Len(F)) - Len(F)]
    BY <1>1, <1>2
  <2>2. QED BY <1>2, <2>1
<1>4. QED BY <1>1, <1>3

\* Where the steps of a piece of code are in what is made of it.
LEMMA Shapes ==
    ASSUME NEW A, IsCode(A)
    PROVE  /\ \A c : /\ IsCode(If(c, A)) /\ Len(If(c, A)) = Len(A) + 1
                    /\ If(c, A)[1] = Unless(c, Len(A))
                    /\ \A i \in 1 .. Len(A) : If(c, A)[i + 1] = A[i]
           /\ \A c, d : /\ IsCode(Either(c, d, A)) /\ Len(Either(c, d, A)) = Len(A) + 3
                       /\ Either(c, d, A)[1] = Unless(c, 1) /\ Either(c, d, A)[2] = Jump(1)
                       /\ Either(c, d, A)[3] = Unless(d, Len(A))
                       /\ \A i \in 1 .. Len(A) : Either(c, d, A)[i + 3] = A[i]
           /\ \A xs : Len(A) > 0 =>
                 /\ IsCode(ReadsFirst(xs, A)) /\ Len(ReadsFirst(xs, A)) = Len(A)
                 /\ ReadsFirst(xs, A)[1] = Reads(xs, A[1])
                 /\ \A i \in 2 .. Len(A) : ReadsFirst(xs, A)[i] = A[i]
<1> DEFINE n == Len(A)
<1>1. /\ n \in Nat /\ DOMAIN A = 1 .. n
      /\ \A u : IsCode(<<u>>) /\ Len(<<u>>) = 1 /\ <<u>>[1] = u
      /\ \A u, v, w : /\ IsCode(<<u, v, w>>) /\ Len(<<u, v, w>>) = 3 /\ <<u, v, w>>[1] = u
                      /\ <<u, v, w>>[2] = v /\ <<u, v, w>>[3] = w
  BY CodeLength DEF IsCode, Range
<1>2. ASSUME NEW u
      PROVE  /\ IsCode(<<u>> \o A) /\ Len(<<u>> \o A) = n + 1 /\ (<<u>> \o A)[1] = u
             /\ \A i \in 1 .. n : (<<u>> \o A)[i + 1] = A[i]
  <2> DEFINE F == <<u>>
  <2>0. IsCode(F)
    BY <1>1
  <2>1. Len(F) = 1 /\ F[1] = u /\ 1 \in 1 .. 1
    BY <1>1
  <2> HIDE DEF F
  <2>2. /\ IsCode(F \o A) /\ Len(F \o A) = Len(F) + Len(A)
        /\ \A i \in 1 .. Len(F) : (F \o A)[i] = F[i]
        /\ \A i \in 1 .. Len(A) : (F \o A)[i + Len(F)] = A[i]
    BY <2>0, Ahead
  <2>3. QED BY <1>1, <2>1, <2>2 DEF F
<1>3. ASSUME NEW u, NEW v, NEW w
      PROVE  /\ IsCode(<<u, v, w>> \o A) /\ Len(<<u, v, w>> \o A) = n + 3
             /\ (<<u, v, w>> \o A)[1] = u /\ (<<u, v, w>> \o A)[2] = v /\ (<<u, v, w>> \o A)[3] = w
             /\ \A i \in 1 .. n : (<<u, v, w>> \o A)[i + 3] = A[i]
  <2> DEFINE F == <<u, v, w>>
  <2>0. IsCode(F)
    BY <1>1
  <2>1. /\ Len(F) = 3 /\ F[1] = u /\ F[2] = v /\ F[3] = w
        /\ 1 \in 1 .. 3 /\ 2 \in 1 .. 3 /\ 3 \in 1 .. 3 /\ 3 \in Nat
    BY <1>1
  <2> HIDE DEF F
  <2>2. /\ IsCode(F \o A) /\ Len(F \o A) = Len(F) + Len(A)
        /\ \A i \in 1 .. Len(F) : (F \o A)[i] = F[i]
        /\ \A i \in 1 .. Len(A) : (F \o A)[i + Len(F)] = A[i]
    BY <2>0, Ahead
  <2>3. QED BY <1>1, <2>1, <2>2 DEF F
<1>4. ASSUME NEW xs, n > 0
      PROVE  /\ IsCode(ReadsFirst(xs, A)) /\ Len(ReadsFirst(xs, A)) = n
             /\ ReadsFirst(xs, A)[1] = Reads(xs, A[1])
             /\ \A i \in 2 .. n : ReadsFirst(xs, A)[i] = A[i]
  <2> DEFINE F == <<Reads(xs, A[1])>>
             T == Tail(A)
  <2>0. IsCode(F) /\ IsCode(T)
    <3>1. A \in Seq(Range(A)) /\ A # << >>
      BY <1>1, <1>4 DEF IsCode
    <3>2. T \in Seq(Range(A))
      BY <1>1, <1>4, <3>1
    <3>3. QED BY <1>1, <3>2, SeqOfRange DEF IsCode
  <2>1. Len(F) = 1 /\ F[1] = Reads(xs, A[1]) /\ 1 \in 1 .. 1
    BY <1>1
  <2>2. Len(T) = n - 1 /\ \A i \in 1 .. n - 1 : T[i] = A[i + 1]
    <3>1. A \in Seq(Range(A)) /\ A # << >>
      BY <1>1, <1>4 DEF IsCode
    <3>2. QED BY <1>1, <1>4, <3>1
  <2> HIDE DEF F, T
  <2>3. /\ IsCode(F \o T) /\ Len(F \o T) = Len(F) + Len(T)
        /\ \A i \in 1 .. Len(F) : (F \o T)[i] = F[i]
        /\ \A i \in 1 .. Len(T) : (F \o T)[i + Len(F)] = T[i]
    BY <2>0, Ahead
  <2>4. \A i \in 2 .. n : i - 1 \in 1 .. n - 1 /\ (i - 1) + 1 = i
    BY <1>1
  <2>5. \A i \in 2 .. n : (F \o T)[i] = A[i]
    <3> TAKE i \in 2 .. n
    <3> DEFINE h == i - 1
    <3>1. h \in 1 .. Len(T) /\ h \in 1 .. n - 1 /\ h + Len(F) = i /\ h + 1 = i
      BY <2>1, <2>2, <2>4
    <3> HIDE DEF h
    <3>2. (F \o T)[h + Len(F)] = T[h] /\ T[h] = A[h + 1]
      BY <2>2, <2>3, <3>1
    <3>3. QED BY <3>1, <3>2
  <2>6. QED BY <1>1, <2>1, <2>2, <2>3, <2>5 DEF ReadsFirst, F, T
<1>5. \A c : /\ IsCode(If(c, A)) /\ Len(If(c, A)) = n + 1 /\ If(c, A)[1] = Unless(c, n)
            /\ \A i \in 1 .. n : If(c, A)[i + 1] = A[i]
  BY <1>2 DEF If
<1>6. \A c, d : /\ IsCode(Either(c, d, A)) /\ Len(Either(c, d, A)) = n + 3
               /\ Either(c, d, A)[1] = Unless(c, 1) /\ Either(c, d, A)[2] = Jump(1)
               /\ Either(c, d, A)[3] = Unless(d, n)
               /\ \A i \in 1 .. n : Either(c, d, A)[i + 3] = A[i]
  BY <1>3 DEF Either
<1>7. QED BY <1>4, <1>5, <1>6

LEMMA WhileShape ==
    ASSUME NEW A, IsCode(A), NEW c
    PROVE  /\ IsCode(While(c, A)) /\ Len(While(c, A)) = Len(A) + 2
           /\ While(c, A)[1] = Unless(c, Len(A) + 1)
           /\ While(c, A)[Len(A) + 2] = Jump(-(Len(A) + 2))
           /\ \A i \in 1 .. Len(A) : While(c, A)[i + 1] = A[i]
<1> DEFINE n == Len(A)
           u == Unless(c, n + 1)
           v == Jump(-(n + 2))
           F == <<u>> \o A
           J == <<v>>
           m == n + 1
<1>1. /\ n \in Nat /\ IsCode(<<u>>) /\ Len(<<u>>) = 1 /\ <<u>>[1] = u
      /\ IsCode(J) /\ Len(J) = 1 /\ J[1] = v
  BY CodeLength DEF IsCode, Range
<1>2. /\ IsCode(F) /\ Len(F) = m /\ F[1] = u /\ \A i \in 1 .. n : F[i + 1] = A[i]
  <2> DEFINE H == <<u>>
  <2>1. IsCode(H) /\ Len(H) = 1 /\ H[1] = u /\ 1 \in 1 .. 1
    BY <1>1
  <2> HIDE DEF H
  <2>2. IsCode(H)
    BY <2>1
  <2>3. /\ IsCode(H \o A) /\ Len(H \o A) = Len(H) + Len(A)
        /\ \A i \in 1 .. Len(H) : (H \o A)[i] = H[i]
        /\ \A i \in 1 .. Len(A) : (H \o A)[i + Len(H)] = A[i]
    BY <2>2, Ahead
  <2>4. QED BY <1>1, <2>1, <2>3 DEF H
<1>3. While(c, A) = F \o J
  BY DEF While
<1> HIDE DEF u, v, F, J, m
<1>4. IsCode(F) /\ IsCode(J)
  BY <1>1, <1>2
<1>5. /\ IsCode(F \o J) /\ Len(F \o J) = Len(F) + Len(J)
      /\ \A i \in 1 .. Len(F) : (F \o J)[i] = F[i]
      /\ \A i \in 1 .. Len(J) : (F \o J)[i + Len(F)] = J[i]
  BY <1>4, Ahead
<1>6. /\ m \in Nat /\ 1 \in 1 .. m /\ 1 + m = n + 2 /\ m + 1 = n + 2
      /\ \A i \in 1 .. n : i + 1 \in 1 .. m
  BY <1>1 DEF m
<1>7. (F \o J)[n + 2] = v
  <2>1. (F \o J)[1 + Len(F)] = J[1]
    BY <1>1, <1>5
  <2>2. QED BY <1>1, <1>2, <1>6, <2>1
<1>8. /\ IsCode(F \o J) /\ Len(F \o J) = n + 2 /\ (F \o J)[1] = u
      /\ \A i \in 1 .. n : (F \o J)[i + 1] = A[i]
  BY <1>1, <1>2, <1>5, <1>6
<1>9. QED BY <1>3, <1>7, <1>8 DEF u, v

\* Each way to put code together keeps its jumps inside.
LEMMA FlowRules ==
    ASSUME NEW k, NEW A, Flows(A, k)
    PROVE  /\ \A c : Flows(If(c, A), k) /\ Flows(IfNot(c, A), k) /\ Flows(While(c, A), k)
           /\ \A c, d : Flows(Either(c, d, A), k) /\ Flows(WhileEither(c, d, A), k)
           /\ Flows(Maybe(A), k)
           /\ \A xs : Len(A) > 0 => Flows(ReadsFirst(xs, A), k)
           /\ Flows(Fn(A), k)
<1> DEFINE n == Len(A)
<1>1. n \in Nat /\ IsCode(A) /\ Within(A, k, 0, n) /\ DOMAIN A = 1 .. n
  BY CodeLength DEF Flows, Within
<1>2. \A c : Flows(If(c, A), k)
  <2> TAKE c
  <2>1. Within(<<Unless(c, n)>>, k, 0, n + 1)
    BY <1>1, Openings
  <2>2. QED BY <1>1, <2>1, Prefixed DEF If
<1>3. \A c : Flows(IfNot(c, A), k)
  <2> TAKE c
  <2> DEFINE Hd == <<Unless(c, 1), Jump(n)>>
             m == n + 2
  <2>1. Within(Hd, k, 0, m) /\ Len(Hd) = 2
    BY <1>1, Openings
  <2>2. m \in Nat /\ m = Len(A) + Len(Hd)
    BY <1>1, <2>1
  <2> HIDE DEF Hd, m
  <2>3. Flows(Hd \o A, k)
    BY <2>1, <2>2, Prefixed
  <2>4. QED BY <2>3 DEF IfNot, Hd
<1>4. \A c, d : Flows(Either(c, d, A), k)
  <2> TAKE c, d
  <2> DEFINE Hd == <<Unless(c, 1), Jump(1), Unless(d, n)>>
             m == n + 3
  <2>1. Within(Hd, k, 0, m) /\ Len(Hd) = 3
    BY <1>1, Openings
  <2>2. m \in Nat /\ m = Len(A) + Len(Hd)
    BY <1>1, <2>1
  <2> HIDE DEF Hd, m
  <2>3. Flows(Hd \o A, k)
    BY <2>1, <2>2, Prefixed
  <2>4. QED BY <2>3 DEF Either, Hd
<1>5. Flows(Maybe(A), k)
  BY <1>2 DEF Maybe
<1>6. \A c : Flows(While(c, A), k)
  <2> TAKE c
  <2> DEFINE m == n + 1
             l == n + 2
             Hd == <<Unless(c, m)>>
             J == <<Jump(-l)>>
  <2>1. m \in Nat /\ l \in Nat /\ l = m + 1 /\ m = n + 1
    BY <1>1
  <2> HIDE DEF m, l
  <2>2. Within(Hd, k, 0, l) /\ Len(Hd) = 1
    BY <2>1, Openings
  <2>3. Within(J, k, m, 1) /\ Len(J) = 1
    BY <2>1, Openings
  <2> HIDE DEF Hd, J
  <2>4. Within(A, k, 1, m)
    BY <1>1, <2>1, Widened
  <2>5. /\ IsCode(Hd) /\ IsCode(J) /\ Len(Hd \o A) = m
        /\ IsCode(Hd \o A) /\ Len((Hd \o A) \o J) = l
    <3>1. IsCode(Hd) /\ IsCode(J)
      BY <2>2, <2>3 DEF Within
    <3>2. IsCode(Hd \o A) /\ Len(Hd \o A) = m
      <4>1. IsCode(Hd \o A) /\ Len(Hd \o A) = Len(Hd) + Len(A)
        BY <1>1, <3>1, CodeJoined
      <4>2. QED BY <1>1, <2>1, <2>2, <4>1
    <3>3. Len((Hd \o A) \o J) = m + 1
      BY <2>3, <3>1, <3>2, CodeJoined
    <3>4. QED BY <2>1, <3>1, <3>2, <3>3
  <2>6. Within(Hd \o A, k, 0, l)
    <3>1. 1 = 0 + Len(Hd) /\ l = Len(Hd) + m
      BY <2>1, <2>2
    <3>2. QED BY <1>1, <2>1, <2>2, <2>4, <3>1, Joined
  <2>7. Within((Hd \o A) \o J, k, 0, l)
    <3>1. m = 0 + Len(Hd \o A) /\ l = Len(Hd \o A) + 1
      BY <2>1, <2>5
    <3>2. QED BY <2>1, <2>3, <2>5, <2>6, <3>1, Joined
  <2>8. Flows((Hd \o A) \o J, k)
    BY <2>5, <2>7 DEF Flows
  <2>9. QED BY <2>8 DEF While, Hd, J, m, l
<1>7. \A c, d : Flows(WhileEither(c, d, A), k)
  <2> TAKE c, d
  <2> DEFINE m == n + 1
             h == n + 3
             l == n + 4
             J == <<Jump(-l)>>
             Hd == <<Unless(c, 1), Jump(1), Unless(d, m)>>
  <2>1. /\ m \in Nat /\ h \in Nat /\ l \in Nat
        /\ m = n + 1 /\ h = n + 3 /\ l = h + 1 /\ l = m + 3
    BY <1>1
  <2> HIDE DEF m, l, h
  <2>2. Within(Hd, k, 0, l) /\ Len(Hd) = 3
    BY <2>1, Openings
  <2>3. Within(J, k, h, 1) /\ Len(J) = 1
    BY <2>1, Openings
  <2> HIDE DEF Hd, J
  <2>4. Within(A, k, 3, m)
    BY <1>1, <2>1, Widened
  <2>5. /\ IsCode(Hd) /\ IsCode(J) /\ Len(A \o J) = m
        /\ IsCode(A \o J) /\ Len(Hd \o (A \o J)) = l
    <3>1. IsCode(Hd) /\ IsCode(J)
      BY <2>2, <2>3 DEF Within
    <3>2. IsCode(A \o J) /\ Len(A \o J) = m
      BY <1>1, <2>1, <2>3, <3>1, CodeJoined
    <3>3. Len(Hd \o (A \o J)) = 3 + m
      BY <2>2, <3>1, <3>2, CodeJoined
    <3>4. QED BY <2>1, <3>1, <3>2, <3>3
  <2>6. Within(A \o J, k, 3, m)
    BY <1>1, <2>1, <2>3, <2>4, Joined
  <2>7. Within(Hd \o (A \o J), k, 0, l)
    BY <2>1, <2>2, <2>5, <2>6, Joined
  <2>8. Flows(Hd \o (A \o J), k)
    BY <2>5, <2>7 DEF Flows
  <2>9. QED BY <2>5, <2>8 DEF WhileEither, Either, Hd, J, m, l
<1>8. ASSUME NEW xs, n > 0
      PROVE  Flows(ReadsFirst(xs, A), k)
  <2> DEFINE R == ReadsFirst(xs, A)
  <2>3. IsCode(R) /\ Len(R) = n /\ R[1] = Reads(xs, A[1]) /\ \A i \in 2 .. n : R[i] = A[i]
    BY <1>1, <1>8, Shapes
  <2>4. /\ Obeys(Reads(xs, A[1]), k)
        /\ Reads(xs, A[1]).op = A[1].op /\ Reads(xs, A[1]).skip = A[1].skip
    BY <1>1, <1>8 DEF Within, Obeys, Reads, Blank
  <2>5. Within(R, k, 0, n)
    BY <1>1, <1>8, <2>3, <2>4, CodeLength DEF Within
  <2>6. QED BY <2>3, <2>5 DEF Flows
<1>9. Flows(Fn(A), k)
  <2>1. IsCode(Fn(A)) /\ Len(Fn(A)) = n /\ DOMAIN Fn(A) = 1 .. n
    <3>1. Fn(A) \in [1 .. n -> Range(Fn(A))]
      BY <1>1 DEF Fn, Range
    <3>2. QED BY <1>1, <3>1, SeqDef DEF IsCode
  <2>2. ASSUME NEW i \in 1 .. n
        PROVE  /\ Obeys(Fn(A)[i], k)
               /\ Fn(A)[i].op \in Branches => Fn(A)[i].skip \in -(0 + i) .. n - i
    <3>1. Obeys(A[i], k) /\ (A[i].op \in Branches => A[i].skip \in -(0 + i) .. n - i)
      BY <1>1 DEF Within
    <3>2. CASE A[i].op = "return"
      <4>1. Fn(A)[i] = Jump(n - i)
        BY <1>1, <3>2 DEF Fn
      <4>2. Obeys(Jump(n - i), k) /\ Jump(n - i).skip = n - i
        BY BranchRules
      <4>3. n - i \in -(0 + i) .. n - i
        BY <1>1
      <4>4. QED BY <4>1, <4>2, <4>3
    <3>3. CASE A[i].op # "return"
      <4>1. Fn(A)[i] = A[i]
        BY <1>1, <3>3 DEF Fn
      <4>2. QED BY <3>1, <4>1
    <3>4. QED BY <3>2, <3>3
  <2>3. QED BY <2>1, <2>2 DEF Within, Flows
<1>10. QED BY <1>2, <1>3, <1>4, <1>5, <1>6, <1>7, <1>8, <1>9

LEMMA LoopRules ==
    ASSUME NEW k, NEW A, Flows(A, k)
    PROVE  /\ \A xs, c : Flows(ReadsFirst(xs, While(c, A)), k)
           /\ \A xs, c, d : Flows(ReadsFirst(xs, WhileEither(c, d, A)), k)
<1>1. IsCode(A) /\ Len(A) \in Nat /\ \A u : IsCode(<<u>>) /\ Len(<<u>>) = 1
  BY CodeLength DEF Flows, Within, IsCode, Range
<1>2. \A c : Len(While(c, A)) > 0
  <2>1. \A u, v : Len((<<u>> \o A) \o <<v>>) > 0
    <3> TAKE u, v
    <3>1. IsCode(<<u>> \o A) /\ Len(<<u>> \o A) = 1 + Len(A)
      BY <1>1, CodeJoined
    <3>2. Len((<<u>> \o A) \o <<v>>) = 1 + Len(A) + 1
      BY <1>1, <3>1, CodeJoined
    <3>3. QED BY <1>1, <3>2
  <2>2. QED BY <2>1 DEF While
<1>3. \A c, d : Len(WhileEither(c, d, A)) > 0
  <2>1. \A t, u, v, w : Len(<<t, u, v>> \o (A \o <<w>>)) > 0
    <3> TAKE t, u, v, w
    <3>1. IsCode(A \o <<w>>) /\ Len(A \o <<w>>) = Len(A) + 1
      BY <1>1, CodeJoined
    <3>2. IsCode(<<t, u, v>>) /\ Len(<<t, u, v>>) = 3
      BY DEF IsCode, Range
    <3>3. Len(<<t, u, v>> \o (A \o <<w>>)) = 3 + (Len(A) + 1)
      BY <3>1, <3>2, CodeJoined
    <3>4. QED BY <1>1, <3>3
  <2>2. QED BY <2>1 DEF WhileEither, Either
<1>4. QED BY <1>2, <1>3, FlowRules

LEMMA MoreRules ==
    ASSUME NEW k
    PROVE  /\ \A x : Flows(Alloc(x), k)
           /\ \A v, c : v \notin CounterNames => Flows(RunServer(v, c), k)
<1>1. ASSUME NEW x
      PROVE  Flows(Alloc(x), k)
  <2>1. Flows(<<New(x)>>, k) /\ Flows(<<Return>>, k)
    BY StepRules, Listed
  <2>2. Flows(IfNot(x, <<Return>>), k)
    BY <2>1, FlowRules
  <2>3. QED BY <2>1, <2>2, FlowsJoined DEF Alloc
<1>2. ASSUME NEW v, NEW c, v \notin CounterNames
      PROVE  Flows(RunServer(v, c), k)
  <2>1. Flows(<<OrInto(v, Call({}, {"server"}))>>, k) /\ Flows(<<Wait(c)>>, k)
    BY <1>2, StepRules, Listed
  <2>2. Flows(IfNot(v, <<Wait(c)>>), k)
    BY <2>1, FlowRules
  <2>3. QED BY <2>1, <2>2, FlowsJoined DEF RunServer
<1>3. QED BY <1>1, <1>2

-----------------------------------------------------------------------------
(* Code in two parts, with a step x between them that is taken once.       *)

\* Step a of A is x; what is before it may do k and leads at most to it, what is behind
\* it may do l and stays there.
CutAt(A, a, k, x, l) ==
    /\ a \in DOMAIN A /\ A[a] = x
    /\ \A i \in 1 .. a - 1 : /\ Obeys(A[i], k)
                             /\ A[i].op \in Branches => A[i].skip \in -i .. (a - 1) - i
    /\ \A i \in a + 1 .. Len(A) : /\ Obeys(A[i], l)
                                  /\ A[i].op \in Branches => A[i].skip \in a - i .. Len(A) - i

Phased(A, k, x, l) == IsCode(A) /\ \E a \in DOMAIN A : CutAt(A, a, k, x, l)

LEMMA PhaseListed ==
    ASSUME NEW k, NEW x, NEW l
    PROVE  /\ Phased(<<x>>, k, x, l)
           /\ \A a1 : Act(a1, k) => Phased(<<a1, x>>, k, x, l)
           /\ \A a1, a2, a3 : Act(a1, k) /\ Act(a2, k) /\ Act(a3, k)
                                  => Phased(<<a1, a2, a3, x>>, k, x, l)
<1>1. Phased(<<x>>, k, x, l)
  BY DEF Phased, CutAt, IsCode, Range
<1>2. \A a1 : Act(a1, k) => Phased(<<a1, x>>, k, x, l)
  <2> TAKE a1
  <2>1. Act(a1, k) => CutAt(<<a1, x>>, 2, k, x, l)
    BY DEF CutAt, Act
  <2>2. IsCode(<<a1, x>>) /\ 2 \in DOMAIN <<a1, x>>
    BY DEF IsCode, Range
  <2>3. QED BY <2>1, <2>2 DEF Phased
<1>3. \A a1, a2, a3 : Act(a1, k) /\ Act(a2, k) /\ Act(a3, k) => Phased(<<a1, a2, a3, x>>, k, x, l)
  <2> TAKE a1, a2, a3
  <2>1. Act(a1, k) /\ Act(a2, k) /\ Act(a3, k) => CutAt(<<a1, a2, a3, x>>, 4, k, x, l)
    BY DEF CutAt, Act
  <2>2. IsCode(<<a1, a2, a3, x>>) /\ 4 \in DOMAIN <<a1, a2, a3, x>>
    BY DEF IsCode, Range
  <2>3. QED BY <2>1, <2>2 DEF Phased
<1>4. QED BY <1>1, <1>2, <1>3

LEMMA PhaseBefore ==
    ASSUME NEW Hd, NEW A, NEW k, NEW x, NEW l, Flows(Hd, k), Phased(A, k, x, l)
    PROVE  Phased(Hd \o A, k, x, l)
<1> DEFINE R == Hd \o A
           p == Len(Hd)
           n == Len(A)
<1>1. PICK a \in DOMAIN A : CutAt(A, a, k, x, l)
  BY DEF Phased
<1>2. /\ IsCode(Hd) /\ IsCode(A) /\ p \in Nat /\ n \in Nat
      /\ DOMAIN Hd = 1 .. p /\ DOMAIN A = 1 .. n /\ a \in 1 .. n
  BY CodeLength DEF Flows, Within, Phased
<1>3. /\ IsCode(R) /\ Len(R) = p + n /\ DOMAIN R = 1 .. p + n
      /\ \A i \in 1 .. p : R[i] = Hd[i]
      /\ \A i \in p + 1 .. p + n : R[i] = A[i - p]
  BY <1>2, CodeFacts
<1> HIDE DEF R, p, n
<1>4. p + a \in DOMAIN R /\ R[p + a] = x
  <2>1. p + a \in p + 1 .. p + n /\ (p + a) - p = a
    BY <1>2
  <2>2. QED BY <1>1, <1>2, <1>3, <2>1 DEF CutAt
<1>5. ASSUME NEW i \in 1 .. (p + a) - 1
      PROVE  /\ Obeys(R[i], k)
             /\ R[i].op \in Branches => R[i].skip \in -i .. ((p + a) - 1) - i
  <2>1. CASE i <= p
    <3>1. R[i] = Hd[i] /\ i \in DOMAIN Hd
      BY <1>2, <1>3, <2>1
    <3>2. Obeys(Hd[i], k) /\ (Hd[i].op \in Branches => Hd[i].skip \in -(0 + i) .. p - i)
      BY <3>1 DEF Flows, Within, p
    <3>3. QED BY <1>2, <3>1, <3>2
  <2>2. CASE i > p
    <3>1. R[i] = A[i - p] /\ i - p \in 1 .. a - 1
      BY <1>2, <1>3, <2>2
    <3>2. /\ Obeys(A[i - p], k)
          /\ A[i - p].op \in Branches => A[i - p].skip \in -(i - p) .. (a - 1) - (i - p)
      BY <1>1, <3>1 DEF CutAt
    <3>3. QED BY <1>2, <3>1, <3>2
  <2>3. QED BY <1>2, <2>1, <2>2
<1>6. ASSUME NEW i \in (p + a) + 1 .. Len(R)
      PROVE  /\ Obeys(R[i], l)
             /\ R[i].op \in Branches => R[i].skip \in (p + a) - i .. Len(R) - i
  <2>1. R[i] = A[i - p] /\ i - p \in a + 1 .. n
    BY <1>2, <1>3
  <2>2. /\ Obeys(A[i - p], l)
        /\ A[i - p].op \in Branches => A[i - p].skip \in a - (i - p) .. n - (i - p)
    BY <1>1, <2>1 DEF CutAt, n
  <2>3. QED BY <1>2, <1>3, <2>1, <2>2
<1>7. CutAt(R, p + a, k, x, l)
  BY <1>4, <1>5, <1>6 DEF CutAt
<1>8. QED BY <1>3, <1>4, <1>7 DEF Phased, R

LEMMA PhaseBehind ==
    ASSUME NEW A, NEW C, NEW k, NEW x, NEW l, Phased(A, k, x, l), Flows(C, l)
    PROVE  Phased(A \o C, k, x, l)
<1> DEFINE R == A \o C
           n == Len(A)
           q == Len(C)
<1>1. PICK a \in DOMAIN A : CutAt(A, a, k, x, l)
  BY DEF Phased
<1>2. /\ IsCode(C) /\ IsCode(A) /\ q \in Nat /\ n \in Nat
      /\ DOMAIN C = 1 .. q /\ DOMAIN A = 1 .. n /\ a \in 1 .. n
  BY CodeLength DEF Flows, Within, Phased
<1>3. /\ IsCode(R) /\ Len(R) = n + q /\ DOMAIN R = 1 .. n + q
      /\ \A i \in 1 .. n : R[i] = A[i]
      /\ \A i \in n + 1 .. n + q : R[i] = C[i - n]
  BY <1>2, CodeFacts
<1> HIDE DEF R, q, n
<1>4. a \in DOMAIN R /\ R[a] = x
  BY <1>1, <1>2, <1>3 DEF CutAt
<1>5. ASSUME NEW i \in 1 .. a - 1
      PROVE  /\ Obeys(R[i], k)
             /\ R[i].op \in Branches => R[i].skip \in -i .. (a - 1) - i
  <2>1. R[i] = A[i]
    BY <1>2, <1>3
  <2>2. QED BY <1>1, <2>1 DEF CutAt
<1>6. ASSUME NEW i \in a + 1 .. Len(R)
      PROVE  /\ Obeys(R[i], l)
             /\ R[i].op \in Branches => R[i].skip \in a - i .. Len(R) - i
  <2>1. CASE i <= n
    <3>1. R[i] = A[i] /\ i \in a + 1 .. n
      BY <1>2, <1>3, <2>1
    <3>2. Obeys(A[i], l) /\ (A[i].op \in Branches => A[i].skip \in a - i .. n - i)
      BY <1>1, <3>1 DEF CutAt, n
    <3>3. QED BY <1>2, <1>3, <3>1, <3>2
  <2>2. CASE i > n
    <3>1. R[i] = C[i - n] /\ i - n \in DOMAIN C
      BY <1>2, <1>3, <2>2
    <3>2. /\ Obeys(C[i - n], l)
          /\ C[i - n].op \in Branches => C[i - n].skip \in -(0 + (i - n)) .. q - (i - n)
      BY <3>1 DEF Flows, Within, q
    <3>3. QED BY <1>2, <1>3, <3>1, <3>2
  <2>3. QED BY <1>2, <1>3, <2>1, <2>2
<1>7. CutAt(R, a, k, x, l)
  BY <1>4, <1>5, <1>6 DEF CutAt
<1>8. QED BY <1>3, <1>4, <1>7 DEF Phased, R

-----------------------------------------------------------------------------
(* What a step does.                                                       *)

\* The counters beside V are as before.
Same(d, e, V) == /\ DOMAIN e = DOMAIN d
                 /\ \A v \in (CounterNames \cap DOMAIN d) \ V : e[v] = d[v]

\* Counter v is set to x.
Sets(d, e, v, x) == Same(d, e, {v}) /\ (v \in DOMAIN d => e[v] = x)

\* What code that may do k leaves of the variables.
Allowed(k) ==
    \/ Same(data, data', {})
    \/ \E name \in k.compute : data' \in Effect(prog, name, data)
    \/ \E v \in k.clear : Sets(data, data', v, 0)

\* From step n the control comes to step m.
Leads(A, n, m) ==
    \/ m = Land(A, n + 1)
    \/ A[n].op \in Branches /\ m = Land(A, n + 1 + A[n].skip)

LEMMA StepDoes ==
    ASSUME NEW t \in DOMAIN pc, NEW A, NEW k, A = Code(t), Step(t),
           pc \in [DOMAIN pc -> Int], Obeys(A[pc[t]], k), t \notin k.create
    PROVE  /\ exit = "no" /\ pc[t] \in DOMAIN A /\ prog' = prog
           /\ pc' = [u \in DOMAIN pc |-> pc'[u]]
           /\ (pc' = pc /\ Same(data, data', {})) \/ Leads(A, pc[t], pc'[t])
           /\ \A u \in DOMAIN pc \ {t} : pc'[u] = pc[u] \/ (u \in k.create /\ pc'[u] = 1)
           /\ Allowed(k)
           /\ exit' = "success" => \E v \in k.exit : ~Holds(v)
<1> DEFINE s == A[pc[t]]
           n == pc[t]
<1> HIDE DEF s
<1>0. /\ exit = "no" /\ n \in DOMAIN A /\ n \in Int
      /\ Perform(t, A, s) /\ Obeys(s, k)
  BY DEF Step, Running, Current, s
<1> DEFINE Goes(j) == /\ pc' = [u \in DOMAIN pc |-> pc'[u]]
                       /\ pc'[t] = Land(A, n + 1 + j)
                       /\ \A u \in DOMAIN pc \ {t} : pc'[u] = pc[u]
<1>a. ASSUME NEW j, Go(t, A, j)
      PROVE  Goes(j)
  <2>1. pc' = [pc EXCEPT ![t] = Land(A, n + 1 + j)]
    BY <1>a DEF Go
  <2>2. pc' = [u \in DOMAIN pc |-> pc'[u]]
    BY <2>1
  <2>3. QED BY <2>1, <2>2
<1>b. Goes(0) => /\ pc' = [u \in DOMAIN pc |-> pc'[u]]
                 /\ pc'[t] = Land(A, n + 1)
                 /\ \A u \in DOMAIN pc \ {t} : pc'[u] = pc[u]
  BY <1>0
<1> HIDE DEF Goes
<1>1. CASE Crash
  BY <1>0, <1>1 DEF Crash, Allowed, Same
<1>2. CASE Succeed(t, A, s) \/ Fail(t, A, s)
  <2>1. s.op = "call" /\ prog' = prog /\ exit' = exit
    BY <1>2 DEF Succeed, Fail
  <2>2. Go(t, A, 0)
    BY <1>2 DEF Succeed, Fail
  <2>3. s.to \notin CounterNames
    BY <1>0, <2>1 DEF Obeys
  <2>4. Same(data, data', {})
    <3>1. data' = Result(s, TRUE) \/ data' = Result(s, FALSE)
      BY <1>2 DEF Succeed, Fail
    <3>2. ASSUME NEW ok \in BOOLEAN PROVE Same(data, Result(s, ok), {})
      BY <2>3, Zenon DEF Result, Same
    <3>3. QED BY <3>1, <3>2
  <2>5. pc' = [u \in DOMAIN pc |-> pc'[u]] /\ pc'[t] = Land(A, n + 1)
          /\ \A u \in DOMAIN pc \ {t} : pc'[u] = pc[u]
    BY <2>2, <1>a, <1>b
  <2>6. QED BY <1>0, <2>1, <2>4, <2>5 DEF Allowed, Leads
<1>3. CASE Compute(t, A, s)
  <2>1. prog' = prog /\ exit' = exit /\ Go(t, A, 0)
    BY <1>3 DEF Compute
  <2>2. Allowed(k)
    <3>1. CASE s.op = "put" /\ data' = [data EXCEPT ![s.to] = s.skip]
      <4>1. CASE s.to \in CounterNames
        BY <1>0, <3>1, <4>1 DEF Obeys, Allowed, Sets, Same
      <4>2. CASE s.to \notin CounterNames
        BY <3>1, <4>2 DEF Same, Allowed
      <4>3. QED BY <4>1, <4>2
    <3>2. CASE s.op = "do" /\ data' \in Effect(prog, s.arg, data)
      BY <1>0, <3>2 DEF Obeys, Allowed
    <3>3. QED BY <1>3, <3>1, <3>2 DEF Compute
  <2>3. pc' = [u \in DOMAIN pc |-> pc'[u]] /\ pc'[t] = Land(A, n + 1)
          /\ \A u \in DOMAIN pc \ {t} : pc'[u] = pc[u]
    BY <2>1, <1>a, <1>b
  <2>4. QED BY <1>0, <2>1, <2>2, <2>3 DEF Leads
<1>4. CASE Branch(t, A, s)
  <2>1. /\ prog' = prog /\ exit' = exit /\ data' = data
        /\ s.op \in Branches /\ (Go(t, A, 0) \/ Go(t, A, s.skip))
    BY <1>4 DEF Branch, Branches
  <2>2. /\ pc' = [u \in DOMAIN pc |-> pc'[u]] /\ \A u \in DOMAIN pc \ {t} : pc'[u] = pc[u]
        /\ pc'[t] = Land(A, n + 1 + 0) \/ pc'[t] = Land(A, n + 1 + s.skip)
    BY <2>1 DEF Go
  <2>3. Leads(A, n, pc'[t])
    BY <1>0, <2>1, <2>2 DEF Leads, s
  <2>4. QED BY <1>0, <2>1, <2>2, <2>3 DEF Allowed, Same
<1>5. CASE Install(t, A, s)
  <2>1. prog' = prog /\ exit' = exit /\ data' = data /\ Goes(0)
    BY <1>5, <1>a DEF Install
  <2>2. QED BY <1>0, <1>b, <2>1 DEF Allowed, Same, Leads
<1>6. CASE Create(t, A, s)
  <2>1. /\ prog' = prog /\ exit' = exit /\ data' = data /\ s.op = "spawn" /\ s.arg \in k.create
        /\ \/ pc' = [pc EXCEPT ![t] = Land(A, @ + 1), ![s.arg] = 1]
           \/ Go(t, A, 0)
    BY <1>0, <1>6 DEF Create, Obeys
  <2>2. pc' = [u \in DOMAIN pc |-> pc'[u]] /\ pc'[t] = Land(A, n + 1)
    BY <1>0, <2>1 DEF Go
  <2>3. \A u \in DOMAIN pc \ {t} : pc'[u] = pc[u] \/ (u \in k.create /\ pc'[u] = 1)
    BY <2>1 DEF Go
  <2>4. QED BY <1>0, <2>1, <2>2, <2>3 DEF Allowed, Same, Leads
<1>7. CASE Await(t, A, s)
  <2>1. prog' = prog /\ exit' = exit /\ data' = data /\ Goes(0)
    BY <1>7, <1>a DEF Await
  <2>2. QED BY <1>0, <1>b, <2>1 DEF Allowed, Same, Leads
<1>8. CASE Finish(s)
  BY <1>0, <1>8 DEF Finish, Obeys, Allowed, Same
<1>9. QED
  BY <1>0, <1>1, <1>2, <1>3, <1>4, <1>5, <1>6, <1>7, <1>8 DEF Perform

-----------------------------------------------------------------------------

LEMMA Passing ==
    ASSUME NEW p, NEW d
    PROVE  /\ \A e \in RealtimeEffect(p, "clock_gettime", d) : Same(d, e, {})
           /\ \A e \in RealtimeEffect(p, "receive counter", d) : Sets(d, e, "SubCounter", d.message)
           /\ \A e \in RealtimeEffect(p, "pass counter", d) : Sets(d, e, "PubCounter", d.SubCounter)
           /\ \A e \in RealtimeEffect(p, "count on", d) :
                Sets(d, e, "PubCounter", Raise(p, d.PubCounter))
           /\ \A e \in RealtimeEffect(p, "press on", d) :
                Sets(d, e, "Pressure", Raise(p, d.Pressure))
           /\ \A e \in RealtimeEffect(p, "publish", d) : Sets(d, e, "published", d.PubCounter)
           /\ \A e \in RealtimeEffect(p, "publish counter", d) : Sets(d, e, "encoded", d.PubCounter)
           /\ \A e \in RealtimeEffect(p, "publish pressure", d) :
                Sets(d, e, "sent", <<d.encoded, d.Pressure>>)
           /\ \A e \in RealtimeEffect(p, "measure published", d) : Same(d, e, {})
           /\ \A e \in RealtimeEffect(p, "measure received", d) : Same(d, e, {})
           /\ \A e \in RealtimeEffect(p, "receive running", d) :
                \E m \in MayArrive(p, d) : Sets(d, e, "message", m)
<1>1. Same(d, d, {})
  BY DEF Same
<1>2. \A v, x : Sets(d, [d EXCEPT ![v] = x], v, x)
  BY DEF Sets, Same
<1>3. \A e \in RealtimeEffect(p, "clock_gettime", d) : Same(d, e, {})
  BY <1>1 DEF RealtimeEffect
<1>4. \A e \in RealtimeEffect(p, "receive counter", d) : Sets(d, e, "SubCounter", d.message)
  BY DEF RealtimeEffect, Sets, Same
<1>5. \A e \in RealtimeEffect(p, "pass counter", d) : Sets(d, e, "PubCounter", d.SubCounter)
  BY DEF RealtimeEffect, Sets, Same
<1>6. \A e \in RealtimeEffect(p, "count on", d) : Sets(d, e, "PubCounter", Raise(p, d.PubCounter))
  BY DEF RealtimeEffect, Sets, Same
<1>7. \A e \in RealtimeEffect(p, "press on", d) : Sets(d, e, "Pressure", Raise(p, d.Pressure))
  BY DEF RealtimeEffect, Sets, Same
<1>8. \A e \in RealtimeEffect(p, "publish", d) : Sets(d, e, "published", d.PubCounter)
  BY DEF RealtimeEffect, Sets, Same
<1>9. \A e \in RealtimeEffect(p, "publish counter", d) : Sets(d, e, "encoded", d.PubCounter)
  BY DEF RealtimeEffect, Sets, Same
<1>10. \A e \in RealtimeEffect(p, "publish pressure", d) :
         Sets(d, e, "sent", <<d.encoded, d.Pressure>>)
  BY DEF RealtimeEffect, Sets, Same
<1>11. \A e \in RealtimeEffect(p, "measure published", d) : Same(d, e, {})
  BY DEF RealtimeEffect, Measure, Same, CounterNames
<1>12. \A e \in RealtimeEffect(p, "measure received", d) : Same(d, e, {})
  BY DEF RealtimeEffect, Measure, Same, CounterNames
<1>13. \A e \in RealtimeEffect(p, "receive running", d) :
          \E m \in MayArrive(p, d) : Sets(d, e, "message", m)
  <2> TAKE e \in RealtimeEffect(p, "receive running", d)
  <2> DEFINE With(a) == [d EXCEPT !.message = a[1], !.peerRuns = a[2], !.RunningSub = a[2]]
  <2>1. \E a \in Arrivals(p, d) : e = With(a)
    BY Zenon DEF RealtimeEffect
  <2> HIDE DEF With
  <2>2. PICK a \in Arrivals(p, d) : e = With(a)
    BY <2>1, Zenon
  <2>3. Sets(d, e, "message", a[1])
    BY <2>2, Zenon DEF With, Sets, Same, CounterNames
  <2>4. QED BY <2>3, Zenon DEF Arrivals
<1>14. QED
  BY <1>3, <1>4, <1>5, <1>6, <1>7, <1>8, <1>9, <1>10, <1>11, <1>12, <1>13, Zenon

LEMMA Recorded ==
    ASSUME NEW p, NEW d, NEW e, NEW n, e = Record(p, d, n), {"recorded", "row"} \subseteq DOMAIN d
    PROVE  /\ Same(d, e, {"recorded", "row"})
           /\ \/ e.row = d.row /\ e.recorded = d.recorded
              \/ e.row = <<n, d.Pressure>> /\ e.recorded = d.recorded + 1
BY DEF Record, Same, CounterNames

LEMMA RecordEffects ==
    ASSUME NEW p, NEW d
    PROVE  /\ RealtimeEffect(p, "updateMeasurementsPublisher", d) = {Record(p, d, d.PubCounter)}
           /\ RealtimeEffect(p, "updateMeasurementsSubscriber", d) = {Record(p, d, d.SubCounter)}
BY DEF RealtimeEffect

LEMMA TakeEffects ==
    ASSUME NEW p, NEW d
    PROVE  /\ \A e \in RealtimeEffect(p, "take counter", d) :
                \E c \in d.SubCounter .. MaxCounter[p] : Sets(d, e, "SubCounter", c)
           /\ \A e \in RealtimeEffect(p, "take pressure", d) : Same(d, e, {"Pressure"})
<1>1. \A e \in RealtimeEffect(p, "take counter", d) :
        \E c \in d.SubCounter .. MaxCounter[p] : Sets(d, e, "SubCounter", c)
  BY DEF RealtimeEffect, Sets, Same
<1>2. \A e \in RealtimeEffect(p, "take pressure", d) : Same(d, e, {"Pressure"})
  BY DEF RealtimeEffect, Same
<1>3. QED BY <1>1, <1>2, Zenon

\* The control never comes back over a cut, and never jumps over it.
LEMMA Landing ==
    ASSUME NEW A, NEW a, NEW k, NEW x, NEW l, NEW n \in DOMAIN A, NEW m,
           IsCode(A), CutAt(A, a, k, x, l), x.op \notin Branches, Leads(A, n, m)
    PROVE  /\ m \in Int
           /\ n >= a => m > a
           /\ n < a => m <= a /\ m > 0
<1>1. /\ Len(A) \in Nat /\ DOMAIN A = 1 .. Len(A) /\ n \in Int /\ a \in Int
      /\ a \in DOMAIN A /\ A[a] = x
  BY CodeLength DEF CutAt
<1>2. \A i \in DOMAIN A : A[i].op = "jump" => A[i].op \in Branches
  BY DEF Branches
<1>3. ASSUME NEW i \in DOMAIN A, A[i].op \in Branches
      PROVE  /\ A[i].skip \in Int /\ i # a
             /\ i < a => A[i].skip >= -i /\ A[i].skip <= (a - 1) - i
             /\ i > a => A[i].skip >= a - i
  BY <1>1, <1>3 DEF CutAt
<1>4. ASSUME NEW j \in Int
      PROVE  /\ Land(A, j) \in Int
             /\ j > a => Land(A, j) > a
             /\ j <= a /\ j > 0 => Land(A, j) <= a /\ Land(A, j) > 0
  BY <1>1, <1>2, <1>3 DEF Land
<1>5. PICK j \in Int : /\ m = Land(A, j)
                       /\ n >= a => j > a
                       /\ n < a => j <= a /\ j > 0
  <2>1. CASE m = Land(A, n + 1)
    BY <1>1, <2>1
  <2>2. CASE A[n].op \in Branches /\ m = Land(A, n + 1 + A[n].skip)
    BY <1>1, <1>3, <2>2
  <2>3. QED BY <2>1, <2>2 DEF Leads
<1>6. QED BY <1>4, <1>5

LEMMA Flowing ==
    ASSUME NEW A, NEW k, NEW n \in DOMAIN A, NEW m, Flows(A, k), Leads(A, n, m)
    PROVE  m \in Int
<1>1. /\ Len(A) \in Nat /\ DOMAIN A = 1 .. Len(A) /\ n \in Int
  BY CodeLength DEF Flows, Within
<1>2. \A i \in DOMAIN A : A[i].op \in Branches => A[i].skip \in Int
  BY <1>1 DEF Flows, Within
<1>3. \A j \in Int : Land(A, j) \in Int
  BY <1>1, <1>2 DEF Land, Branches
<1>4. PICK j \in Int : m = Land(A, j)
  BY <1>1, <1>2 DEF Leads
<1>5. QED BY <1>3, <1>4

\* The step of a thread that creates none, sets nothing to zero and does not end the program.
LEMMA Working ==
    ASSUME NEW t \in DOMAIN pc, NEW D, Flows(Code(t), May(D, {}, {}, {})), Step(t),
           pc \in [DOMAIN pc -> Int]
    PROVE  /\ prog' = prog /\ pc' \in [DOMAIN pc -> Int] /\ pc[t] > 0
           /\ \A u \in DOMAIN pc \ {t} : pc'[u] = pc[u]
           /\ Same(data, data', {}) \/ \E name \in D : data' \in Effect(prog, name, data)
           /\ exit' # "success"
<1> DEFINE A == Code(t)
           k == May(D, {}, {}, {})
<1>1. k.compute = D /\ k.create = {} /\ k.clear = {} /\ k.exit = {}
  BY DEF May
<1>2. Len(A) \in Nat /\ DOMAIN A = 1 .. Len(A)
  BY CodeLength DEF Flows, Within
<1>3. pc[t] \in DOMAIN A
  BY DEF Step, Running
<1>4. Obeys(A[pc[t]], k)
  BY <1>3 DEF Flows, Within
<1> HIDE DEF k, A
<1>5. /\ prog' = prog /\ pc' = [u \in DOMAIN pc |-> pc'[u]]
      /\ pc' = pc \/ Leads(A, pc[t], pc'[t])
      /\ \A u \in DOMAIN pc \ {t} : pc'[u] = pc[u] \/ (u \in k.create /\ pc'[u] = 1)
      /\ Allowed(k)
      /\ exit' = "success" => \E v \in k.exit : ~Holds(v)
  BY <1>1, <1>4, StepDoes DEF A
<1>6. pc'[t] \in Int
  BY <1>3, <1>5, Flowing DEF A, k
<1>7. \A u \in DOMAIN pc \ {t} : pc'[u] = pc[u]
  BY <1>1, <1>5
<1>8. pc' \in [DOMAIN pc -> Int]
  BY <1>5, <1>6, <1>7
<1>9. pc[t] > 0
  BY <1>2, <1>3
<1>10. QED BY <1>1, <1>5, <1>7, <1>8, <1>9 DEF Allowed

\* The step of a thread that creates none and does not end the program, where it may
\* compute D and set Z to zero.
LEMMA Stepping ==
    ASSUME NEW t \in DOMAIN pc, NEW A, NEW D, NEW Z, A = Code(t), IsCode(A), Step(t),
           pc \in [DOMAIN pc -> Int], Obeys(A[pc[t]], May(D, {}, Z, {}))
    PROVE  /\ prog' = prog /\ pc[t] \in 1 .. Len(A)
           /\ pc' = [u \in DOMAIN pc |-> pc'[u]]
           /\ \A u \in DOMAIN pc \ {t} : pc'[u] = pc[u]
           /\ (pc' = pc /\ Same(data, data', {})) \/ Leads(A, pc[t], pc'[t])
           /\ \/ Same(data, data', {})
              \/ \E name \in D : data' \in Effect(prog, name, data)
              \/ \E v \in Z : Sets(data, data', v, 0)
           /\ exit' # "success"
<1> DEFINE k == May(D, {}, Z, {})
<1>1. k.compute = D /\ k.create = {} /\ k.clear = Z /\ k.exit = {} /\ Obeys(A[pc[t]], k)
  BY DEF May
<1> HIDE DEF k
<1>2. /\ pc[t] \in DOMAIN A /\ prog' = prog
      /\ pc' = [u \in DOMAIN pc |-> pc'[u]]
      /\ (pc' = pc /\ Same(data, data', {})) \/ Leads(A, pc[t], pc'[t])
      /\ \A u \in DOMAIN pc \ {t} : pc'[u] = pc[u] \/ (u \in k.create /\ pc'[u] = 1)
      /\ Allowed(k)
      /\ exit' = "success" => \E v \in k.exit : ~Holds(v)
  BY <1>1, StepDoes
<1>3. pc[t] \in 1 .. Len(A)
  BY <1>2, CodeLength
<1>4. QED BY <1>1, <1>2, <1>3 DEF Allowed

\* The step of a thread that computes something.
LEMMA Doing ==
    ASSUME NEW t \in DOMAIN pc, NEW A, A = Code(t), Step(t), A[pc[t]].op = "do"
    PROVE  pc' = pc \/ data' \in Effect(prog, A[pc[t]].arg, data)
BY DEF Step, Current, Perform, Crash, Succeed, Fail, Compute, Branch, Install, Create, Await,
       Finish

\* The step of a thread that looks at a variable.
LEMMA Testing ==
    ASSUME NEW t \in DOMAIN pc, NEW A, A = Code(t), Step(t), A[pc[t]].op = "unless",
           A[pc[t]].arg # "choice", pc \in [DOMAIN pc -> Int]
    PROVE  \/ pc' = pc
           \/ pc'[t] = Land(A, pc[t] + 1) /\ Holds(A[pc[t]].arg)
           \/ pc'[t] = Land(A, pc[t] + 1 + A[pc[t]].skip)
<1> DEFINE s == A[pc[t]]
<1>1. Perform(t, A, s)
  BY DEF Step, Current
<1>2. s.op = "unless" /\ s.arg # "choice"
  OBVIOUS
<1> HIDE DEF s
<1>3. CASE Crash
  BY <1>3 DEF Crash
<1>4. CASE Branch(t, A, s)
  <2>1. (Go(t, A, 0) /\ Holds(s.arg)) \/ Go(t, A, s.skip)
    BY <1>2, <1>4 DEF Branch
  <2>2. ASSUME NEW j, Go(t, A, j) PROVE pc'[t] = Land(A, pc[t] + 1 + j)
    BY <2>2 DEF Go
  <2>3. Land(A, pc[t] + 1 + 0) = Land(A, pc[t] + 1)
    OBVIOUS
  <2>4. QED BY <2>1, <2>2, <2>3 DEF s
<1>5. QED
  BY <1>1, <1>2, <1>3, <1>4
  DEF Perform, Succeed, Fail, Compute, Install, Create, Await, Finish

\* The step of a thread whose code is in two parts.
LEMMA Phasing ==
    ASSUME NEW t \in DOMAIN pc, NEW a, NEW k, NEW x, NEW l, NEW b,
           IsCode(Code(t)), CutAt(Code(t), a, k, x, l), Act(x, b), Step(t),
           pc \in [DOMAIN pc -> Int], t \notin k.create, t \notin b.create, t \notin l.create
    PROVE  /\ prog' = prog /\ pc' \in [DOMAIN pc -> Int] /\ pc[t] > 0
           /\ pc' = pc \/ (pc[t] < a /\ pc'[t] <= a) \/ (pc[t] >= a /\ pc'[t] > a)
           /\ \E m \in {k, b, l} :
                /\ m = IF pc[t] < a THEN k ELSE IF pc[t] = a THEN b ELSE l
                /\ \A u \in DOMAIN pc \ {t} : pc'[u] = pc[u] \/ (u \in m.create /\ pc'[u] = 1)
                /\ Allowed(m)
                /\ exit' = "success" => \E v \in m.exit : ~Holds(v)
<1> DEFINE A == Code(t)
           m == IF pc[t] < a THEN k ELSE IF pc[t] = a THEN b ELSE l
<1>1. Len(A) \in Nat /\ DOMAIN A = 1 .. Len(A) /\ a \in DOMAIN A /\ A[a] = x /\ x.op \notin Branches
  BY CodeLength DEF CutAt, Act
<1>2. pc[t] \in DOMAIN A
  BY DEF Step, Running
<1>3. Obeys(A[pc[t]], m) /\ t \notin m.create /\ m \in {k, b, l}
  BY <1>1, <1>2 DEF CutAt, Act
<1> HIDE DEF m, A
<1>4. /\ prog' = prog /\ pc' = [u \in DOMAIN pc |-> pc'[u]]
      /\ pc' = pc \/ Leads(A, pc[t], pc'[t])
      /\ \A u \in DOMAIN pc \ {t} : pc'[u] = pc[u] \/ (u \in m.create /\ pc'[u] = 1)
      /\ Allowed(m)
      /\ exit' = "success" => \E v \in m.exit : ~Holds(v)
  BY <1>3, StepDoes DEF A
<1>5. /\ pc'[t] \in Int
      /\ pc' = pc \/ (pc[t] < a /\ pc'[t] <= a) \/ (pc[t] >= a /\ pc'[t] > a)
  <2>1. CASE pc' = pc
    BY <2>1
  <2>2. CASE Leads(A, pc[t], pc'[t])
    <3>1. IsCode(A) /\ CutAt(A, a, k, x, l)
      BY DEF A
    <3>2. pc[t] \in Int /\ a \in Int
      BY <1>1, <1>2
    <3>3. /\ pc'[t] \in Int
          /\ pc[t] >= a => pc'[t] > a
          /\ pc[t] < a => pc'[t] <= a
      BY <1>1, <1>2, <2>2, <3>1, Landing
    <3>4. QED BY <3>2, <3>3
  <2>3. QED BY <1>4, <2>1, <2>2
<1>6. pc' \in [DOMAIN pc -> Int]
  <2>1. \A u \in DOMAIN pc : pc'[u] \in Int
    BY <1>4, <1>5
  <2>2. QED BY <1>4, <2>1
<1>7. m = IF pc[t] < a THEN k ELSE IF pc[t] = a THEN b ELSE l
  BY DEF m
<1>8. QED BY <1>1, <1>2, <1>3, <1>4, <1>5, <1>6, <1>7

\* The step of main() where it has two parts: it may clear Z and create B in the first,
\* creates C with the step between them, and may create F and compute D in the second.
LEMMA Preparing ==
    ASSUME NEW a, NEW x, NEW B, NEW C, NEW F, NEW D, NEW X, NEW Y, NEW Z,
           "main" \in DOMAIN pc, IsCode(Code("main")),
           CutAt(Code("main"), a, May({}, B, Z, X), x, May(D, F, {}, Y)),
           Act(x, May({}, C, {}, {})), Step("main"), pc \in [DOMAIN pc -> Int],
           "main" \notin B, "main" \notin C, "main" \notin F
    PROVE  /\ prog' = prog /\ pc' \in [DOMAIN pc -> Int] /\ pc["main"] > 0
           /\ \/ pc' = pc
              \/ pc["main"] < a /\ pc'["main"] <= a
              \/ pc["main"] >= a /\ pc'["main"] > a
           /\ \A u \in DOMAIN pc \ {"main"} :
                \/ pc'[u] = pc[u]
                \/ /\ pc'[u] = 1
                   /\ \/ pc["main"] < a /\ u \in B
                      \/ pc["main"] = a /\ u \in C
                      \/ pc["main"] > a /\ u \in F
           /\ \/ Same(data, data', {})
              \/ pc["main"] < a /\ \E v \in Z : Sets(data, data', v, 0)
              \/ pc["main"] > a /\ \E name \in D : data' \in Effect(prog, name, data)
<1> DEFINE k == May({}, B, Z, X)
           b == May({}, C, {}, {})
           l == May(D, F, {}, Y)
<1>1. /\ k.compute = {} /\ k.create = B /\ k.clear = Z
      /\ b.compute = {} /\ b.create = C /\ b.clear = {}
      /\ l.compute = D /\ l.create = F /\ l.clear = {}
  BY DEF May
<1>2. CutAt(Code("main"), a, k, x, l) /\ Act(x, b)
  OBVIOUS
<1> HIDE DEF k, b, l
<1>3. /\ prog' = prog /\ pc' \in [DOMAIN pc -> Int] /\ pc["main"] > 0
      /\ \/ pc' = pc
         \/ pc["main"] < a /\ pc'["main"] <= a
         \/ pc["main"] >= a /\ pc'["main"] > a
      /\ \E m \in {k, b, l} :
           /\ m = IF pc["main"] < a THEN k ELSE IF pc["main"] = a THEN b ELSE l
           /\ \A u \in DOMAIN pc \ {"main"} : pc'[u] = pc[u] \/ (u \in m.create /\ pc'[u] = 1)
           /\ Allowed(m)
  BY <1>1, <1>2, Phasing
<1>4. PICK m \in {k, b, l} :
           /\ m = IF pc["main"] < a THEN k ELSE IF pc["main"] = a THEN b ELSE l
           /\ \A u \in DOMAIN pc \ {"main"} : pc'[u] = pc[u] \/ (u \in m.create /\ pc'[u] = 1)
           /\ Allowed(m)
  BY <1>3
<1>5. a \in Int /\ pc["main"] \in Int
  BY <1>2, CodeLength DEF CutAt
<1>6. CASE pc["main"] < a
  BY <1>1, <1>3, <1>4, <1>5, <1>6 DEF Allowed
<1>7. CASE pc["main"] = a
  BY <1>1, <1>3, <1>4, <1>5, <1>7 DEF Allowed
<1>8. CASE pc["main"] > a
  BY <1>1, <1>3, <1>4, <1>5, <1>8 DEF Allowed
<1>9. QED BY <1>5, <1>6, <1>7, <1>8

\* The step of a thread that starts by setting Z to zero, after D and before E.
LEMMA Clearing ==
    ASSUME NEW t \in DOMAIN pc, NEW a, NEW x, NEW D, NEW E, NEW Z, IsCode(Code(t)),
           CutAt(Code(t), a, May(D, {}, {}, {}), x, May(E, {}, {}, {})),
           Act(x, May({}, {}, Z, {})), Step(t), pc \in [DOMAIN pc -> Int]
    PROVE  /\ prog' = prog /\ pc' \in [DOMAIN pc -> Int] /\ pc[t] > 0
           /\ pc' = pc \/ (pc[t] < a /\ pc'[t] <= a) \/ (pc[t] >= a /\ pc'[t] > a)
           /\ \A u \in DOMAIN pc \ {t} : pc'[u] = pc[u]
           /\ \/ Same(data, data', {})
              \/ pc[t] < a /\ \E name \in D : data' \in Effect(prog, name, data)
              \/ pc[t] = a /\ \E v \in Z : Sets(data, data', v, 0)
              \/ pc[t] > a /\ \E name \in E : data' \in Effect(prog, name, data)
           /\ exit' # "success"
<1> DEFINE k == May(D, {}, {}, {})
           b == May({}, {}, Z, {})
           l == May(E, {}, {}, {})
<1>1. /\ k.compute = D /\ k.create = {} /\ k.clear = {} /\ k.exit = {}
      /\ b.compute = {} /\ b.create = {} /\ b.clear = Z /\ b.exit = {}
      /\ l.compute = E /\ l.create = {} /\ l.clear = {} /\ l.exit = {}
  BY DEF May
<1>2. CutAt(Code(t), a, k, x, l) /\ Act(x, b)
  OBVIOUS
<1> HIDE DEF k, b, l
<1>3. /\ prog' = prog /\ pc' \in [DOMAIN pc -> Int] /\ pc[t] > 0
      /\ pc' = pc \/ (pc[t] < a /\ pc'[t] <= a) \/ (pc[t] >= a /\ pc'[t] > a)
      /\ \E m \in {k, b, l} :
           /\ m = IF pc[t] < a THEN k ELSE IF pc[t] = a THEN b ELSE l
           /\ \A u \in DOMAIN pc \ {t} : pc'[u] = pc[u] \/ (u \in m.create /\ pc'[u] = 1)
           /\ Allowed(m)
           /\ exit' = "success" => \E v \in m.exit : ~Holds(v)
  BY <1>1, <1>2, Phasing
<1>4. PICK m \in {k, b, l} :
           /\ m = IF pc[t] < a THEN k ELSE IF pc[t] = a THEN b ELSE l
           /\ \A u \in DOMAIN pc \ {t} : pc'[u] = pc[u] \/ (u \in m.create /\ pc'[u] = 1)
           /\ Allowed(m)
           /\ exit' = "success" => \E v \in m.exit : ~Holds(v)
  BY <1>3
<1>5. a \in Int /\ pc[t] \in Int
  BY <1>2, CodeLength DEF CutAt
<1>6. exit' # "success" /\ \A u \in DOMAIN pc \ {t} : pc'[u] = pc[u]
  BY <1>1, <1>4
<1>7. CASE pc[t] < a
  BY <1>1, <1>3, <1>4, <1>5, <1>6, <1>7 DEF Allowed
<1>8. CASE pc[t] = a
  BY <1>1, <1>3, <1>4, <1>5, <1>6, <1>8 DEF Allowed
<1>9. CASE pc[t] > a
  BY <1>1, <1>3, <1>4, <1>5, <1>6, <1>9 DEF Allowed
<1>10. QED BY <1>5, <1>7, <1>8, <1>9

\* A signal leaves the counters and the threads alone.
LEMMA Interrupted ==
    ASSUME Sigint, DOMAIN Programs[prog].handler \cap CounterNames = {}
    PROVE  Same(data, data', {}) /\ pc' = pc /\ prog' = prog /\ exit' # "success"
BY DEF Sigint, Same

EffectsGiven ==
    \A p \in RealtimeNames : \A name, d : Effect(p, name, d) = RealtimeEffect(p, name, d)

LEMMA NamesGiven ==
    /\ RealtimeNames =
         {"loopback", "publisher", "single", "multiple", "nodesetPublisher", "nodesetSubscriber"}
    /\ \A p \in RealtimeNames : MaxCounter[p] \in Nat
<1>1. DOMAIN RealtimePrograms =
        {"loopback", "publisher", "single", "multiple", "nodesetPublisher", "nodesetSubscriber"}
  BY DEF RealtimePrograms
<1>2. QED BY <1>1, BoundsAssumption DEF RealtimeNames

-----------------------------------------------------------------------------
(* What the computations do to the counters of the time-sensitive programs. *)

Counted == {"published", "PubCounter", "SubCounter", "message"}

\* A loopback publishes what it passed on of what it took from what came.
Echoes(d) == /\ Counted \subseteq DOMAIN d /\ \A v \in Counted : d[v] \in Nat
             /\ d.published <= d.PubCounter
             /\ d.PubCounter <= d.SubCounter
             /\ d.SubCounter <= d.message

\* A publisher gets back what it published of what it counted.
Returns(d) == /\ Counted \subseteq DOMAIN d /\ \A v \in Counted : d[v] \in Nat
              /\ d.SubCounter <= d.message
              /\ d.message <= d.published
              /\ d.published <= d.PubCounter

\* What neither goes back on.
Onward(d, e) == /\ d.published <= e.published
                /\ d.SubCounter <= e.SubCounter

LoopbackNames ==
    {"clock_gettime", "measure published", "measure received", "publish", "receive running",
     "receive counter", "pass counter"}

PublisherNames ==
    {"clock_gettime", "measure published", "measure received", "publish", "receive running",
     "receive counter", "count on"}

LEMMA EchoMoves ==
    ASSUME NEW d, NEW e, Echoes(d)
    PROVE  /\ Same(d, e, {}) => Echoes(e) /\ Onward(d, e) /\ e.message = d.message
           /\ Sets(d, e, "published", d.PubCounter)
                => Echoes(e) /\ Onward(d, e) /\ e.message = d.message
           /\ Sets(d, e, "PubCounter", d.SubCounter)
                => Echoes(e) /\ Onward(d, e) /\ e.message = d.message
           /\ Sets(d, e, "SubCounter", d.message)
                => Echoes(e) /\ Onward(d, e) /\ e.message = d.message
           /\ \A m \in Nat : m >= d.message /\ Sets(d, e, "message", m) => Echoes(e) /\ Onward(d, e)
           /\ d.message = 0 => \A v \in {"PubCounter", "SubCounter"} : Sets(d, e, v, 0)
                => Echoes(e) /\ Onward(d, e) /\ e.message = d.message
<1>0. /\ d.published \in Nat /\ d.PubCounter \in Nat /\ d.SubCounter \in Nat /\ d.message \in Nat
      /\ d.published <= d.PubCounter /\ d.PubCounter <= d.SubCounter /\ d.SubCounter <= d.message
      /\ Counted \subseteq DOMAIN d
  BY DEF Echoes, Counted
<1> USE <1>0 DEF Echoes, Counted, Onward, Same, Sets, CounterNames
<1>1. Same(d, e, {}) => Echoes(e) /\ Onward(d, e) /\ e.message = d.message
  OBVIOUS
<1>2. Sets(d, e, "published", d.PubCounter) => Echoes(e) /\ Onward(d, e) /\ e.message = d.message
  OBVIOUS
<1>3. Sets(d, e, "PubCounter", d.SubCounter) => Echoes(e) /\ Onward(d, e) /\ e.message = d.message
  OBVIOUS
<1>4. Sets(d, e, "SubCounter", d.message) => Echoes(e) /\ Onward(d, e) /\ e.message = d.message
  OBVIOUS
<1>5. \A m \in Nat : m >= d.message /\ Sets(d, e, "message", m) => Echoes(e) /\ Onward(d, e)
  OBVIOUS
<1>6. d.message = 0 => \A v \in {"PubCounter", "SubCounter"} : Sets(d, e, v, 0)
        => Echoes(e) /\ Onward(d, e) /\ e.message = d.message
  OBVIOUS
<1>7. QED BY ONLY <1>1, <1>2, <1>3, <1>4, <1>5, <1>6

LEMMA ReturnMoves ==
    ASSUME NEW d, NEW e, Returns(d)
    PROVE  /\ Same(d, e, {}) => Returns(e) /\ Onward(d, e) /\ e.PubCounter = d.PubCounter
           /\ Sets(d, e, "published", d.PubCounter)
                => Returns(e) /\ Onward(d, e) /\ e.PubCounter = d.PubCounter
           /\ \A n \in Nat : n >= d.PubCounter /\ Sets(d, e, "PubCounter", n)
                => Returns(e) /\ Onward(d, e)
           /\ Sets(d, e, "SubCounter", d.message)
                => Returns(e) /\ Onward(d, e) /\ e.PubCounter = d.PubCounter
           /\ \A m \in Nat : m >= d.message /\ m <= d.published /\ Sets(d, e, "message", m)
                => Returns(e) /\ Onward(d, e) /\ e.PubCounter = d.PubCounter
           /\ d.PubCounter = 0 => \A v \in {"PubCounter", "SubCounter"} : Sets(d, e, v, 0)
                => Returns(e) /\ Onward(d, e) /\ e.PubCounter = d.PubCounter
<1>0. /\ d.published \in Nat /\ d.PubCounter \in Nat /\ d.SubCounter \in Nat /\ d.message \in Nat
      /\ d.SubCounter <= d.message /\ d.message <= d.published /\ d.published <= d.PubCounter
      /\ Counted \subseteq DOMAIN d
  BY DEF Returns, Counted
<1> USE <1>0 DEF Returns, Counted, Onward, Same, Sets, CounterNames
<1>1. Same(d, e, {}) => Returns(e) /\ Onward(d, e) /\ e.PubCounter = d.PubCounter
  OBVIOUS
<1>2. Sets(d, e, "published", d.PubCounter)
        => Returns(e) /\ Onward(d, e) /\ e.PubCounter = d.PubCounter
  OBVIOUS
<1>3. \A n \in Nat : n >= d.PubCounter /\ Sets(d, e, "PubCounter", n) => Returns(e) /\ Onward(d, e)
  OBVIOUS
<1>4. Sets(d, e, "SubCounter", d.message)
        => Returns(e) /\ Onward(d, e) /\ e.PubCounter = d.PubCounter
  OBVIOUS
<1>5. \A m \in Nat : m >= d.message /\ m <= d.published /\ Sets(d, e, "message", m)
        => Returns(e) /\ Onward(d, e) /\ e.PubCounter = d.PubCounter
  OBVIOUS
<1>6. d.PubCounter = 0 => \A v \in {"PubCounter", "SubCounter"} : Sets(d, e, v, 0)
        => Returns(e) /\ Onward(d, e) /\ e.PubCounter = d.PubCounter
  OBVIOUS
<1>7. QED BY ONLY <1>1, <1>2, <1>3, <1>4, <1>5, <1>6

LEMMA EchoesOn ==
    ASSUME NEW p, p = "loopback", NEW d, NEW e, Echoes(d),
           NEW name \in LoopbackNames, e \in RealtimeEffect(p, name, d)
    PROVE  /\ Echoes(e) /\ Onward(d, e)
           /\ name # "receive running" => e.message = d.message
<1>0. \A m \in MayArrive(p, d) : m \in Nat /\ m >= d.message
  BY NamesGiven DEF MayArrive, Echoes, Counted
<1>1. CASE name \in {"clock_gettime", "measure published", "measure received"}
  <2>1. Same(d, e, {})
    BY <1>1, Passing, Zenon
  <2>2. QED BY <1>1, <2>1, EchoMoves, Zenon
<1>2. CASE name = "publish"
  <2>1. Sets(d, e, "published", d.PubCounter)
    BY <1>2, Passing, Zenon
  <2>2. QED BY <1>2, <2>1, EchoMoves
<1>3. CASE name = "receive counter"
  <2>1. Sets(d, e, "SubCounter", d.message)
    BY <1>3, Passing, Zenon
  <2>2. QED BY <1>3, <2>1, EchoMoves, Zenon
<1>4. CASE name = "receive running"
  <2>1. \E m \in MayArrive(p, d) : Sets(d, e, "message", m)
    BY <1>4, Passing, Zenon
  <2>2. \E m \in Nat : m >= d.message /\ Sets(d, e, "message", m)
    BY <1>0, <2>1
  <2>3. QED BY <1>4, <2>1, <2>2, EchoMoves, Zenon
<1>5. CASE name = "pass counter"
  <2>1. Sets(d, e, "PubCounter", d.SubCounter)
    BY <1>5, Passing, Zenon
  <2>2. QED BY <1>5, <2>1, EchoMoves, Zenon
<1>6. QED BY <1>1, <1>2, <1>3, <1>4, <1>5, Zenon DEF LoopbackNames

LEMMA ReturnsOn ==
    ASSUME NEW p, p = "publisher", NEW d, NEW e, Returns(d),
           NEW name \in PublisherNames, e \in RealtimeEffect(p, name, d)
    PROVE  /\ Returns(e) /\ Onward(d, e)
           /\ name # "count on" => e.PubCounter = d.PubCounter
<1>0. \A m \in MayArrive(p, d) : m \in Nat /\ m >= d.message /\ m <= d.published
  BY DEF MayArrive, Returns, Counted
<1>k. Raise(p, d.PubCounter) \in Nat /\ Raise(p, d.PubCounter) >= d.PubCounter
  BY NamesGiven DEF Raise, Returns, Counted
<1>1. CASE name \in {"clock_gettime", "measure published", "measure received"}
  <2>1. Same(d, e, {})
    BY <1>1, Passing, Zenon
  <2>2. QED BY <1>1, <2>1, ReturnMoves, Zenon
<1>2. CASE name = "publish"
  <2>1. Sets(d, e, "published", d.PubCounter)
    BY <1>2, Passing, Zenon
  <2>2. QED BY <1>2, <2>1, ReturnMoves
<1>3. CASE name = "receive counter"
  <2>1. Sets(d, e, "SubCounter", d.message)
    BY <1>3, Passing, Zenon
  <2>2. QED BY <1>3, <2>1, ReturnMoves, Zenon
<1>4. CASE name = "receive running"
  <2>1. \E m \in MayArrive(p, d) : Sets(d, e, "message", m)
    BY <1>4, Passing, Zenon
  <2>2. \E m \in Nat : m >= d.message /\ m <= d.published /\ Sets(d, e, "message", m)
    BY <1>0, <2>1
  <2>3. QED BY <1>4, <2>1, <2>2, ReturnMoves, Zenon
<1>5. CASE name = "count on"
  <2>1. Sets(d, e, "PubCounter", Raise(p, d.PubCounter))
    BY <1>5, Passing, Zenon
  <2>2. \E n \in Nat : n >= d.PubCounter /\ Sets(d, e, "PubCounter", n)
    BY <1>k, <2>1
  <2>3. QED BY <1>5, <2>1, <2>2, ReturnMoves, Zenon
<1>6. QED BY <1>1, <1>2, <1>3, <1>4, <1>5, Zenon DEF PublisherNames

\* What the nodeset's programs do not go back on.
Rises(d, e) == e.row[1] >= d.row[1] /\ e.sent[1] >= d.sent[1]

Endings == {"failure", "success", "retval"}
CounterPuts == {"PubCounter", "SubCounter"}
Receiving == {"receive running", "receive counter"}

LEMMA LSteps ==
    /\ \A m, n : L!Call(m, n) = Call(m, n)
    /\ \A s : L!Sure(s) = Sure(s)
    /\ \A v, s : L!Into(v, s) = Into(v, s)
    /\ \A v, s : L!OrInto(v, s) = OrInto(v, s)
    /\ \A m : L!Deref(m) = Deref(m)
    /\ \A m : L!Free(m) = Free(m)
    /\ \A m, s : L!Reads(m, s) = Reads(m, s)
    /\ \A m, s : L!ReadsFirst(m, s) = ReadsFirst(m, s)
    /\ \A v, n : L!Put(v, n) = Put(v, n)
    /\ \A v : L!Do(v) = Do(v)
    /\ L!Signal = Signal
    /\ \A v : L!Spawn(v) = Spawn(v)
    /\ \A v : L!Wait(v) = Wait(v)
    /\ \A v : L!Join(v) = Join(v)
    /\ \A v : L!Exit(v) = Exit(v)
    /\ L!Return = Return
    /\ \A v, s : L!If(v, s) = If(v, s)
    /\ \A v, s : L!IfNot(v, s) = IfNot(v, s)
    /\ \A v, s : L!While(v, s) = While(v, s)
    /\ \A v, n, s : L!Either(v, n, s) = Either(v, n, s)
    /\ \A v, n, s : L!WhileEither(v, n, s) = WhileEither(v, n, s)
    /\ \A s : L!Maybe(s) = Maybe(s)
    /\ \A v : L!New(v) = New(v)
    /\ \A v : L!Alloc(v) = Alloc(v)
    /\ \A v, n : L!RunServer(v, n) = RunServer(v, n)
    /\ \A s : L!Fn(s) = Fn(s)
BY DEF L!Call, Call, L!Sure, Sure, L!Into, Into, L!OrInto, OrInto, L!Deref, Deref, L!Free, Free,
         L!Reads, Reads, L!ReadsFirst, ReadsFirst, L!Put, Put, L!Do, Do, L!Signal, Signal,
           L!Spawn, Spawn, L!Wait, Wait, L!Join, Join, L!Exit, Exit, L!Return, Return, L!If, If,
             L!IfNot, IfNot, L!While, While, L!Either, Either, L!WhileEither, WhileEither,
               L!Maybe, Maybe, L!New, New, L!Alloc, Alloc, L!RunServer, RunServer, L!Fn, Fn,
                 L!Blank, Blank, L!Unless, Unless, L!Jump, Jump

LEMMA LPieces ==
    ASSUME NEW k, {"failure", "success", "retval"} \subseteq k.exit
    PROVE  /\ Flows(L!Options, k) /\ Flows(L!addServerNodes, k) /\ Flows(L!removeServerNodes, k)
           /\ Flows(L!addPubSubConnection, k) /\ Flows(L!addPublishedDataSet, k)
           /\ Flows(L!addDataSetWriter, k) /\ Flows(L!addPubSubConnectionSubscriber, k)
           /\ Flows(L!addReaderGroup, k)
           /\ "PubCounter" \in k.clear => Flows(L!_addDataSetField, k)
           /\ "SubCounter" \in k.clear => Flows(L!addDataSetReader, k)
           /\ \A v : \A t \in k.create : Flows(L!addPubSubApplicationCallback(v, t), k)
           /\ \A t \in k.create : Flows(L!threadCreation(t), k)
           /\ "publisher" \in k.create => Flows(L!addWriterGroup, k)
           /\ Receiving \subseteq k.compute => Flows(L!Run, k)
           /\ Flows(L!CleanUp, k)
<1> USE StepRules, Listed, FlowRules, FlowsJoined, MoreRules
<1> USE LSteps DEF CounterNames
<1>1. Flows(L!Options, k)
  BY DEF L!Options
<1>2. Flows(L!addServerNodes, k)
  BY ZenonT(40) DEF L!addServerNodes, L!Node
<1>3. Flows(L!removeServerNodes, k)
  BY DEF L!removeServerNodes
<1>4. "PubCounter" \in k.clear => Flows(L!_addDataSetField, k)
  BY ZenonT(40) DEF L!_addDataSetField, L!Field, L!Backend
<1>5. "SubCounter" \in k.clear => Flows(L!addDataSetReader, k)
  <2>1. "SubCounter" \in k.clear => Flows(L!addSubscribedVariables, k)
    BY DEF L!addSubscribedVariables, L!Backend
  <2>2. QED BY <2>1 DEF L!addDataSetReader
<1>6. \A v : Flows(L!removePubSubApplicationCallback(v), k)
  BY DEF L!removePubSubApplicationCallback
<1>7. \A t \in k.create : Flows(L!threadCreation(t), k)
  BY DEF L!threadCreation
<1>8. \A v : \A t \in k.create : Flows(L!addPubSubApplicationCallback(v, t), k)
  BY <1>7 DEF L!addPubSubApplicationCallback
<1>9. ASSUME Receiving \subseteq k.compute
      PROVE  Flows(L!Run, k)
  <2> DEFINE B == <<L!Reads({"server"}, L!Do("receive running")), L!Do("receive counter")>>
             G == L!If("operational", L!If("reader", L!If("targetVariables", B)))
  <2>1. Act(Do("receive running"), k) /\ Act(Do("receive counter"), k)
    BY <1>9, StepRules, Zenon DEF Receiving
  <2>2. Act(Reads({"server"}, Do("receive running")), k)
    BY <2>1, StepRules, Zenon
  <2>3. B = <<Reads({"server"}, Do("receive running")), Do("receive counter")>>
    BY ONLY LSteps, Zenon
  <2>4. Flows(B, k)
    BY <2>1, <2>2, <2>3, Listed, Zenon
  <2> HIDE DEF B
  <2>5. Flows(G, k)
    BY ONLY <2>4, FlowRules, LSteps
  <2> HIDE DEF G
  <2>6. Flows(L!IfNot("retval", L!While("runningServer", G)), k)
    BY ONLY <2>5, FlowRules, LSteps
  <2>7. /\ Flows(<<L!OrInto("retval", L!Call({}, {"server"}))>>, k)
        /\ Flows(<<L!Call({}, {"readerGroup"}), L!Join("user")>>, k)
    BY ONLY StepRules, Listed, LSteps DEF CounterNames
  <2>8. L!Serve = <<L!OrInto("retval", L!Call({}, {"server"}))>>
                  \o L!IfNot("retval", L!While("runningServer", G))
    BY ONLY Zenon DEF L!Serve, G, B
  <2>9. QED BY ONLY <2>6, <2>7, <2>8, FlowsJoined, Zenon DEF L!Run
<1>10. Flows(L!CleanUp, k)
  BY <1>3, <1>6 DEF L!CleanUp
<1>11. /\ Flows(L!addPubSubConnection, k) /\ Flows(L!addPublishedDataSet, k)
       /\ Flows(L!addDataSetWriter, k) /\ Flows(L!addPubSubConnectionSubscriber, k)
       /\ Flows(L!addReaderGroup, k)
  BY DEF L!addPubSubConnection, L!addPublishedDataSet, L!addDataSetWriter,
         L!addPubSubConnectionSubscriber, L!addReaderGroup
<1>12. "publisher" \in k.create => Flows(L!addWriterGroup, k)
  BY <1>8 DEF L!addWriterGroup
<1>13. QED BY <1>1, <1>2, <1>3, <1>4, <1>5, <1>7, <1>8, <1>9, <1>10, <1>11, <1>12

\* main() creates the user thread last, sets no counter to zero any more, and only then
\* receives.
MainBefore == May({}, {"publisher"}, CounterPuts, Endings)
MainBehind == May(Receiving, {}, {}, Endings)

LEMMA LMain == Phased(L!loopback.main, MainBefore, Spawn("user"), MainBehind)
<1> DEFINE k == MainBefore
           l == MainBehind
           x == Spawn("user")
<1>1. /\ k.exit = Endings /\ k.create = {"publisher"} /\ k.clear = CounterPuts
      /\ l.exit = Endings /\ l.compute = Receiving
  BY DEF MainBefore, MainBehind, May
<1> HIDE DEF k, l, x
<1>2. Phased(L!threadCreation("user"), k, x, l)
  <2>1. Phased(<<L!Spawn("user")>>, k, x, l)
    BY LSteps, PhaseListed DEF x
  <2>2. /\ Flows(<<L!Into("returnValue", L!Call({}, {}))>>, k)
        /\ Flows(L!If("returnValue", <<L!Exit("failure")>>), k)
        /\ Flows(<<L!Into("errorSetAffinity", L!Call({}, {}))>>, k)
        /\ Flows(L!If("errorSetAffinity", <<L!Exit("failure")>>), k)
    BY <1>1, LSteps, StepRules, Listed, FlowRules DEF Endings, CounterNames
  <2>3. QED BY <2>1, <2>2, FlowsJoined, PhaseBefore DEF L!threadCreation
<1>3. Phased(L!SetUp, k, x, l)
  <2> DEFINE
        F == <<L!Call({}, {"server"})>>
             \o L!If("enableCsvLog", <<L!New("fpPublisher"), L!New("fpSubscriber")>>)
             \o L!addServerNodes \o L!addPubSubConnection \o L!addPublishedDataSet
             \o L!_addDataSetField \o L!addWriterGroup \o L!addDataSetWriter
             \o <<L!Call({}, {"writerGroup"})>> \o L!addPubSubConnectionSubscriber
             \o L!addReaderGroup \o L!addDataSetReader
             \o <<L!Call({}, {"readerGroup"}), L!Call({"operational"}, {"readerGroup"}),
                   L!New("serverConfig")>>
  <2>1. Flows(F, k)
    <3>1. /\ Flows(<<L!Call({}, {"server"})>>, k) /\ Flows(<<L!Call({}, {"writerGroup"})>>, k)
          /\ Flows(L!If("enableCsvLog", <<L!New("fpPublisher"), L!New("fpSubscriber")>>), k)
          /\ Flows(<<L!Call({}, {"readerGroup"}), L!Call({"operational"}, {"readerGroup"}),
                     L!New("serverConfig")>>, k)
      BY LSteps, StepRules, Listed, FlowRules DEF CounterNames
    <3>2. /\ Flows(L!addServerNodes, k) /\ Flows(L!addPubSubConnection, k)
          /\ Flows(L!addPublishedDataSet, k) /\ Flows(L!_addDataSetField, k)
          /\ Flows(L!addWriterGroup, k) /\ Flows(L!addDataSetWriter, k)
          /\ Flows(L!addPubSubConnectionSubscriber, k)
          /\ Flows(L!addReaderGroup, k) /\ Flows(L!addDataSetReader, k)
      BY <1>1, LPieces DEF Endings, CounterPuts
    <3>3. QED BY <3>1, <3>2, FlowsJoined
  <2>2. L!SetUp = F \o L!threadCreation("user")
    BY DEF L!SetUp
  <2> HIDE DEF F
  <2>3. QED BY <1>2, <2>1, <2>2, PhaseBefore
<1>4. Phased(L!Options \o L!SetUp, k, x, l)
  BY <1>1, <1>3, LPieces, PhaseBefore DEF Endings
<1>5. Phased(L!Options \o L!SetUp \o L!Run \o L!CleanUp, k, x, l)
  BY <1>1, <1>4, LPieces, PhaseBehind DEF Endings
<1>6. QED BY <1>5 DEF k, l, x, L!loopback

\* What each thread of the loopback computes, and that it does nothing else to a counter.
LEMMA LThreads ==
    /\ Flows(L!publisherETF, May({"clock_gettime", "publish"}, {}, {}, {}))
    /\ Flows(L!userApplicationPubSub,
             May({"clock_gettime", "pass counter", "measure received", "measure published"}, {},
               {}, {}))
<1> DEFINE B == <<L!Reads(L!Counters, L!Do("pass counter"))>>
                \o L!If("enableCsvLog", L!If("SubCounter", <<L!Do("measure received")>>)
                                        \o L!If("PubCounter", <<L!Do("measure published")>>))
<1> DEFINE W == ReadsFirst({"runningSub", "runningPub"}, WhileEither("RunningSub", "RunningPub", B))
<1>0. L!userApplicationPubSub = L!BaseTime \o W
  <2>1. L!ReadsFirst({"runningSub", "runningPub"}, L!WhileEither("RunningSub", "RunningPub", B)) = W
    BY LSteps, Zenon
  <2>2. QED BY <2>1, Zenon DEF L!userApplicationPubSub
<1> HIDE DEF B, W
<1>1. \A k : "clock_gettime" \in k.compute => Flows(L!BaseTime, k)
  BY StepRules, Listed, FlowRules, FlowsJoined, LSteps
  DEF CounterNames, L!BaseTime
<1>2. ASSUME NEW k, k.compute = {"clock_gettime", "publish"}
      PROVE  Flows(L!publisherETF, k)
  BY <1>1, <1>2, StepRules, Listed, FlowRules, FlowsJoined, LoopRules, LSteps
  DEF CounterNames, L!publisherETF
<1>3. ASSUME NEW k, k.compute = {"clock_gettime", "pass counter", "measure received",
               "measure published"}
      PROVE  Flows(L!userApplicationPubSub, k)
  <2>1. /\ Flows(<<L!Reads(L!Counters, L!Do("pass counter"))>>, k)
        /\ Flows(L!If("SubCounter", <<L!Do("measure received")>>), k)
        /\ Flows(L!If("PubCounter", <<L!Do("measure published")>>), k)
    BY <1>3, StepRules, Listed, FlowRules, LSteps, Zenon
  <2>2. Flows(B, k)
    BY <2>1, FlowRules, FlowsJoined, LSteps, Zenon DEF B
  <2>3. Flows(W, k)
    BY <2>2, LoopRules DEF W
  <2>4. Flows(L!BaseTime, k)
    BY <1>1, <1>3, Zenon
  <2>5. QED BY <1>0, <2>3, <2>4, FlowsJoined
<1>4. \A D : May(D, {}, {}, {}).compute = D
  BY DEF May
<1>5. QED BY <1>2, <1>3, <1>4, Zenon

-----------------------------------------------------------------------------
(* The loopback.                                                           *)

\* Where main() of either program creates its user thread.
MainCut == CHOOSE a : CutAt(L!loopback.main, a, MainBefore, Spawn("user"), MainBehind)

\* Nothing has come before the counters are set to zero for the last time.
LoopbackInv ==
    /\ pc \in [{"main", "publisher", "user"} -> Int]
    /\ Echoes(data)
    /\ pc["main"] <= MainCut => pc["user"] = 0 /\ data.message = 0

LEMMA LoopbackCode ==
    ASSUME prog = "loopback", Programs["loopback"] = RealtimePrograms["loopback"]
    PROVE  /\ IsCode(Code("main"))
           /\ CutAt(Code("main"), MainCut, MainBefore, Spawn("user"), MainBehind)
           /\ Code("publisher") = L!publisherETF /\ Code("user") = L!userApplicationPubSub
<1>1. Programs[prog].threads = L!loopback
  BY DEF RealtimePrograms
<1>2. Code("main") = L!loopback.main
  BY <1>1 DEF Code
<1>3. Code("publisher") = L!publisherETF /\ Code("user") = L!userApplicationPubSub
  BY <1>1 DEF Code, L!loopback
<1>4. /\ IsCode(L!loopback.main)
      /\ CutAt(L!loopback.main, MainCut, MainBefore, Spawn("user"), MainBehind)
  BY LMain DEF Phased, MainCut
<1>5. QED BY <1>2, <1>3, <1>4

LEMMA LoopbackStep ==
    ASSUME EffectsGiven, prog = "loopback", Programs["loopback"] = RealtimePrograms["loopback"],
           LoopbackInv, NEW t \in DOMAIN pc, Step(t)
    PROVE  prog' = prog /\ LoopbackInv' /\ Onward(data, data')
<1>1. /\ pc \in [{"main", "publisher", "user"} -> Int]
      /\ DOMAIN pc = {"main", "publisher", "user"} /\ pc \in [DOMAIN pc -> Int]
      /\ Echoes(data)
      /\ pc["main"] <= MainCut => pc["user"] = 0 /\ data.message = 0
  BY DEF LoopbackInv
<1>2. \A name, e : e \in Effect(prog, name, data) => e \in RealtimeEffect("loopback", name, data)
  BY NamesGiven DEF EffectsGiven
<1>3. MainCut \in Int
  BY LoopbackCode, CodeLength DEF CutAt
<1>4. CASE t = "main"
  <2>1. Act(Spawn("user"), May({}, {"user"}, {}, {}))
    BY StepRules DEF May
  <2>2. /\ prog' = prog /\ pc' \in [DOMAIN pc -> Int]
        /\ \/ pc' = pc
           \/ pc["main"] < MainCut /\ pc'["main"] <= MainCut
           \/ pc["main"] >= MainCut /\ pc'["main"] > MainCut
        /\ \A u \in DOMAIN pc \ {"main"} :
                \/ pc'[u] = pc[u]
                \/ /\ pc'[u] = 1
                   /\ \/ pc["main"] < MainCut /\ u \in {"publisher"}
                      \/ pc["main"] = MainCut /\ u \in {"user"}
                      \/ pc["main"] > MainCut /\ u \in {}
        /\ \/ Same(data, data', {})
           \/ pc["main"] < MainCut /\ \E v \in CounterPuts : Sets(data, data', v, 0)
           \/ pc["main"] > MainCut /\ \E name \in Receiving : data' \in Effect(prog, name, data)
    BY <1>1, <1>4, <2>1, LoopbackCode, Preparing DEF MainBefore, MainBehind
  <2>3. /\ Echoes(data') /\ Onward(data, data')
        /\ pc["main"] <= MainCut => data'.message = data.message
    <3>1. CASE Same(data, data', {})
      BY <1>1, <3>1, EchoMoves
    <3>2. CASE pc["main"] < MainCut /\ \E v \in CounterPuts : Sets(data, data', v, 0)
      BY <1>1, <1>3, <3>2, EchoMoves DEF CounterPuts
    <3>3. CASE pc["main"] > MainCut /\ \E name \in Receiving : data' \in Effect(prog, name, data)
      <4>1. PICK name \in Receiving : data' \in RealtimeEffect("loopback", name, data)
        BY <1>2, <3>3
      <4>2. Echoes(data') /\ Onward(data, data')
        BY <1>1, <4>1, EchoesOn, Zenon DEF Receiving, LoopbackNames
      <4>3. QED BY <1>1, <1>3, <3>3, <4>2
    <3>4. QED BY <2>2, <3>1, <3>2, <3>3
  <2>4. pc'["main"] <= MainCut => pc'["user"] = 0 /\ data'.message = 0
    BY <1>1, <1>3, <2>2, <2>3
  <2>5. QED BY <1>1, <2>2, <2>3, <2>4 DEF LoopbackInv
<1>5. ASSUME t # "main", NEW D, D \subseteq LoopbackNames \ {"receive running"},
             Flows(Code(t), May(D, {}, {}, {}))
      PROVE  prog' = prog /\ LoopbackInv' /\ Onward(data, data')
  <2>1. /\ prog' = prog /\ pc' \in [DOMAIN pc -> Int] /\ pc[t] > 0
        /\ \A u \in DOMAIN pc \ {t} : pc'[u] = pc[u]
        /\ Same(data, data', {}) \/ \E name \in D : data' \in Effect(prog, name, data)
    BY <1>1, <1>5, Working, Zenon
  <2>2. Echoes(data') /\ Onward(data, data') /\ data'.message = data.message
    <3>1. CASE Same(data, data', {})
      BY <1>1, <3>1, EchoMoves
    <3>2. CASE \E name \in D : data' \in Effect(prog, name, data)
      <4>1. PICK name \in D : data' \in RealtimeEffect("loopback", name, data)
        BY <1>2, <3>2
      <4>2. QED BY <1>1, <1>5, <4>1, EchoesOn, Zenon
    <3>3. QED BY <2>1, <3>1, <3>2
  <2>3. pc'["main"] <= MainCut => pc'["user"] = 0 /\ data'.message = 0
    <3>1. pc'["main"] = pc["main"]
      BY <1>1, <1>5, <2>1, Zenon
    <3>2. pc["main"] <= MainCut => t # "user"
      BY <1>1, <2>1
    <3>3. pc["main"] <= MainCut => pc'["user"] = pc["user"]
      BY <1>1, <2>1, <3>2, Zenon
    <3>4. QED BY <1>1, <2>2, <3>1, <3>3, Zenon
  <2>4. QED BY <1>1, <2>1, <2>2, <2>3 DEF LoopbackInv
<1>6. CASE t = "publisher"
  BY <1>5, <1>6, LoopbackCode, LThreads, Zenon DEF LoopbackNames
<1>7. CASE t = "user"
  BY <1>5, <1>7, LoopbackCode, LThreads, Zenon DEF LoopbackNames
<1>8. QED BY <1>1, <1>4, <1>6, <1>7

LEMMA LoopbackStart ==
    ASSUME Init, prog = "loopback", Programs["loopback"] = RealtimePrograms["loopback"]
    PROVE  LoopbackInv
<1>1. Threads(prog) = {"main", "publisher", "user"}
  BY DEF RealtimePrograms, Threads, L!loopback
<1>2. pc \in [{"main", "publisher", "user"} -> Int] /\ pc["user"] = 0
  BY <1>1 DEF Init
<1>3. data = Both(L!Globals, Observed)
  BY DEF Init, RealtimePrograms
<1>4. Counted \subseteq DOMAIN data /\ \A v \in Counted : data[v] = 0
  <2>1. DOMAIN L!Globals \cap Counted = {}
    BY DEF L!Globals, Counted
  <2>2. Counted \subseteq DOMAIN Observed /\ \A v \in Counted : Observed[v] = 0
    BY DEF Counted, Observed
  <2>3. QED BY <1>3, <2>1, <2>2 DEF Both
<1>5. Echoes(data) /\ data.message = 0
  BY <1>4 DEF Echoes, Counted
<1>6. QED BY <1>2, <1>5 DEF LoopbackInv

LEMMA PSteps ==
    /\ \A m, n : P!Call(m, n) = Call(m, n)
    /\ \A v, s : P!Into(v, s) = Into(v, s)
    /\ \A v, s : P!OrInto(v, s) = OrInto(v, s)
    /\ \A m : P!Deref(m) = Deref(m)
    /\ \A m : P!Free(m) = Free(m)
    /\ \A m, s : P!Reads(m, s) = Reads(m, s)
    /\ \A m, s : P!ReadsFirst(m, s) = ReadsFirst(m, s)
    /\ \A v, n : P!Put(v, n) = Put(v, n)
    /\ \A v : P!Do(v) = Do(v)
    /\ P!Signal = Signal
    /\ \A v : P!Spawn(v) = Spawn(v)
    /\ \A v : P!Wait(v) = Wait(v)
    /\ \A v : P!Join(v) = Join(v)
    /\ \A v : P!Exit(v) = Exit(v)
    /\ P!Return = Return
    /\ \A v, s : P!If(v, s) = If(v, s)
    /\ \A v, s : P!IfNot(v, s) = IfNot(v, s)
    /\ \A v, s : P!While(v, s) = While(v, s)
    /\ \A v, n, s : P!Either(v, n, s) = Either(v, n, s)
    /\ \A v, n, s : P!WhileEither(v, n, s) = WhileEither(v, n, s)
    /\ \A s : P!Maybe(s) = Maybe(s)
    /\ \A v : P!New(v) = New(v)
    /\ \A v : P!Alloc(v) = Alloc(v)
    /\ \A v, n : P!RunServer(v, n) = RunServer(v, n)
    /\ \A s : P!Fn(s) = Fn(s)
BY DEF P!Call, Call, P!Into, Into, P!OrInto, OrInto, P!Deref, Deref, P!Free, Free, P!Reads,
   Reads, P!ReadsFirst, ReadsFirst, P!Put, Put, P!Do, Do, P!Signal, Signal, P!Spawn, Spawn,
   P!Wait, Wait, P!Join, Join, P!Exit, Exit, P!Return, Return, P!If, If, P!IfNot, IfNot,
   P!While, While, P!Either, Either, P!WhileEither, WhileEither, P!Maybe, Maybe, P!New,
   New, P!Alloc, Alloc, P!RunServer, RunServer, P!Fn, Fn, P!Blank, Blank, P!Unless, Unless,
   P!Jump, Jump

\* The two ends of the connection are set up alike.
LEMMA SameSetUp == P!publisher.main = L!loopback.main
<1> USE PSteps, LSteps
<1>1. P!Options = L!Options
  BY DEF P!Options, L!Options
<1>2. P!addServerNodes = L!addServerNodes /\ P!removeServerNodes = L!removeServerNodes
  BY DEF P!addServerNodes, L!addServerNodes, P!Node, L!Node, P!removeServerNodes,
           L!removeServerNodes
<1>3. P!_addDataSetField = L!_addDataSetField
  BY DEF P!_addDataSetField, L!_addDataSetField, P!Field, L!Field, P!Backend, L!Backend
<1>4. P!addDataSetReader = L!addDataSetReader
  BY DEF P!addDataSetReader, L!addDataSetReader, P!addSubscribedVariables,
         L!addSubscribedVariables, P!Backend, L!Backend
<1>5. \A t : P!threadCreation(t) = L!threadCreation(t)
  BY DEF P!threadCreation, L!threadCreation
<1>6. \A v, t : P!addPubSubApplicationCallback(v, t) = L!addPubSubApplicationCallback(v, t)
  BY <1>5 DEF P!addPubSubApplicationCallback, L!addPubSubApplicationCallback
<1>7. P!addWriterGroup = L!addWriterGroup
  BY <1>6 DEF P!addWriterGroup, L!addWriterGroup
<1>8. P!SetUp = L!SetUp
  BY <1>2, <1>3, <1>4, <1>5, <1>6, <1>7
  DEF P!SetUp, L!SetUp, P!addPubSubConnection, L!addPubSubConnection, P!addPublishedDataSet,
      L!addPublishedDataSet, P!addDataSetWriter, L!addDataSetWriter,
      P!addPubSubConnectionSubscriber, L!addPubSubConnectionSubscriber, P!addReaderGroup,
        L!addReaderGroup
<1>9. P!Run = L!Run
  <2> DEFINE B == <<P!Reads({"server"}, P!Do("receive running")), P!Do("receive counter")>>
             C == <<L!Reads({"server"}, L!Do("receive running")), L!Do("receive counter")>>
  <2>1. B = C
    BY ONLY PSteps, LSteps, Zenon
  <2>2. P!IfNot("retval", P!While("runningServer",
          P!If("operational", P!If("reader", P!If("targetVariables", B)))))
          = L!IfNot("retval", L!While("runningServer",
              L!If("operational", L!If("reader", L!If("targetVariables", C)))))
    BY ONLY <2>1, PSteps, LSteps, Zenon
  <2>3. P!Serve = L!Serve
    BY ONLY <2>2, PSteps, LSteps, Zenon DEF P!Serve, L!Serve
  <2>4. QED BY ONLY <2>3, PSteps, LSteps DEF P!Run, L!Run
<1>10. P!CleanUp = L!CleanUp
  BY <1>2 DEF P!CleanUp, L!CleanUp, P!removePubSubApplicationCallback,
       L!removePubSubApplicationCallback
<1>11. QED BY <1>1, <1>8, <1>9, <1>10 DEF P!publisher, L!loopback

-----------------------------------------------------------------------------
(* The publisher.                                                          *)

\* The user thread starts by setting the published counter to zero.
UserBefore == May({"clock_gettime"}, {}, {}, {})
UserKey == Reads(P!Counters, Put("PubCounter", 0))
UserBehind == May({"count on", "measure published", "measure received"}, {}, {}, {})

LEMMA PThreads ==
    /\ Flows(P!publisherETF, May({"clock_gettime", "publish"}, {}, {}, {}))
    /\ Phased(P!userApplicationPubSub, UserBefore, UserKey, UserBehind)
<1> DEFINE B == <<P!Reads(P!Counters, P!Do("count on"))>>
                \o P!If("enableCsvLog", <<P!Do("measure published")>>
                                        \o P!If("SubCounter", <<P!Do("measure received")>>))
           W == ReadsFirst({"runningSub", "runningPub"}, WhileEither("RunningPub", "RunningSub", B))
<1>0. P!userApplicationPubSub = P!BaseTime \o <<UserKey>> \o W
  <2>1. P!ReadsFirst({"runningSub", "runningPub"}, P!WhileEither("RunningPub", "RunningSub", B)) = W
    BY PSteps, Zenon
  <2>2. P!Reads(P!Counters, P!Put("PubCounter", 0)) = UserKey
    BY PSteps DEF UserKey
  <2>3. QED BY <2>1, <2>2, Zenon DEF P!userApplicationPubSub
<1> HIDE DEF B, W
<1>1. \A k : "clock_gettime" \in k.compute => Flows(P!BaseTime, k)
  BY StepRules, Listed, FlowRules, FlowsJoined, PSteps
  DEF CounterNames, P!BaseTime
<1>2. ASSUME NEW k, k.compute = {"clock_gettime", "publish"}
      PROVE  Flows(P!publisherETF, k)
  BY <1>1, <1>2, StepRules, Listed, FlowRules, FlowsJoined, LoopRules, PSteps
  DEF CounterNames, P!publisherETF
<1>3. ASSUME NEW k, NEW l, k.compute = {"clock_gettime"},
             l.compute = {"count on", "measure published", "measure received"}
      PROVE  Phased(P!userApplicationPubSub, k, UserKey, l)
  <2>1. /\ Flows(<<P!Reads(P!Counters, P!Do("count on"))>>, l)
        /\ Flows(<<P!Do("measure published")>>, l)
        /\ Flows(P!If("SubCounter", <<P!Do("measure received")>>), l)
    BY <1>3, StepRules, Listed, FlowRules, PSteps, Zenon
  <2>2. Flows(B, l)
    BY <2>1, FlowRules, FlowsJoined, PSteps, Zenon DEF B
  <2>3. Flows(W, l)
    BY <2>2, LoopRules DEF W
  <2>4. Flows(P!BaseTime, k)
    BY <1>1, <1>3, Zenon
  <2>5. Phased(<<UserKey>>, k, UserKey, l)
    BY PhaseListed
  <2>6. QED BY <1>0, <2>3, <2>4, <2>5, PhaseBefore, PhaseBehind
<1>4. \A D : May(D, {}, {}, {}).compute = D
  BY DEF May
<1>5. QED BY <1>2, <1>3, <1>4, Zenon DEF UserBefore, UserBehind

UserCut == CHOOSE a : CutAt(P!userApplicationPubSub, a, UserBefore, UserKey, UserBehind)

\* Nothing is counted before the counters are set to zero for the last time.
PublisherInv ==
    /\ pc \in [{"main", "publisher", "user"} -> Int]
    /\ Returns(data)
    /\ pc["main"] <= MainCut => pc["user"] = 0
    /\ pc["user"] <= UserCut => data.PubCounter = 0

LEMMA PublisherCode ==
    ASSUME prog = "publisher", Programs["publisher"] = RealtimePrograms["publisher"]
    PROVE  /\ IsCode(Code("main"))
           /\ CutAt(Code("main"), MainCut, MainBefore, Spawn("user"), MainBehind)
           /\ Code("publisher") = P!publisherETF
           /\ IsCode(Code("user")) /\ CutAt(Code("user"), UserCut, UserBefore, UserKey, UserBehind)
           /\ MainCut \in Int /\ UserCut \in Int /\ UserCut > 0
<1>1. Programs[prog].threads = P!publisher
  BY DEF RealtimePrograms
<1>2. Code("main") = P!publisher.main
  BY <1>1 DEF Code
<1>3. Code("publisher") = P!publisherETF /\ Code("user") = P!userApplicationPubSub
  BY <1>1 DEF Code, P!publisher
<1>4. /\ IsCode(P!publisher.main)
      /\ CutAt(P!publisher.main, MainCut, MainBefore, Spawn("user"), MainBehind)
  BY LMain, SameSetUp DEF Phased, MainCut
<1>5. /\ IsCode(P!userApplicationPubSub)
      /\ CutAt(P!userApplicationPubSub, UserCut, UserBefore, UserKey, UserBehind)
  BY PThreads, Zenon DEF Phased, UserCut
<1>6. MainCut \in Int /\ UserCut \in Int /\ UserCut > 0
  BY <1>4, <1>5, CodeLength DEF CutAt
<1>7. QED BY <1>2, <1>3, <1>4, <1>5, <1>6

LEMMA PublisherStep ==
    ASSUME EffectsGiven, prog = "publisher", Programs["publisher"] = RealtimePrograms["publisher"],
           PublisherInv, NEW t \in DOMAIN pc, Step(t)
    PROVE  prog' = prog /\ PublisherInv' /\ Onward(data, data')
<1>1. /\ pc \in [{"main", "publisher", "user"} -> Int]
      /\ DOMAIN pc = {"main", "publisher", "user"} /\ pc \in [DOMAIN pc -> Int]
      /\ Returns(data)
      /\ pc["main"] <= MainCut => pc["user"] = 0
      /\ pc["user"] <= UserCut => data.PubCounter = 0
  BY DEF PublisherInv
<1>2. \A name, e : e \in Effect(prog, name, data) => e \in RealtimeEffect("publisher", name, data)
  BY NamesGiven DEF EffectsGiven
<1>3. MainCut \in Int /\ UserCut \in Int /\ UserCut > 0
  BY PublisherCode
<1>4. CASE t = "main"
  <2>1. Act(Spawn("user"), May({}, {"user"}, {}, {}))
    BY StepRules DEF May
  <2>2. /\ prog' = prog /\ pc' \in [DOMAIN pc -> Int]
        /\ \/ pc' = pc
           \/ pc["main"] < MainCut /\ pc'["main"] <= MainCut
           \/ pc["main"] >= MainCut /\ pc'["main"] > MainCut
        /\ \A u \in DOMAIN pc \ {"main"} :
                \/ pc'[u] = pc[u]
                \/ /\ pc'[u] = 1
                   /\ \/ pc["main"] < MainCut /\ u \in {"publisher"}
                      \/ pc["main"] = MainCut /\ u \in {"user"}
                      \/ pc["main"] > MainCut /\ u \in {}
        /\ \/ Same(data, data', {})
           \/ pc["main"] < MainCut /\ \E v \in CounterPuts : Sets(data, data', v, 0)
           \/ pc["main"] > MainCut /\ \E name \in Receiving : data' \in Effect(prog, name, data)
    BY <1>1, <1>4, <2>1, PublisherCode, Preparing DEF MainBefore, MainBehind
  <2>3. Returns(data') /\ Onward(data, data') /\ data'.PubCounter = data.PubCounter
    <3>1. CASE Same(data, data', {})
      BY <1>1, <3>1, ReturnMoves
    <3>2. CASE pc["main"] < MainCut /\ \E v \in CounterPuts : Sets(data, data', v, 0)
      <4>1. data.PubCounter = 0
        BY <1>1, <1>3, <3>2
      <4>2. QED BY <1>1, <3>2, <4>1, ReturnMoves DEF CounterPuts
    <3>3. CASE \E name \in Receiving : data' \in Effect(prog, name, data)
      <4>1. PICK name \in Receiving : data' \in RealtimeEffect("publisher", name, data)
        BY <1>2, <3>3
      <4>2. QED BY <1>1, <4>1, ReturnsOn, Zenon DEF Receiving, PublisherNames
    <3>4. QED BY <2>2, <3>1, <3>2, <3>3
  <2>4. pc'["main"] <= MainCut => pc'["user"] = 0
    BY <1>1, <1>3, <2>2
  <2>5. pc'["user"] <= UserCut => data'.PubCounter = 0
    BY <1>1, <1>3, <2>2, <2>3
  <2>6. QED BY <1>1, <2>2, <2>3, <2>4, <2>5 DEF PublisherInv
<1>5. CASE t = "user"
  <2>1. Act(UserKey, May({}, {}, {"PubCounter"}, {}))
    BY StepRules DEF UserKey, May
  <2> DEFINE D == {"clock_gettime"}
             E == {"count on", "measure published", "measure received"}
             Z == {"PubCounter"}
  <2>2. /\ UserBefore = May(D, {}, {}, {}) /\ UserBehind = May(E, {}, {}, {})
        /\ Act(UserKey, May({}, {}, Z, {})) /\ D = {"clock_gettime"} /\ Z = {"PubCounter"}
        /\ E \subseteq PublisherNames
    BY <2>1 DEF UserBefore, UserBehind, PublisherNames
  <2> HIDE DEF D, E, Z
  <2>3. /\ prog' = prog /\ pc' \in [DOMAIN pc -> Int] /\ pc["user"] > 0
        /\ pc' = pc \/ (pc["user"] < UserCut /\ pc'["user"] <= UserCut)
                    \/ (pc["user"] >= UserCut /\ pc'["user"] > UserCut)
        /\ \A u \in DOMAIN pc \ {"user"} : pc'[u] = pc[u]
        /\ \/ Same(data, data', {})
           \/ pc["user"] < UserCut /\ \E name \in D : data' \in Effect(prog, name, data)
           \/ pc["user"] = UserCut /\ \E v \in Z : Sets(data, data', v, 0)
           \/ pc["user"] > UserCut /\ \E name \in E : data' \in Effect(prog, name, data)
    BY <1>1, <1>5, <2>2, PublisherCode, Clearing
  <2>4. /\ Returns(data') /\ Onward(data, data')
        /\ pc["user"] <= UserCut => data'.PubCounter = 0
    <3>1. CASE Same(data, data', {})
      BY <1>1, <3>1, ReturnMoves
    <3>2. CASE pc["user"] < UserCut /\ \E name \in D : data' \in Effect(prog, name, data)
      <4>1. data' \in RealtimeEffect("publisher", "clock_gettime", data)
        BY <1>2, <2>2, <3>2
      <4>2. Same(data, data', {})
        BY <4>1, Passing, Zenon
      <4>3. QED BY <3>1, <4>2
    <3>3. CASE pc["user"] = UserCut /\ \E v \in Z : Sets(data, data', v, 0)
      <4>1. data.PubCounter = 0 /\ Sets(data, data', "PubCounter", 0)
        BY <1>1, <1>3, <2>2, <3>3
      <4>2. QED BY <1>1, <4>1, ReturnMoves
    <3>4. CASE pc["user"] > UserCut /\ \E name \in E : data' \in Effect(prog, name, data)
      <4>1. PICK name \in E : data' \in Effect(prog, name, data)
        BY <3>4
      <4>2. name \in PublisherNames /\ data' \in RealtimeEffect("publisher", name, data)
        BY <1>2, <2>2, <4>1
      <4>3. Returns(data') /\ Onward(data, data')
        BY <1>1, <4>2, ReturnsOn, Zenon
      <4>4. QED BY <1>1, <1>3, <3>4, <4>3
    <3>5. QED BY <2>3, <3>1, <3>2, <3>3, <3>4
  <2>5. pc'["main"] = pc["main"] /\ pc["user"] > 0 /\ pc'["user"] \in Int
    BY <1>1, <2>3
  <2>6. pc'["main"] <= MainCut => pc'["user"] = 0
    BY <1>1, <2>5
  <2>7. pc'["user"] <= UserCut => data'.PubCounter = 0
    <3>1. pc'["user"] <= UserCut => pc["user"] <= UserCut
      BY <1>1, <1>3, <2>3
    <3>2. QED BY <2>4, <3>1
  <2>8. QED BY <1>1, <2>3, <2>4, <2>6, <2>7 DEF PublisherInv
<1>6. ASSUME t = "publisher", NEW D, D \subseteq PublisherNames \ {"count on"},
             Flows(Code(t), May(D, {}, {}, {}))
      PROVE  prog' = prog /\ PublisherInv' /\ Onward(data, data')
  <2>1. /\ prog' = prog /\ pc' \in [DOMAIN pc -> Int] /\ pc[t] > 0
        /\ \A u \in DOMAIN pc \ {t} : pc'[u] = pc[u]
        /\ Same(data, data', {}) \/ \E name \in D : data' \in Effect(prog, name, data)
    BY <1>1, <1>6, Working, Zenon
  <2>2. Returns(data') /\ Onward(data, data') /\ data'.PubCounter = data.PubCounter
    <3>1. CASE Same(data, data', {})
      BY <1>1, <3>1, ReturnMoves
    <3>2. CASE \E name \in D : data' \in Effect(prog, name, data)
      <4>1. PICK name \in D : data' \in RealtimeEffect("publisher", name, data)
        BY <1>2, <3>2
      <4>2. QED BY <1>1, <1>6, <4>1, ReturnsOn, Zenon
    <3>3. QED BY <2>1, <3>1, <3>2
  <2>3. pc'["main"] = pc["main"] /\ pc'["user"] = pc["user"]
    BY <1>1, <1>6, <2>1, Zenon
  <2>4. QED BY <1>1, <2>1, <2>2, <2>3 DEF PublisherInv
<1>7. CASE t = "publisher"
  BY <1>6, <1>7, PublisherCode, PThreads, Zenon DEF PublisherNames
<1>8. QED BY <1>1, <1>4, <1>5, <1>7

LEMMA PublisherStart ==
    ASSUME Init, prog = "publisher", Programs["publisher"] = RealtimePrograms["publisher"]
    PROVE  PublisherInv
<1>1. Threads(prog) = {"main", "publisher", "user"}
  BY DEF RealtimePrograms, Threads, P!publisher
<1>2. pc \in [{"main", "publisher", "user"} -> Int] /\ pc["user"] = 0
  BY <1>1 DEF Init
<1>3. data = Both(P!Globals, Observed)
  BY DEF Init, RealtimePrograms
<1>4. Counted \subseteq DOMAIN data /\ \A v \in Counted : data[v] = 0
  <2>1. DOMAIN P!Globals \cap Counted = {}
    BY DEF P!Globals, Counted
  <2>2. Counted \subseteq DOMAIN Observed /\ \A v \in Counted : Observed[v] = 0
    BY DEF Counted, Observed
  <2>3. QED BY <1>3, <2>1, <2>2 DEF Both
<1>5. Returns(data) /\ data.PubCounter = 0
  BY <1>4 DEF Returns, Counted
<1>6. QED BY <1>2, <1>5 DEF PublisherInv

LEMMA NSSteps ==
    /\ \A m, n : NS!Call(m, n) = Call(m, n)
    /\ \A v, s : NS!Into(v, s) = Into(v, s)
    /\ \A v, s : NS!OrInto(v, s) = OrInto(v, s)
    /\ \A m : NS!Deref(m) = Deref(m)
    /\ \A m : NS!Free(m) = Free(m)
    /\ \A m, s : NS!Reads(m, s) = Reads(m, s)
    /\ \A m, s : NS!ReadsFirst(m, s) = ReadsFirst(m, s)
    /\ \A v, n : NS!Put(v, n) = Put(v, n)
    /\ \A v : NS!Do(v) = Do(v)
    /\ NS!Signal = Signal
    /\ \A v : NS!Spawn(v) = Spawn(v)
    /\ \A v : NS!Join(v) = Join(v)
    /\ \A v : NS!Exit(v) = Exit(v)
    /\ \A v, s : NS!If(v, s) = If(v, s)
    /\ \A v, s : NS!IfNot(v, s) = IfNot(v, s)
    /\ \A v, s : NS!While(v, s) = While(v, s)
    /\ \A v, n, s : NS!Either(v, n, s) = Either(v, n, s)
    /\ \A s : NS!Maybe(s) = Maybe(s)
    /\ \A v : NS!New(v) = New(v)
BY DEF NS!Call, Call, NS!Into, Into, NS!OrInto, OrInto, NS!Deref, Deref, NS!Free, Free,
   NS!Reads, Reads, NS!ReadsFirst, ReadsFirst, NS!Put, Put, NS!Do, Do, NS!Signal, Signal,
   NS!Spawn, Spawn, NS!Join, Join, NS!Exit, Exit, NS!If, If, NS!IfNot, IfNot, NS!While,
   While, NS!Either, Either, NS!Maybe, Maybe, NS!New, New, NS!Blank, Blank, NS!Unless,
   Unless, NS!Jump, Jump

-----------------------------------------------------------------------------
(* The nodeset's subscriber.                                               *)

\* main() creates the user thread, then takes what comes.
RecorderBefore == May({}, {}, {"SubCounter", "Pressure"}, Endings)
RecorderBehind == May({"take counter", "take pressure"}, {}, {}, Endings)

LEMMA NSMain == Phased(NS!subscriberProgram.main, RecorderBefore, Spawn("user"), RecorderBehind)
<1> DEFINE k == RecorderBefore
           l == RecorderBehind
           x == Spawn("user")
<1>1. /\ k.exit = Endings /\ k.clear = {"SubCounter", "Pressure"}
      /\ l.exit = Endings /\ l.compute = {"take counter", "take pressure"}
  BY DEF RecorderBefore, RecorderBehind, May
<1> HIDE DEF k, l, x
<1>2. Flows(NS!Options, k)
  BY <1>1, StepRules, Listed, FlowRules, FlowsJoined, NSSteps, Zenon DEF NS!Options, Endings, CounterNames
<1>3. Flows(NS!addSubscribedVariables, k)
  <2>1. /\ Act(NS!New("targetVars"), k) /\ Act(NS!New("subCounterData"), k)
        /\ Act(NS!Reads({"subCounterData"}, NS!Put("SubCounter", 0)), k)
        /\ Act(NS!New("subDataValueRT"), k) /\ Act(NS!Deref({"subDataValueRT"}), k)
        /\ Act(NS!Backend, k) /\ Act(NS!Deref({"targetVars"}), k)
        /\ Act(NS!New("pressureData"), k)
             /\ Act(NS!Reads({"pressureData"}, NS!Put("Pressure", 0)), k)
        /\ Act(NS!New("pressureValueRT"), k) /\ Act(NS!Deref({"pressureValueRT"}), k)
    BY <1>1, StepRules, NSSteps, Zenon DEF NS!Backend
  <2>2. QED BY <2>1 DEF NS!addSubscribedVariables, Flows, Within, IsCode, Act, Range
<1>4. Flows(NS!addDataSetReader, k)
  BY <1>3, StepRules, Listed, FlowsJoined, NSSteps DEF NS!addDataSetReader
<1>5. Flows(NS!addPubSubConnectionSubscriber, k) /\ Flows(NS!addReaderGroup, k)
  BY StepRules, Listed, NSSteps
  DEF NS!addPubSubConnectionSubscriber, NS!addReaderGroup, CounterNames
<1>6. Phased(NS!threadCreation("user"), k, x, l)
  <2>1. Phased(<<NS!Spawn("user")>>, k, x, l)
    BY NSSteps, PhaseListed DEF x
  <2>2. /\ Flows(<<NS!Into("returnValue", NS!Call({}, {}))>>, k)
        /\ Flows(NS!If("returnValue", <<NS!Exit("failure")>>), k)
        /\ Flows(<<NS!Into("errorSetAffinity", NS!Call({}, {}))>>, k)
        /\ Flows(NS!If("errorSetAffinity", <<NS!Exit("failure")>>), k)
    BY <1>1, NSSteps, StepRules, Listed, FlowRules, Zenon DEF Endings, CounterNames
  <2>3. QED BY <2>1, <2>2, FlowsJoined, PhaseBefore DEF NS!threadCreation
<1>7. Phased(NS!SetUp, k, x, l)
  <2>1. Flows(<<NS!Call({}, {"readerGroupIdentifier"}), NS!Call({}, {"readerGroupIdentifier"}),
                NS!New("serverConfig"), NS!Deref({"serverConfig"})>>, k)
    BY StepRules, Listed, NSSteps
  <2>2. QED BY <1>4, <1>5, <1>6, <2>1, FlowsJoined, PhaseBefore DEF NS!SetUp
<1>8. Flows(NS!Run, l)
  <2>1. Flows(NS!While("running",
          <<NS!Reads({"server"}, NS!Do("take counter")), NS!Do("take pressure")>>), l)
    BY <1>1, StepRules, Listed, FlowRules, NSSteps, Zenon
  <2>2. Flows(NS!IfNot("retval", NS!While("running",
                <<NS!Reads({"server"}, NS!Do("take counter")), NS!Do("take pressure")>>)), l)
    BY <2>1, FlowRules, NSSteps, Zenon
  <2>3. /\ Flows(<<NS!OrInto("retval", NS!Call({}, {"server"}))>>, l)
        /\ Flows(<<NS!Call({}, {"readerGroupIdentifier"})>>, l)
        /\ Flows(NS!Maybe(<<NS!Put("joining", 1), NS!Deref({"subthreadID"})>>), l)
        /\ Flows(<<NS!Join("user")>>, l)
    BY StepRules, Listed, FlowRules, NSSteps DEF CounterNames
  <2>4. QED BY <2>2, <2>3, FlowsJoined, Zenon DEF NS!Run
<1>9. Flows(NS!CleanUp, l)
  <2>1. Flows(NS!If("recorded", NS!Write), l)
    BY StepRules, Listed, FlowRules, NSSteps DEF NS!Write, CounterNames
  <2>2. Flows(<<NS!Deref({"fpSubscriber"}), NS!Free({"fpSubscriber"})>>, l)
    BY StepRules, Listed, NSSteps
  <2>3. Flows(NS!If("fileWrite", NS!If("recorded", NS!Write)
                                 \o <<NS!Deref({"fpSubscriber"}), NS!Free({"fpSubscriber"})>>), l)
    BY <2>1, <2>2, FlowRules, FlowsJoined, NSSteps
  <2>4. Flows(NS!If("consolePrint", NS!If("recorded", NS!Write)), l)
    BY <2>1, FlowRules, NSSteps
  <2>5. Flows(<<NS!Free({"server"}), NS!Free({"serverConfig"}), NS!Free({"subCounterData"}),
                NS!Free({"subDataValueRT"}), NS!Free({"pressureData"}),
                  NS!Free({"pressureValueRT"}),
                NS!Exit("retval")>>, l)
    BY <1>1, StepRules, Listed, NSSteps, Zenon DEF Endings
  <2>6. QED BY <2>3, <2>4, <2>5, FlowsJoined DEF NS!CleanUp
<1>10. Phased(NS!Options \o NS!SetUp, k, x, l)
  BY <1>2, <1>7, PhaseBefore
<1>11. Phased(NS!Options \o NS!SetUp \o NS!Run \o NS!CleanUp, k, x, l)
  BY <1>8, <1>9, <1>10, PhaseBehind
<1>12. QED BY <1>11 DEF k, l, x, NS!subscriberProgram

\* Where the user thread records, and where it looks whether something has come.
LEMMA NSThreads ==
    LET A == NS!userApplicationSub
    IN  /\ IsCode(NS!subscriber)
        /\ IsCode(A) /\ Len(A) = 7
        /\ A[1] = Unless("running", 6) /\ A[2] = Unless("fileWrite", 1) /\ A[3] = Jump(1)
        /\ A[4] = Unless("consolePrint", 2)
        /\ A[5] = Reads({"subCounterData"}, Unless("SubCounter", 1))
        /\ A[6] = Reads({"subCounterData", "pressureData"}, Do("updateMeasurementsSubscriber"))
        /\ A[7] = Jump(-7)
<1> DEFINE s == Reads({"subCounterData", "pressureData"}, Do("updateMeasurementsSubscriber"))
           B == If("SubCounter", <<s>>)
           C == ReadsFirst({"subCounterData"}, B)
           D == Either("fileWrite", "consolePrint", C)
           A == While("running", D)
<1>1. NS!userApplicationSub = A
  BY NSSteps DEF NS!userApplicationSub
<1>2. IsCode(NS!subscriber)
  <2>1. \A k : k.compute = {"take counter", "take pressure"} => Flows(NS!subscriber, k)
    BY StepRules, Listed, FlowRules, FlowsJoined, NSSteps, Zenon DEF NS!subscriber
  <2>2. May({"take counter", "take pressure"}, {}, {}, {}).compute
          = {"take counter", "take pressure"}
    BY DEF May
  <2>3. QED BY <2>1, <2>2, Zenon DEF Flows, Within
<1> DEFINE F == <<s>>
<1>3. IsCode(F) /\ Len(F) = 1 /\ F[1] = s
  BY DEF IsCode, Range
<1> HIDE DEF s, A, B, C, D, F
<1>4. IsCode(B) /\ Len(B) = 2 /\ B[1] = Unless("SubCounter", 1) /\ B[2] = s
  <2>1. /\ IsCode(B) /\ Len(B) = Len(F) + 1 /\ B[1] = Unless("SubCounter", Len(F))
        /\ \A i \in 1 .. Len(F) : B[i + 1] = F[i]
    BY <1>3, Shapes, ZenonT(30) DEF B, F
  <2>2. B[1 + 1] = F[1]
    BY <1>3, <2>1
  <2>3. QED BY <1>3, <2>1, <2>2
<1>5. IsCode(C) /\ Len(C) = 2 /\ C[1] = Reads({"subCounterData"}, Unless("SubCounter", 1))
        /\ C[2] = s
  BY <1>4, Shapes, SMTT(30) DEF C
<1>6. /\ IsCode(D) /\ Len(D) = 5 /\ D[1] = Unless("fileWrite", 1) /\ D[2] = Jump(1)
      /\ D[3] = Unless("consolePrint", 2)
      /\ D[4] = Reads({"subCounterData"}, Unless("SubCounter", 1)) /\ D[5] = s
  <2>1. /\ IsCode(D) /\ Len(D) = Len(C) + 3 /\ D[1] = Unless("fileWrite", 1) /\ D[2] = Jump(1)
        /\ D[3] = Unless("consolePrint", Len(C))
        /\ \A i \in 1 .. Len(C) : D[i + 3] = C[i]
    <3>1. IsCode(C)
      BY <1>5
    <3>2. QED BY <3>1, Shapes DEF D
  <2>2. D[1 + 3] = C[1] /\ D[2 + 3] = C[2]
    BY <1>5, <2>1
  <2>3. QED BY <1>5, <2>1, <2>2
<1>7. /\ IsCode(A) /\ Len(A) = 7 /\ A[1] = Unless("running", 6) /\ A[2] = D[1]
      /\ A[3] = D[2] /\ A[4] = D[3] /\ A[5] = D[4] /\ A[6] = D[5] /\ A[7] = Jump(-7)
  <2>1. IsCode(D)
    BY <1>6
  <2>2. IsCode(A) /\ Len(A) = Len(D) + 2 /\ A[1] = Unless("running", Len(D) + 1)
    BY <2>1, WhileShape DEF A
  <2>3. A[Len(D) + 2] = Jump(-(Len(D) + 2))
    BY <2>1, WhileShape DEF A
  <2>4. \A i \in 1 .. Len(D) : A[i + 1] = D[i]
    BY <2>1, WhileShape DEF A
  <2>5. /\ A[1 + 1] = D[1] /\ A[2 + 1] = D[2] /\ A[3 + 1] = D[3] /\ A[4 + 1] = D[4]
        /\ A[5 + 1] = D[5]
    BY <1>6, <2>4
  <2>6. QED BY <1>6, <2>2, <2>3, <2>5
<1>8. QED BY <1>1, <1>2, <1>6, <1>7 DEF s

\* What the nodeset's subscriber has recorded has come.
Records(d) ==
    /\ {"SubCounter", "Pressure", "recorded", "row", "sent"} \subseteq DOMAIN d
    /\ d.SubCounter \in Nat /\ d.recorded \in Nat /\ d.row[1] \in Nat /\ d.sent[1] \in Nat
    /\ d.row[1] <= d.SubCounter
    /\ d.recorded > 0 => d.row[1] > 0

LEMMA RecordMoves ==
    ASSUME NEW d, NEW e, Records(d)
    PROVE  /\ Same(d, e, {}) => Records(e) /\ Rises(d, e) /\ e.SubCounter = d.SubCounter
           /\ Same(d, e, {"Pressure"}) => Records(e) /\ Rises(d, e) /\ e.SubCounter = d.SubCounter
           /\ \A c \in Nat : c >= d.SubCounter /\ Sets(d, e, "SubCounter", c)
                               => Records(e) /\ Rises(d, e) /\ e.SubCounter = c
           /\ /\ Same(d, e, {"recorded", "row"}) /\ d.SubCounter > 0
              /\ \/ e.row = d.row /\ e.recorded = d.recorded
                 \/ e.row = <<d.SubCounter, d.Pressure>> /\ e.recorded = d.recorded + 1
              => Records(e) /\ Rises(d, e) /\ e.SubCounter = d.SubCounter
<1>0. /\ {"SubCounter", "Pressure", "recorded", "row", "sent"} \subseteq DOMAIN d
      /\ d.SubCounter \in Nat /\ d.recorded \in Nat /\ d.row[1] \in Nat /\ d.sent[1] \in Nat
      /\ d.row[1] <= d.SubCounter /\ (d.recorded > 0 => d.row[1] > 0)
  BY DEF Records
<1>1. Same(d, e, {}) => Records(e) /\ Rises(d, e) /\ e.SubCounter = d.SubCounter
  BY <1>0 DEF Records, Rises, Same, CounterNames
<1>2. Same(d, e, {"Pressure"}) => Records(e) /\ Rises(d, e) /\ e.SubCounter = d.SubCounter
  BY <1>0 DEF Records, Rises, Same, CounterNames
<1>3. ASSUME NEW c \in Nat, c >= d.SubCounter, Sets(d, e, "SubCounter", c)
      PROVE  Records(e) /\ Rises(d, e) /\ e.SubCounter = c
  <2>1. /\ DOMAIN e = DOMAIN d /\ e.SubCounter = c /\ e.row = d.row /\ e.recorded = d.recorded
        /\ e.sent = d.sent
    BY <1>0, <1>3 DEF Sets, Same, CounterNames
  <2>2. QED BY <1>0, <1>3, <2>1 DEF Records, Rises
<1>4. ASSUME Same(d, e, {"recorded", "row"}), d.SubCounter > 0,
             \/ e.row = d.row /\ e.recorded = d.recorded
             \/ e.row = <<d.SubCounter, d.Pressure>> /\ e.recorded = d.recorded + 1
      PROVE  Records(e) /\ Rises(d, e) /\ e.SubCounter = d.SubCounter
  <2>1. DOMAIN e = DOMAIN d /\ e.SubCounter = d.SubCounter /\ e.sent = d.sent
    BY <1>0, <1>4 DEF Same, CounterNames
  <2>2. QED BY <1>0, <1>4, <2>1 DEF Records, Rises
<1>5. QED BY <1>1, <1>2, <1>3, <1>4

RecorderCut ==
    CHOOSE a : CutAt(NS!subscriberProgram.main, a, RecorderBefore, Spawn("user"), RecorderBehind)

\* The user thread is about to record only after it has seen a counter; its step 6.
RecorderInv ==
    /\ pc \in [{"main", "subscriber", "user"} -> Int]
    /\ Records(data)
    /\ pc["subscriber"] = 0
    /\ pc["user"] = 6 => data.SubCounter > 0
    /\ pc["main"] <= RecorderCut => pc["user"] = 0 /\ data.SubCounter = 0

LEMMA RecorderCode ==
    ASSUME prog = "nodesetSubscriber",
           Programs["nodesetSubscriber"] = RealtimePrograms["nodesetSubscriber"]
    PROVE  /\ IsCode(Code("main")) /\ RecorderCut \in Int
           /\ CutAt(Code("main"), RecorderCut, RecorderBefore, Spawn("user"), RecorderBehind)
           /\ Code("user") = NS!userApplicationSub /\ Code("subscriber") = NS!subscriber
<1>1. Programs[prog].threads = NS!subscriberProgram
  BY DEF RealtimePrograms
<1>2. Code("main") = NS!subscriberProgram.main
  BY <1>1 DEF Code
<1>3. Code("user") = NS!userApplicationSub /\ Code("subscriber") = NS!subscriber
  BY <1>1 DEF Code, NS!subscriberProgram
<1>4. /\ IsCode(NS!subscriberProgram.main)
      /\ CutAt(NS!subscriberProgram.main, RecorderCut, RecorderBefore, Spawn("user"),
           RecorderBehind)
  BY NSMain DEF Phased, RecorderCut
<1>5. RecorderCut \in Int
  BY <1>4, CodeLength DEF CutAt
<1>6. QED BY <1>2, <1>3, <1>4, <1>5

\* The user thread comes to the step that records from the one before it, which lets it
\* through if there is a counter.
LEMMA RecorderLeads ==
    ASSUME NEW n \in 1 .. 7, NEW m, Leads(NS!userApplicationSub, n, m)
    PROVE  m \in Int /\ (m = 6 => n = 5)
<1> DEFINE A == NS!userApplicationSub
<1>1. /\ IsCode(A) /\ Len(A) = 7 /\ DOMAIN A = 1 .. 7
      /\ A[1].op = "unless" /\ A[1].skip = 6 /\ A[2].op = "unless" /\ A[2].skip = 1
      /\ A[3].op = "jump" /\ A[3].skip = 1 /\ A[4].op = "unless" /\ A[4].skip = 2
      /\ A[5].op = "unless" /\ A[5].skip = 1 /\ A[6].op = "do"
      /\ A[7].op = "jump" /\ A[7].skip = -7
  BY NSThreads, CodeLength DEF Unless, Jump, Reads, Do, Blank
<1> HIDE DEF A
<1>2. Leads(A, n, m)
  BY DEF A
<1>3. /\ Land(A, 1) = 1 /\ Land(A, 2) = 2 /\ Land(A, 3) = 5 /\ Land(A, 4) = 4 /\ Land(A, 5) = 5
      /\ Land(A, 6) = 6 /\ Land(A, 7) = 1 /\ Land(A, 8) = 8
  BY <1>1 DEF Land
<1>4. CASE n = 1
  BY <1>1, <1>2, <1>3, <1>4 DEF Leads
<1>5. CASE n = 2
  BY <1>1, <1>2, <1>3, <1>5 DEF Leads
<1>6. CASE n = 3
  BY <1>1, <1>2, <1>3, <1>6 DEF Leads
<1>7. CASE n = 4
  BY <1>1, <1>2, <1>3, <1>7 DEF Leads
<1>8. CASE n = 5
  BY <1>1, <1>2, <1>3, <1>8 DEF Leads
<1>9. CASE n = 6
  BY <1>1, <1>2, <1>3, <1>9 DEF Leads, Branches
<1>10. CASE n = 7
  BY <1>1, <1>2, <1>3, <1>10 DEF Leads
<1>11. QED BY <1>4, <1>5, <1>6, <1>7, <1>8, <1>9, <1>10

LEMMA RecorderStep ==
    ASSUME EffectsGiven, prog = "nodesetSubscriber",
           Programs["nodesetSubscriber"] = RealtimePrograms["nodesetSubscriber"],
           RecorderInv, NEW t \in DOMAIN pc, Step(t)
    PROVE  prog' = prog /\ RecorderInv' /\ Rises(data, data')
<1>1. /\ pc \in [{"main", "subscriber", "user"} -> Int]
      /\ DOMAIN pc = {"main", "subscriber", "user"} /\ pc \in [DOMAIN pc -> Int]
      /\ Records(data) /\ pc["subscriber"] = 0
      /\ pc["user"] = 6 => data.SubCounter > 0
      /\ pc["main"] <= RecorderCut => pc["user"] = 0 /\ data.SubCounter = 0
  BY DEF RecorderInv
<1>2. \A name, e : e \in Effect(prog, name, data)
        => e \in RealtimeEffect("nodesetSubscriber", name, data)
  BY NamesGiven DEF EffectsGiven
<1>3. RecorderCut \in Int /\ data.SubCounter \in Nat
  BY <1>1, RecorderCode DEF Records
<1>4. CASE t = "main"
  <2> DEFINE D == {"take counter", "take pressure"}
             Z == {"SubCounter", "Pressure"}
  <2>1. Act(Spawn("user"), May({}, {"user"}, {}, {}))
    BY StepRules DEF May
  <2>2. D = {"take counter", "take pressure"} /\ Z = {"SubCounter", "Pressure"}
    OBVIOUS
  <2>3. RecorderBefore = May({}, {}, Z, Endings) /\ RecorderBehind = May(D, {}, {}, Endings)
    BY DEF RecorderBefore, RecorderBehind
  <2> HIDE DEF D, Z
  <2>4. /\ IsCode(Code("main"))
        /\ CutAt(Code("main"), RecorderCut, May({}, {}, Z, Endings), Spawn("user"),
                 May(D, {}, {}, Endings))
    BY <2>3, RecorderCode
  <2>5. /\ prog' = prog /\ pc' \in [DOMAIN pc -> Int]
        /\ \/ pc' = pc
           \/ pc["main"] < RecorderCut /\ pc'["main"] <= RecorderCut
           \/ pc["main"] >= RecorderCut /\ pc'["main"] > RecorderCut
        /\ \A u \in DOMAIN pc \ {"main"} :
                \/ pc'[u] = pc[u]
                \/ /\ pc'[u] = 1
                   /\ \/ pc["main"] < RecorderCut /\ u \in {}
                      \/ pc["main"] = RecorderCut /\ u \in {"user"}
                      \/ pc["main"] > RecorderCut /\ u \in {}
        /\ \/ Same(data, data', {})
           \/ pc["main"] < RecorderCut /\ \E v \in Z : Sets(data, data', v, 0)
           \/ pc["main"] > RecorderCut /\ \E name \in D : data' \in Effect(prog, name, data)
    BY <1>1, <1>4, <2>4, <2>1, Preparing
  <2>6. /\ Records(data') /\ Rises(data, data') /\ data'.SubCounter \in Nat
        /\ data'.SubCounter >= data.SubCounter
        /\ pc["main"] <= RecorderCut => data'.SubCounter = data.SubCounter
    <3>1. CASE Same(data, data', {})
      BY <1>1, <1>3, <3>1, RecordMoves
    <3>2. CASE pc["main"] < RecorderCut /\ \E v \in Z : Sets(data, data', v, 0)
      <4>1. data.SubCounter = 0
        BY <1>1, <1>3, <3>2
      <4>2. Sets(data, data', "SubCounter", 0) \/ Sets(data, data', "Pressure", 0)
        BY <2>2, <3>2, Zenon
      <4>3. CASE Sets(data, data', "SubCounter", 0)
        BY <1>1, <1>3, <4>1, <4>3, RecordMoves
      <4>4. CASE Sets(data, data', "Pressure", 0)
        <5>1. Same(data, data', {"Pressure"})
          BY <4>4 DEF Sets
        <5>2. QED BY <1>1, <1>3, <5>1, RecordMoves
      <4>5. QED BY <4>2, <4>3, <4>4
    <3>3. CASE pc["main"] > RecorderCut /\ \E name \in D : data' \in Effect(prog, name, data)
      <4>1. \/ data' \in RealtimeEffect("nodesetSubscriber", "take counter", data)
            \/ data' \in RealtimeEffect("nodesetSubscriber", "take pressure", data)
        BY <1>2, <2>2, <3>3, Zenon
      <4>2. CASE data' \in RealtimeEffect("nodesetSubscriber", "take counter", data)
        <5>1. PICK c \in data.SubCounter .. MaxCounter["nodesetSubscriber"] :
                    Sets(data, data', "SubCounter", c)
          BY <4>2, TakeEffects, Zenon
        <5>2. c \in Nat /\ c >= data.SubCounter
          BY <1>3, NamesGiven
        <5>3. Records(data') /\ Rises(data, data') /\ data'.SubCounter = c
          BY <1>1, <5>1, <5>2, RecordMoves
        <5>4. ~(pc["main"] <= RecorderCut)
          BY <1>1, <1>3, <3>3
        <5>5. QED BY <5>2, <5>3, <5>4
      <4>3. CASE data' \in RealtimeEffect("nodesetSubscriber", "take pressure", data)
        <5>1. Same(data, data', {"Pressure"})
          BY <4>3, TakeEffects, Zenon
        <5>2. QED BY <1>1, <1>3, <5>1, RecordMoves
      <4>4. QED BY <4>1, <4>2, <4>3, Zenon
    <3>4. QED BY <2>5, <3>1, <3>2, <3>3
  <2>7. pc'["subscriber"] = 0
    BY <1>1, <2>5
  <2>8. pc'["user"] = 6 => data'.SubCounter > 0
    BY <1>1, <1>3, <2>5, <2>6
  <2>9. pc'["main"] <= RecorderCut => pc'["user"] = 0 /\ data'.SubCounter = 0
    BY <1>1, <1>3, <2>5, <2>6
  <2>10. QED BY <1>1, <2>5, <2>6, <2>7, <2>8, <2>9 DEF RecorderInv
<1>5. CASE t = "user"
  <2> DEFINE A == NS!userApplicationSub
             D == IF pc["user"] = 6 THEN {"updateMeasurementsSubscriber"} ELSE {}
             k == May(D, {}, {}, {})
  <2>0. A = Code("user") /\ Len(A) = 7 /\ DOMAIN A = 1 .. 7 /\ IsCode(A)
    BY NSThreads, RecorderCode, CodeLength
  <2>1. pc["user"] \in 1 .. 7
    BY <1>5, <2>0 DEF Step, Running
  <2>2. Obeys(A[pc["user"]], k)
    <3>1. k.compute = D /\ k.create = {} /\ k.clear = {} /\ k.exit = {}
      BY DEF May
    <3> HIDE DEF k
    <3>2. /\ Obeys(A[1], k) /\ Obeys(A[2], k) /\ Obeys(A[3], k) /\ Obeys(A[4], k)
          /\ Obeys(A[5], k) /\ Obeys(A[7], k)
      <4>1. \A c, n : Obeys(Unless(c, n), k) /\ Obeys(Jump(n), k)
        BY BranchRules
      <4>2. \A xs, c, n : Obeys(Reads(xs, Unless(c, n)), k)
        BY ReadRules
      <4>3. /\ A[1] = Unless("running", 6) /\ A[2] = Unless("fileWrite", 1) /\ A[3] = Jump(1)
            /\ A[4] = Unless("consolePrint", 2) /\ A[7] = Jump(-7)
        BY NSThreads
      <4>4. A[5] = Reads({"subCounterData"}, Unless("SubCounter", 1))
        BY NSThreads
      <4>5. QED BY <4>1, <4>2, <4>3, <4>4
    <3>3. pc["user"] = 6 => Obeys(A[6], k)
      BY <3>1, NSThreads, ReadRules
    <3>4. \A i \in 1 .. 7 : i \in {1, 2, 3, 4, 5, 6, 7}
      OBVIOUS
    <3>5. QED BY <2>1, <3>2, <3>3, <3>4
  <2>3. D \subseteq {"updateMeasurementsSubscriber"} /\ (D # {} => pc["user"] = 6)
    OBVIOUS
  <2>4. A[5].op = "unless" /\ A[5].arg = "SubCounter" /\ A[5].skip = 1 /\ A[7].op = "jump"
          /\ A[7].skip = -7
    BY NSThreads, StepFields
  <2> HIDE DEF A, D
  <2>5. /\ prog' = prog /\ pc' = [u \in DOMAIN pc |-> pc'[u]]
        /\ \A u \in DOMAIN pc \ {"user"} : pc'[u] = pc[u]
        /\ pc' = pc \/ Leads(A, pc["user"], pc'["user"])
        /\ \/ Same(data, data', {})
           \/ \E name \in D : data' \in Effect(prog, name, data)
    BY <1>1, <1>5, <2>0, <2>2, Stepping
  <2>6. Records(data') /\ Rises(data, data') /\ data'.SubCounter = data.SubCounter
    <3>1. CASE Same(data, data', {})
      BY <1>1, <3>1, RecordMoves
    <3>2. CASE \E name \in D : data' \in Effect(prog, name, data)
      <4>1. data' = Record("nodesetSubscriber", data, data.SubCounter) /\ data.SubCounter > 0
        <5>1. PICK name \in D : data' \in Effect(prog, name, data)
          BY <3>2
        <5>2. name = "updateMeasurementsSubscriber" /\ pc["user"] = 6
          BY <2>3, <5>1
        <5>3. data' \in RealtimeEffect("nodesetSubscriber", "updateMeasurementsSubscriber", data)
          BY <1>2, <5>1, <5>2
        <5>4. QED BY <1>1, <5>2, <5>3, RecordEffects
      <4>2. {"recorded", "row"} \subseteq DOMAIN data
        BY <1>1 DEF Records
      <4>3. /\ Same(data, data', {"recorded", "row"})
            /\ \/ data'.row = data.row /\ data'.recorded = data.recorded
               \/ data'.row = <<data.SubCounter, data.Pressure>> /\ data'.recorded
                    = data.recorded + 1
        BY <4>1, <4>2, Recorded
      <4>4. QED BY <1>1, <4>1, <4>3, RecordMoves
    <3>3. QED BY <2>5, <3>1, <3>2
  <2>7. pc'["user"] \in Int /\ (pc'["user"] = 6 => pc' = pc \/ pc["user"] = 5)
    BY <1>1, <2>1, <2>5, RecorderLeads DEF A
  <2>8. pc'["user"] = 6 => data.SubCounter > 0
    <3>1. CASE pc' = pc
      BY <1>1, <3>1
    <3>2. CASE pc' # pc /\ pc'["user"] = 6
      <4>1. pc["user"] = 5
        BY <2>7, <3>2
      <4>2. \/ pc'["user"] = Land(A, 5 + 1) /\ Holds("SubCounter")
            \/ pc'["user"] = Land(A, 5 + 1 + 1)
        BY <1>1, <1>5, <2>0, <2>4, <3>2, <4>1, Testing
      <4>3. Land(A, 5 + 1 + 1) = 1
        BY <2>0, <2>4 DEF Land
      <4>4. Holds("SubCounter")
        BY <3>2, <4>2, <4>3
      <4>5. "SubCounter" \in DOMAIN data
        BY <1>1 DEF Records
      <4>6. QED BY <1>3, <4>4, <4>5 DEF Holds
    <3>3. QED BY <3>1, <3>2
  <2>9. pc' \in [DOMAIN pc -> Int] /\ pc'["subscriber"] = 0 /\ ~(pc'["main"] <= RecorderCut)
    <3>1. pc'["subscriber"] = pc["subscriber"] /\ pc'["main"] = pc["main"]
      BY <1>1, <2>5
    <3>2. ~(pc["main"] <= RecorderCut)
      BY <1>1, <2>1
    <3>3. \A u \in DOMAIN pc : pc'[u] \in Int
      BY <1>1, <2>5, <2>7
    <3>4. QED BY <1>1, <2>5, <3>1, <3>2, <3>3
  <2>10. QED BY <1>1, <2>5, <2>6, <2>8, <2>9 DEF RecorderInv
<1>6. CASE t = "subscriber"
  BY <1>1, <1>6, RecorderCode, NSThreads, CodeLength DEF Step, Running
<1>7. QED BY <1>1, <1>4, <1>5, <1>6

LEMMA RecorderStart ==
    ASSUME Init, prog = "nodesetSubscriber",
           Programs["nodesetSubscriber"] = RealtimePrograms["nodesetSubscriber"]
    PROVE  RecorderInv
<1>1. Threads(prog) = {"main", "subscriber", "user"}
  BY DEF RealtimePrograms, Threads, NS!subscriberProgram
<1>2. /\ pc \in [{"main", "subscriber", "user"} -> Int]
      /\ pc["user"] = 0 /\ pc["subscriber"] = 0
  BY <1>1 DEF Init
<1>3. data = Both(NS!Globals, Nodes)
  BY DEF Init, RealtimePrograms
<1>4. /\ {"SubCounter", "Pressure", "recorded", "row", "sent"} \subseteq DOMAIN data
      /\ data.SubCounter = 0 /\ data.recorded = 0 /\ data.row = <<0, 0>> /\ data.sent = <<0, 0>>
  <2>1. DOMAIN NS!Globals \cap {"SubCounter", "Pressure", "recorded", "row", "sent"} = {}
    BY DEF NS!Globals
  <2>2. /\ {"SubCounter", "Pressure", "recorded", "row", "sent"} \subseteq DOMAIN Nodes
        /\ Nodes.SubCounter = 0 /\ Nodes.recorded = 0 /\ Nodes.row = <<0, 0>> /\ Nodes.sent
             = <<0, 0>>
    BY DEF Nodes
  <2>3. QED BY <1>3, <2>1, <2>2 DEF Both
<1>5. Records(data) /\ data.SubCounter = 0
  BY <1>4 DEF Records
<1>6. QED BY <1>2, <1>5 DEF RecorderInv

LEMMA NPSteps ==
    /\ \A m, n : NP!Call(m, n) = Call(m, n)
    /\ \A s : NP!Sure(s) = Sure(s)
    /\ \A v, s : NP!Into(v, s) = Into(v, s)
    /\ \A v, s : NP!OrInto(v, s) = OrInto(v, s)
    /\ \A m : NP!Deref(m) = Deref(m)
    /\ \A m : NP!Free(m) = Free(m)
    /\ \A m, s : NP!Reads(m, s) = Reads(m, s)
    /\ \A v, n : NP!Put(v, n) = Put(v, n)
    /\ \A v : NP!Do(v) = Do(v)
    /\ NP!Signal = Signal
    /\ \A v : NP!Spawn(v) = Spawn(v)
    /\ \A v : NP!Wait(v) = Wait(v)
    /\ \A v : NP!Join(v) = Join(v)
    /\ \A v : NP!Exit(v) = Exit(v)
    /\ \A v, s : NP!If(v, s) = If(v, s)
    /\ \A v, s : NP!IfNot(v, s) = IfNot(v, s)
    /\ \A v, s : NP!While(v, s) = While(v, s)
    /\ \A v, n, s : NP!Either(v, n, s) = Either(v, n, s)
    /\ \A s : NP!Maybe(s) = Maybe(s)
    /\ \A v : NP!New(v) = New(v)
    /\ \A v, n : NP!RunServer(v, n) = RunServer(v, n)
BY DEF NP!Call, Call, NP!Sure, Sure, NP!Into, Into, NP!OrInto, OrInto, NP!Deref, Deref,
   NP!Free, Free, NP!Reads, Reads, NP!Put, Put, NP!Do, Do, NP!Signal, Signal, NP!Spawn,
   Spawn, NP!Wait, Wait, NP!Join, Join, NP!Exit, Exit, NP!If, If, NP!IfNot, IfNot,
   NP!While, While, NP!Either, Either, NP!Maybe, Maybe, NP!New, New, NP!RunServer,
   RunServer, NP!Blank, Blank, NP!Unless, Unless, NP!Jump, Jump

-----------------------------------------------------------------------------
(* The nodeset's publisher.                                                *)

\* main() and the library create the publisher's thread before the user thread.
SenderBefore == May({}, {"publisher"}, {"PubCounter", "Pressure"}, Endings)
SenderBehind == May({}, {}, {}, Endings)
SenderNames == {"publish counter", "publish pressure"}

LEMMA NPMain == Phased(NP!publisher.main, SenderBefore, Spawn("user"), SenderBehind)
<1> DEFINE k == SenderBefore
           l == SenderBehind
           x == Spawn("user")
<1>1. /\ k.exit = Endings /\ k.clear = {"PubCounter", "Pressure"} /\ k.create = {"publisher"}
      /\ l.exit = Endings
  BY DEF SenderBefore, SenderBehind, May
<1> HIDE DEF k, l, x
<1>2. Flows(NP!Options, k)
  BY <1>1, StepRules, Listed, FlowRules, FlowsJoined, NPSteps DEF NP!Options, Endings, CounterNames
<1>3. Flows(NP!_addDataSetField, k)
  <2>1. /\ Act(NP!New("pubCounterData"), k)
             /\ Act(NP!Reads({"pubCounterData"}, NP!Put("PubCounter", 0)), k)
        /\ Act(NP!New("pubDataValueRT"), k) /\ Act(NP!Deref({"pubDataValueRT"}), k)
        /\ Act(NP!Backend, k) /\ Act(NP!Call({}, {"publishedDataSetIdent", "nodes"}), k)
        /\ Act(NP!New("pressureData"), k)
             /\ Act(NP!Reads({"pressureData"}, NP!Put("Pressure", 0)), k)
        /\ Act(NP!New("pressureValueRT"), k) /\ Act(NP!Deref({"pressureValueRT"}), k)
    BY <1>1, StepRules, NPSteps DEF NP!Backend
  <2>2. QED BY <2>1, Listed DEF NP!_addDataSetField
<1>4. /\ Flows(NP!addPubSubConnection, k) /\ Flows(NP!addPublishedDataSet, k)
      /\ Flows(NP!addDataSetWriter, k)
  BY StepRules, Listed, NPSteps
  DEF NP!addPubSubConnection, NP!addPublishedDataSet, NP!addDataSetWriter
<1>5. ASSUME NEW t
      PROVE  /\ Flows(<<NP!Into("returnValue", NP!Call({}, {}))>>, k)
             /\ Flows(NP!If("returnValue", <<NP!Exit("failure")>>), k)
             /\ Flows(<<NP!Into("errorSetAffinity", NP!Call({}, {}))>>, k)
             /\ Flows(NP!If("errorSetAffinity", <<NP!Exit("failure")>>), k)
  BY <1>1, NPSteps, StepRules, Listed, FlowRules DEF Endings, CounterNames
<1>6. Flows(NP!threadCreation("publisher"), k)
  <2>1. Flows(<<NP!Spawn("publisher")>>, k)
    BY <1>1, NPSteps, StepRules, Listed
  <2>2. QED BY <1>5, <2>1, FlowsJoined DEF NP!threadCreation
<1>7. Phased(NP!threadCreation("user"), k, x, l)
  <2>1. Phased(<<NP!Spawn("user")>>, k, x, l)
    BY NPSteps, PhaseListed DEF x
  <2>2. QED BY <1>5, <2>1, FlowsJoined, PhaseBefore DEF NP!threadCreation
<1>8. Flows(NP!addWriterGroup, k)
  <2>1. Flows(NP!addPubSubApplicationCallback, k)
    <3>1. /\ Flows(<<NP!New("threadArguments"), NP!Deref({"threadArguments"})>>, k)
          /\ Flows(<<NP!Sure(NP!New("pubthreadID"))>>, k)
      BY NPSteps, StepRules, Listed
    <3>2. QED BY <1>6, <3>1, FlowsJoined DEF NP!addPubSubApplicationCallback
  <2>2. Flows(NP!IfNot("refused", NP!addPubSubApplicationCallback), k)
    BY <2>1, NPSteps, FlowRules
  <2>3. /\ Act(NP!New("writerGroupMessage"), k)
        /\ Act(NP!Reads({"writerGroupMessage"},
             NP!Call({"writerGroupIdent"}, {"connectionIdent"})), k)
        /\ Act(NP!Into("refused", NP!Call({}, {"writerGroupIdent"})), k)
        /\ Act(NP!Free({"writerGroupMessage"}), k)
    BY NPSteps, StepRules DEF CounterNames
  <2>4. QED BY <2>2, <2>3, Listed, FlowsJoined DEF NP!addWriterGroup
<1>9. Phased(NP!SetUp, k, x, l)
  <2>1. /\ Flows(<<NP!Call({}, {"writerGroupIdent"})>>, k)
        /\ Flows(<<NP!New("serverConfig"), NP!Deref({"serverConfig"})>>, k)
    BY StepRules, Listed, NPSteps
  <2>2. Flows(NP!addPubSubConnection \o NP!addPublishedDataSet \o NP!_addDataSetField
              \o NP!addWriterGroup \o NP!addDataSetWriter \o <<NP!Call({}, {"writerGroupIdent"})>>
              \o <<NP!New("serverConfig"), NP!Deref({"serverConfig"})>>, k)
    BY <1>3, <1>4, <1>8, <2>1, FlowsJoined
  <2>3. QED BY <1>7, <2>2, PhaseBefore DEF NP!SetUp
<1>10. Flows(NP!Run, l)
  <2>1. Flows(NP!RunServer("retval", "running"), l)
    BY MoreRules, NPSteps DEF CounterNames
  <2>2. /\ Flows(NP!Maybe(<<NP!Deref({"pubthreadID"})>>), l)
        /\ Flows(<<NP!Join("publisher"), NP!Join("user")>>, l)
    BY StepRules, Listed, FlowRules, NPSteps
  <2>3. QED BY <2>1, <2>2, FlowsJoined DEF NP!Run
<1>11. Flows(NP!CleanUp, l)
  <2>1. Flows(NP!If("fileWrite", <<NP!Deref({"fpPublisher"})>>), l)
    BY StepRules, Listed, FlowRules, NPSteps
  <2>2. Flows(<<NP!Free({"server"}), NP!Free({"serverConfig"}), NP!Free({"pubCounterData"}),
                NP!Free({"pubDataValueRT"}), NP!Free({"pressureData"}),
                  NP!Free({"pressureValueRT"}),
                NP!Exit("retval")>>, l)
    BY <1>1, StepRules, Listed, NPSteps DEF Endings
  <2>3. QED BY <2>1, <2>2, FlowsJoined DEF NP!CleanUp
<1>12. Phased(NP!Options \o NP!SetUp, k, x, l)
  BY <1>2, <1>9, PhaseBefore
<1>13. Phased(NP!Options \o NP!SetUp \o NP!Run \o NP!CleanUp, k, x, l)
  BY <1>10, <1>11, <1>12, PhaseBehind
<1>14. QED BY <1>13 DEF k, l, x, NP!publisher

\* The code of its other threads; the names of computations are not looked into.
CountOn == "count on"
PressOn == "press on"

LEMMA NPThreads ==
    LET A == NP!userApplicationPub
    IN  /\ Flows(NP!publisherETF, May(SenderNames, {}, {}, {}))
        /\ IsCode(A) /\ Len(A) = 9
        /\ A[1] = Reads({"pubCounterData"}, Put("PubCounter", 0))
        /\ A[2] = Unless("running", 7)
        /\ A[3] = Reads({"pubCounterData"}, Do(CountOn))
        /\ A[4] = Reads({"pressureData"}, Do(PressOn))
        /\ A[5] = Unless("fileWrite", 1) /\ A[6] = Jump(1) /\ A[7] = Unless("consolePrint", 1)
        /\ A[8] = Reads({"pubCounterData", "pressureData"}, Do("updateMeasurementsPublisher"))
        /\ A[9] = Jump(-8)
<1> DEFINE s == Reads({"pubCounterData", "pressureData"}, Do("updateMeasurementsPublisher"))
           r == Reads({"pubCounterData"}, Put("PubCounter", 0))
           c == Reads({"pubCounterData"}, Do(CountOn))
           p == Reads({"pressureData"}, Do(PressOn))
           F == <<s>>
           E == Either("fileWrite", "consolePrint", F)
           G == <<c, p>>
           B == G \o E
           W == While("running", B)
           R == <<r>>
           A == R \o W
<1>1. NP!userApplicationPub = A
  BY NPSteps, Zenon DEF NP!userApplicationPub, CountOn, PressOn
<1>2. Flows(NP!publisherETF, May(SenderNames, {}, {}, {}))
  <2>1. \A k : k.compute = SenderNames => Flows(NP!publisherETF, k)
    BY StepRules, Listed, FlowRules, FlowsJoined, NPSteps, Zenon DEF NP!publisherETF, SenderNames
  <2>2. May(SenderNames, {}, {}, {}).compute = SenderNames
    BY DEF May
  <2>3. QED BY <2>1, <2>2
<1>3. /\ IsCode(F) /\ Len(F) = 1 /\ F[1] = s
      /\ IsCode(G) /\ Len(G) = 2 /\ G[1] = c /\ G[2] = p
      /\ IsCode(R) /\ Len(R) = 1 /\ R[1] = r
  BY DEF IsCode, Range
<1> HIDE DEF s, r, c, p, A, B, E, F, G, R, W
<1>4. /\ IsCode(E) /\ Len(E) = 4 /\ E[1] = Unless("fileWrite", 1) /\ E[2] = Jump(1)
      /\ E[3] = Unless("consolePrint", 1) /\ E[4] = s
  <2>1. IsCode(F)
    BY <1>3
  <2>2. /\ IsCode(E) /\ Len(E) = Len(F) + 3 /\ E[1] = Unless("fileWrite", 1) /\ E[2] = Jump(1)
        /\ E[3] = Unless("consolePrint", Len(F))
        /\ \A i \in 1 .. Len(F) : E[i + 3] = F[i]
    BY <2>1, Shapes DEF E
  <2>3. E[1 + 3] = F[1]
    BY <1>3, <2>2
  <2>4. QED BY <1>3, <2>2, <2>3
<1>5. /\ IsCode(B) /\ Len(B) = 6 /\ B[1] = c /\ B[2] = p /\ B[3] = E[1] /\ B[4] = E[2]
      /\ B[5] = E[3] /\ B[6] = E[4]
  <2>1. IsCode(G) /\ IsCode(E)
    BY <1>3, <1>4
  <2>2. /\ IsCode(B) /\ Len(B) = Len(G) + Len(E)
        /\ \A i \in 1 .. Len(G) : B[i] = G[i]
        /\ \A i \in 1 .. Len(E) : B[i + Len(G)] = E[i]
    BY <2>1, Ahead DEF B
  <2>3. B[1 + 2] = E[1] /\ B[2 + 2] = E[2] /\ B[3 + 2] = E[3] /\ B[4 + 2] = E[4]
    BY <1>3, <1>4, <2>2
  <2>4. Len(B) = 6
    BY <1>3, <1>4, <2>2
  <2>5. B[1] = G[1] /\ B[2] = G[2]
    BY <1>3, <2>2
  <2>6. B[3] = E[1] /\ B[4] = E[2] /\ B[5] = E[3] /\ B[6] = E[4]
    BY <2>3
  <2>7. G[1] = c /\ G[2] = p /\ IsCode(B)
    BY <1>3, <2>2
  <2>8. QED BY <2>4, <2>5, <2>6, <2>7
<1>6. /\ IsCode(W) /\ Len(W) = 8 /\ W[1] = Unless("running", 7) /\ W[2] = B[1] /\ W[3] = B[2]
      /\ W[4] = B[3] /\ W[5] = B[4] /\ W[6] = B[5] /\ W[7] = B[6] /\ W[8] = Jump(-8)
  <2>1. IsCode(B)
    BY <1>5
  <2>2. IsCode(W) /\ Len(W) = Len(B) + 2 /\ W[1] = Unless("running", Len(B) + 1)
    BY <2>1, WhileShape DEF W
  <2>3. W[Len(B) + 2] = Jump(-(Len(B) + 2))
    BY <2>1, WhileShape DEF W
  <2>4. \A i \in 1 .. Len(B) : W[i + 1] = B[i]
    BY <2>1, WhileShape DEF W
  <2>5. /\ W[1 + 1] = B[1] /\ W[2 + 1] = B[2] /\ W[3 + 1] = B[3] /\ W[4 + 1] = B[4]
        /\ W[5 + 1] = B[5] /\ W[6 + 1] = B[6]
    BY <1>5, <2>4
  <2>6. QED BY <1>5, <2>2, <2>3, <2>5
<1>7. /\ IsCode(A) /\ Len(A) = 9 /\ A[1] = r /\ A[2] = W[1] /\ A[3] = W[2] /\ A[4] = W[3]
      /\ A[5] = W[4] /\ A[6] = W[5] /\ A[7] = W[6] /\ A[8] = W[7] /\ A[9] = W[8]
  <2>1. IsCode(R) /\ IsCode(W)
    BY <1>3, <1>6
  <2>2. /\ IsCode(A) /\ Len(A) = Len(R) + Len(W)
        /\ \A i \in 1 .. Len(R) : A[i] = R[i]
        /\ \A i \in 1 .. Len(W) : A[i + Len(R)] = W[i]
    BY <2>1, Ahead DEF A
  <2>3. /\ A[1 + 1] = W[1] /\ A[2 + 1] = W[2] /\ A[3 + 1] = W[3] /\ A[4 + 1] = W[4]
        /\ A[5 + 1] = W[5] /\ A[6 + 1] = W[6] /\ A[7 + 1] = W[7] /\ A[8 + 1] = W[8]
    BY <1>3, <1>6, <2>2
  <2>4. Len(A) = 9
    BY <1>3, <1>6, <2>2
  <2>5. A[1] = R[1]
    BY <1>3, <2>2
  <2>6. /\ A[2] = W[1] /\ A[3] = W[2] /\ A[4] = W[3] /\ A[5] = W[4] /\ A[6] = W[5]
        /\ A[7] = W[6] /\ A[8] = W[7] /\ A[9] = W[8]
    BY <2>3
  <2>7. R[1] = r /\ IsCode(A)
    BY <1>3, <2>2
  <2>8. QED BY <2>4, <2>5, <2>6, <2>7
<1>8. QED BY <1>1, <1>2, <1>4, <1>5, <1>6, <1>7 DEF s, r, c, p

\* What the nodeset's publisher has sent and recorded it had counted; a pressure that it
\* has, or has sent, is at most one step behind its counter.
Sends(d) ==
    /\ {"PubCounter", "Pressure", "encoded", "sent", "recorded", "row"} \subseteq DOMAIN d
    /\ d.PubCounter \in Nat /\ d.Pressure \in Nat /\ d.encoded \in Nat
    /\ d.sent[1] \in Nat /\ d.sent[2] \in Nat /\ d.row[1] \in Nat
    /\ d.sent[1] <= d.encoded /\ d.encoded <= d.PubCounter /\ d.row[1] <= d.PubCounter
    /\ d.PubCounter <= MaxCounter["nodesetPublisher"]
    /\ d.PubCounter <= d.Pressure + 1 /\ d.sent[1] <= d.sent[2] + 1

LEMMA RaiseRules ==
    ASSUME NEW n \in Nat
    PROVE  LET r == Raise("nodesetPublisher", n)
               m == MaxCounter["nodesetPublisher"]
           IN  /\ m \in Nat /\ r \in Nat /\ n <= r /\ r <= n + 1
               /\ n <= m => r <= m
               /\ n < m => r = n + 1
BY NamesGiven DEF Raise

LEMMA SendMoves ==
    ASSUME NEW d, NEW e, Sends(d)
    PROVE  /\ Same(d, e, {}) =>
                Sends(e) /\ Rises(d, e) /\ e.PubCounter = d.PubCounter /\ e.Pressure = d.Pressure
           /\ Sets(d, e, "PubCounter", d.PubCounter) =>
                Sends(e) /\ Rises(d, e) /\ e.PubCounter = d.PubCounter /\ e.Pressure = d.Pressure
           /\ Sets(d, e, "Pressure", d.Pressure) =>
                Sends(e) /\ Rises(d, e) /\ e.PubCounter = d.PubCounter /\ e.Pressure = d.Pressure
           /\ Sets(d, e, "encoded", d.PubCounter) =>
                Sends(e) /\ Rises(d, e) /\ e.PubCounter = d.PubCounter /\ e.Pressure = d.Pressure
           /\ Sets(d, e, "sent", <<d.encoded, d.Pressure>>) =>
                Sends(e) /\ Rises(d, e) /\ e.PubCounter = d.PubCounter /\ e.Pressure = d.Pressure
           /\ /\ Same(d, e, {"recorded", "row"})
              /\ e.row = d.row \/ e.row = <<d.PubCounter, d.Pressure>>
              => Sends(e) /\ Rises(d, e) /\ e.PubCounter = d.PubCounter /\ e.Pressure = d.Pressure
           /\ /\ Sets(d, e, "PubCounter", Raise("nodesetPublisher", d.PubCounter))
              /\ d.PubCounter <= d.Pressure
              => Sends(e) /\ Rises(d, e)
           /\ Sets(d, e, "Pressure", Raise("nodesetPublisher", d.Pressure)) =>
                Sends(e) /\ Rises(d, e) /\ e.PubCounter <= e.Pressure
<1> DEFINE N == {"PubCounter", "Pressure", "encoded", "sent", "recorded", "row"}
           Kept == e.PubCounter = d.PubCounter /\ e.Pressure = d.Pressure
<1>1. /\ N \subseteq DOMAIN d
      /\ d.PubCounter \in Nat /\ d.Pressure \in Nat /\ d.encoded \in Nat
      /\ d.sent[1] \in Nat /\ d.sent[2] \in Nat /\ d.row[1] \in Nat
      /\ d.sent[1] <= d.encoded /\ d.encoded <= d.PubCounter /\ d.row[1] <= d.PubCounter
      /\ d.PubCounter <= MaxCounter["nodesetPublisher"]
      /\ d.PubCounter <= d.Pressure + 1 /\ d.sent[1] <= d.sent[2] + 1
  BY DEF Sends
<1>2. ASSUME N \subseteq DOMAIN e, Kept,
             \/ e.encoded = d.encoded /\ e.sent = d.sent /\ e.row = d.row
             \/ e.encoded = d.PubCounter /\ e.sent = d.sent /\ e.row = d.row
             \/ e.encoded = d.encoded /\ e.sent = <<d.encoded, d.Pressure>> /\ e.row = d.row
             \/ e.encoded = d.encoded /\ e.sent = d.sent /\ e.row = <<d.PubCounter, d.Pressure>>
      PROVE  Sends(e) /\ Rises(d, e)
  BY <1>1, <1>2 DEF Sends, Rises
<1>3. Same(d, e, {}) => Sends(e) /\ Rises(d, e) /\ Kept
  <2>1. Same(d, e, {}) => /\ N \subseteq DOMAIN e /\ Kept /\ e.encoded = d.encoded
                          /\ e.sent = d.sent /\ e.row = d.row
    BY <1>1 DEF Same, CounterNames
  <2>2. QED BY <1>2, <2>1
<1>4. Sets(d, e, "PubCounter", d.PubCounter) => Sends(e) /\ Rises(d, e) /\ Kept
  <2>1. Sets(d, e, "PubCounter", d.PubCounter) => Same(d, e, {})
    BY <1>1 DEF Sets, Same, CounterNames
  <2>2. QED BY <1>3, <2>1
<1>5. Sets(d, e, "Pressure", d.Pressure) => Sends(e) /\ Rises(d, e) /\ Kept
  <2>1. Sets(d, e, "Pressure", d.Pressure) => Same(d, e, {})
    BY <1>1 DEF Sets, Same, CounterNames
  <2>2. QED BY <1>3, <2>1
<1>6. Sets(d, e, "encoded", d.PubCounter) => Sends(e) /\ Rises(d, e) /\ Kept
  <2>1. Sets(d, e, "encoded", d.PubCounter) =>
          /\ N \subseteq DOMAIN e /\ Kept /\ e.encoded = d.PubCounter
          /\ e.sent = d.sent /\ e.row = d.row
    BY <1>1 DEF Sets, Same, CounterNames
  <2>2. QED BY <1>2, <2>1
<1>7. Sets(d, e, "sent", <<d.encoded, d.Pressure>>) => Sends(e) /\ Rises(d, e) /\ Kept
  <2>1. Sets(d, e, "sent", <<d.encoded, d.Pressure>>) =>
          /\ N \subseteq DOMAIN e /\ Kept /\ e.encoded = d.encoded
          /\ e.sent = <<d.encoded, d.Pressure>> /\ e.row = d.row
    BY <1>1 DEF Sets, Same, CounterNames
  <2>2. QED BY <1>2, <2>1
<1>8. ASSUME Same(d, e, {"recorded", "row"}),
             e.row = d.row \/ e.row = <<d.PubCounter, d.Pressure>>
      PROVE  Sends(e) /\ Rises(d, e) /\ Kept
  <2>1. N \subseteq DOMAIN e /\ Kept /\ e.encoded = d.encoded /\ e.sent = d.sent
    BY <1>1, <1>8 DEF Same, CounterNames
  <2>2. QED BY <1>2, <1>8, <2>1
<1>9. ASSUME Sets(d, e, "PubCounter", Raise("nodesetPublisher", d.PubCounter)),
             d.PubCounter <= d.Pressure
      PROVE  Sends(e) /\ Rises(d, e)
  <2>1. /\ N \subseteq DOMAIN e /\ e.PubCounter = Raise("nodesetPublisher", d.PubCounter)
        /\ e.Pressure = d.Pressure /\ e.encoded = d.encoded /\ e.sent = d.sent /\ e.row = d.row
    BY <1>1, <1>9 DEF Sets, Same, CounterNames
  <2>2. /\ e.PubCounter \in Nat /\ d.PubCounter <= e.PubCounter
        /\ e.PubCounter <= d.PubCounter + 1 /\ e.PubCounter <= MaxCounter["nodesetPublisher"]
    BY <1>1, <2>1, RaiseRules
  <2>3. MaxCounter["nodesetPublisher"] \in Nat
    BY NamesGiven
  <2>4. QED BY <1>1, <1>9, <2>1, <2>2, <2>3 DEF Sends, Rises
<1>10. ASSUME Sets(d, e, "Pressure", Raise("nodesetPublisher", d.Pressure))
       PROVE  Sends(e) /\ Rises(d, e) /\ e.PubCounter <= e.Pressure
  <2>1. /\ N \subseteq DOMAIN e /\ e.Pressure = Raise("nodesetPublisher", d.Pressure)
        /\ e.PubCounter = d.PubCounter /\ e.encoded = d.encoded /\ e.sent = d.sent /\ e.row = d.row
    BY <1>1, <1>10 DEF Sets, Same, CounterNames
  <2>2. MaxCounter["nodesetPublisher"] \in Nat
    BY NamesGiven
  <2>3. /\ e.Pressure \in Nat /\ d.Pressure <= e.Pressure
        /\ d.Pressure < MaxCounter["nodesetPublisher"] => e.Pressure = d.Pressure + 1
    BY <1>1, <2>1, RaiseRules
  <2>4. d.PubCounter <= e.Pressure
    BY <1>1, <2>2, <2>3
  <2>5. QED BY <1>1, <2>1, <2>2, <2>3, <2>4 DEF Sends, Rises
<1>11. QED BY <1>3, <1>4, <1>5, <1>6, <1>7, <1>8, <1>9, <1>10

LEMMA SendEffects ==
    ASSUME NEW p, NEW d
    PROVE  /\ \A e \in RealtimeEffect(p, CountOn, d) :
                Sets(d, e, "PubCounter", Raise(p, d.PubCounter))
           /\ \A e \in RealtimeEffect(p, PressOn, d) :
                Sets(d, e, "Pressure", Raise(p, d.Pressure))
           /\ \A name \in SenderNames : \A e \in RealtimeEffect(p, name, d) :
                \/ Sets(d, e, "encoded", d.PubCounter)
                \/ Sets(d, e, "sent", <<d.encoded, d.Pressure>>)
BY Passing, Zenon DEF CountOn, PressOn, SenderNames

SenderCut == CHOOSE a : CutAt(NP!publisher.main, a, SenderBefore, Spawn("user"), SenderBehind)

\* The pressure is behind its counter only while the user thread is between the two.
SenderInv ==
    /\ pc \in [{"main", "publisher", "user"} -> Int]
    /\ Sends(data)
    /\ pc["user"] # 4 => data.PubCounter <= data.Pressure
    /\ pc["user"] <= 1 => data.PubCounter = 0 /\ data.Pressure = 0
    /\ pc["main"] <= SenderCut => pc["user"] = 0

LEMMA SenderCode ==
    ASSUME prog = "nodesetPublisher",
           Programs["nodesetPublisher"] = RealtimePrograms["nodesetPublisher"]
    PROVE  /\ IsCode(Code("main")) /\ SenderCut \in Int
           /\ CutAt(Code("main"), SenderCut, SenderBefore, Spawn("user"), SenderBehind)
           /\ Code("user") = NP!userApplicationPub /\ Code("publisher") = NP!publisherETF
<1>1. Programs[prog].threads = NP!publisher
  BY DEF RealtimePrograms
<1>2. Code("main") = NP!publisher.main
  BY <1>1 DEF Code
<1>3. Code("user") = NP!userApplicationPub /\ Code("publisher") = NP!publisherETF
  BY <1>1 DEF Code, NP!publisher
<1>4. /\ IsCode(NP!publisher.main)
      /\ CutAt(NP!publisher.main, SenderCut, SenderBefore, Spawn("user"), SenderBehind)
  BY NPMain DEF Phased, SenderCut
<1>5. SenderCut \in Int
  BY <1>4, CodeLength DEF CutAt
<1>6. QED BY <1>2, <1>3, <1>4, <1>5

\* The user thread counts the counter up right before the pressure, and never starts again.
LEMMA SenderLeads ==
    ASSUME NEW n \in 1 .. 9, NEW m, Leads(NP!userApplicationPub, n, m)
    PROVE  m \in Int /\ m > 1 /\ m # n /\ (m = 4 <=> n = 3)
<1> DEFINE A == NP!userApplicationPub
<1>1. /\ IsCode(A) /\ Len(A) = 9 /\ DOMAIN A = 1 .. 9
      /\ A[1].op = "put" /\ A[2].op = "unless" /\ A[2].skip = 7 /\ A[3].op = "do"
      /\ A[4].op = "do" /\ A[5].op = "unless" /\ A[5].skip = 1 /\ A[6].op = "jump"
      /\ A[6].skip = 1 /\ A[7].op = "unless" /\ A[7].skip = 1 /\ A[8].op = "do"
      /\ A[9].op = "jump" /\ A[9].skip = -8
  BY NPThreads, CodeLength, StepFields
<1> HIDE DEF A
<1>2. Leads(A, n, m)
  BY DEF A
<1>3. /\ Land(A, 2) = 2 /\ Land(A, 3) = 3 /\ Land(A, 4) = 4 /\ Land(A, 5) = 5
      /\ Land(A, 6) = 8 /\ Land(A, 7) = 7 /\ Land(A, 8) = 8 /\ Land(A, 9) = 2
      /\ Land(A, 10) = 10
  BY <1>1 DEF Land
<1>4. CASE n \in {1, 3, 4, 8}
  BY <1>1, <1>2, <1>3, <1>4 DEF Leads, Branches
<1>5. CASE n = 2
  BY <1>1, <1>2, <1>3, <1>5 DEF Leads
<1>6. CASE n = 5
  BY <1>1, <1>2, <1>3, <1>6 DEF Leads
<1>7. CASE n = 6
  BY <1>1, <1>2, <1>3, <1>7 DEF Leads
<1>8. CASE n = 7
  BY <1>1, <1>2, <1>3, <1>8 DEF Leads
<1>9. CASE n = 9
  BY <1>1, <1>2, <1>3, <1>9 DEF Leads
<1>10. QED BY <1>4, <1>5, <1>6, <1>7, <1>8, <1>9

LEMMA SenderMain ==
    ASSUME EffectsGiven, prog = "nodesetPublisher",
           Programs["nodesetPublisher"] = RealtimePrograms["nodesetPublisher"],
           SenderInv, "main" \in DOMAIN pc, Step("main")
    PROVE  prog' = prog /\ SenderInv' /\ Rises(data, data')
<1>1. /\ pc \in [{"main", "publisher", "user"} -> Int]
      /\ DOMAIN pc = {"main", "publisher", "user"} /\ pc \in [DOMAIN pc -> Int]
      /\ Sends(data)
      /\ pc["user"] # 4 => data.PubCounter <= data.Pressure
      /\ pc["user"] <= 1 => data.PubCounter = 0 /\ data.Pressure = 0
      /\ pc["main"] <= SenderCut => pc["user"] = 0
  BY DEF SenderInv
<1>2. SenderCut \in Int
  BY SenderCode
<1>3. Act(Spawn("user"), May({}, {"user"}, {}, {}))
  BY StepRules DEF May
<1> DEFINE Z == {"PubCounter", "Pressure"}
           B == {"publisher"}
<1>4. Z = {"PubCounter", "Pressure"} /\ B = {"publisher"}
  OBVIOUS
<1>5. SenderBefore = May({}, B, Z, Endings) /\ SenderBehind = May({}, {}, {}, Endings)
  BY DEF SenderBefore, SenderBehind
<1> HIDE DEF B, Z
<1>6. /\ IsCode(Code("main"))
      /\ CutAt(Code("main"), SenderCut, May({}, B, Z, Endings), Spawn("user"),
               May({}, {}, {}, Endings))
  BY <1>5, SenderCode
<1>7. /\ prog' = prog /\ pc' \in [DOMAIN pc -> Int]
      /\ \/ pc' = pc
         \/ pc["main"] < SenderCut /\ pc'["main"] <= SenderCut
         \/ pc["main"] >= SenderCut /\ pc'["main"] > SenderCut
      /\ \A u \in DOMAIN pc \ {"main"} :
              \/ pc'[u] = pc[u]
              \/ /\ pc'[u] = 1
                 /\ \/ pc["main"] < SenderCut /\ u \in B
                    \/ pc["main"] = SenderCut /\ u \in {"user"}
                    \/ pc["main"] > SenderCut /\ u \in {}
      /\ \/ Same(data, data', {})
         \/ pc["main"] < SenderCut /\ \E v \in Z : Sets(data, data', v, 0)
         \/ pc["main"] > SenderCut /\ \E name \in {} : data' \in Effect(prog, name, data)
  BY <1>1, <1>3, <1>4, <1>6, Preparing
<1>8. /\ Sends(data') /\ Rises(data, data')
      /\ data'.PubCounter = data.PubCounter /\ data'.Pressure = data.Pressure
  <2>1. CASE Same(data, data', {})
    BY <1>1, <2>1, SendMoves
  <2>2. CASE pc["main"] < SenderCut /\ \E v \in Z : Sets(data, data', v, 0)
    <3>1. data.PubCounter = 0 /\ data.Pressure = 0
      BY <1>1, <1>2, <2>2
    <3>2. Sets(data, data', "PubCounter", 0) \/ Sets(data, data', "Pressure", 0)
      BY <1>4, <2>2
    <3>3. QED BY <1>1, <3>1, <3>2, SendMoves
  <2>3. QED BY <1>7, <2>1, <2>2
<1>9. pc'["user"] = pc["user"] \/ (pc'["user"] = 1 /\ pc["main"] = SenderCut /\ pc["user"] = 0)
  BY <1>1, <1>2, <1>4, <1>7
<1>10. pc'["main"] <= SenderCut => pc'["user"] = 0
  BY <1>1, <1>2, <1>7, <1>9
<1>11. /\ pc'["user"] # 4 => data'.PubCounter <= data'.Pressure
       /\ pc'["user"] <= 1 => data'.PubCounter = 0 /\ data'.Pressure = 0
  BY <1>1, <1>8, <1>9
<1>12. QED BY <1>1, <1>7, <1>8, <1>10, <1>11 DEF SenderInv

\* What the user thread does at its steps that compute or set something.
SenderDoes(n) ==
    CASE n = 1 -> Sets(data, data', "PubCounter", 0)
      [] n = 3 -> Sets(data, data', "PubCounter", Raise("nodesetPublisher", data.PubCounter))
      [] n = 4 -> Sets(data, data', "Pressure", Raise("nodesetPublisher", data.Pressure))
      [] n = 8 -> data' = Record("nodesetPublisher", data, data.PubCounter)
      [] OTHER -> Same(data, data', {})

LEMMA SenderUserDoes ==
    ASSUME EffectsGiven, prog = "nodesetPublisher",
           Programs["nodesetPublisher"] = RealtimePrograms["nodesetPublisher"],
           pc \in [{"main", "publisher", "user"} -> Int], Step("user")
    PROVE  /\ prog' = prog /\ pc["user"] \in 1 .. 9
           /\ pc' \in [DOMAIN pc -> Int]
           /\ \A u \in DOMAIN pc \ {"user"} : pc'[u] = pc[u]
           /\ \/ pc' = pc /\ Same(data, data', {})
              \/ /\ pc'["user"] > 1 /\ (pc'["user"] = 4 <=> pc["user"] = 3)
                 /\ SenderDoes(pc["user"]) \/ (pc["user"] \in {1, 8} /\ Same(data, data', {}))
<1> DEFINE A == NP!userApplicationPub
           n == pc["user"]
           D == IF n = 3 THEN {CountOn} ELSE IF n = 4 THEN {PressOn}
                ELSE IF n = 8 THEN {"updateMeasurementsPublisher"} ELSE {}
           Z == IF n = 1 THEN {"PubCounter"} ELSE {}
           k == May(D, {}, Z, {})
<1>1. A = Code("user") /\ Len(A) = 9 /\ DOMAIN A = 1 .. 9 /\ IsCode(A)
  BY NPThreads, SenderCode, CodeLength
<1>2. n \in 1 .. 9
  BY <1>1 DEF Step, Running
<1>3. k.compute = D /\ k.create = {} /\ k.clear = Z /\ k.exit = {}
  BY DEF May
<1>4. /\ n = 1 => Z = {"PubCounter"}
      /\ n = 3 => D = {CountOn}
      /\ n = 4 => D = {PressOn}
      /\ n = 8 => D = {"updateMeasurementsPublisher"}
      /\ n \notin {3, 4, 8} => D = {}
      /\ n # 1 => Z = {}
  BY <1>2
<1> HIDE DEF k, D, Z, n, A
<1>5. Obeys(A[n], k)
  <2>1. \A c, i : Obeys(Unless(c, i), k) /\ Obeys(Jump(i), k)
    BY BranchRules
  <2>2. /\ \A v \in k.compute : \A xs : Obeys(Reads(xs, Do(v)), k)
        /\ \A v \in k.clear : \A xs : Obeys(Reads(xs, Put(v, 0)), k)
    BY ReadRules
  <2>3. /\ A[2] = Unless("running", 7) /\ A[5] = Unless("fileWrite", 1) /\ A[6] = Jump(1)
        /\ A[7] = Unless("consolePrint", 1) /\ A[9] = Jump(-8)
    BY NPThreads DEF A
  <2>4. n \in {2, 5, 6, 7, 9} => Obeys(A[n], k)
    BY <2>1, <2>3
  <2>5. n = 1 => Obeys(A[n], k)
    BY <1>3, <1>4, <2>2, NPThreads DEF A
  <2>6. n = 3 => Obeys(A[n], k)
    BY <1>3, <1>4, <2>2, NPThreads DEF A
  <2>7. n = 4 => Obeys(A[n], k)
    BY <1>3, <1>4, <2>2, NPThreads DEF A
  <2>8. n = 8 => Obeys(A[n], k)
    BY <1>3, <1>4, <2>2, NPThreads DEF A
  <2>9. n \in {1, 3, 4, 8} \/ n \in {2, 5, 6, 7, 9}
    BY <1>2
  <2>10. QED BY <2>4, <2>5, <2>6, <2>7, <2>8, <2>9
<1>6. DOMAIN pc = {"main", "publisher", "user"} /\ pc \in [DOMAIN pc -> Int]
  OBVIOUS
<1>7. /\ prog' = prog /\ pc' = [u \in DOMAIN pc |-> pc'[u]]
      /\ \A u \in DOMAIN pc \ {"user"} : pc'[u] = pc[u]
      /\ (pc' = pc /\ Same(data, data', {})) \/ Leads(A, n, pc'["user"])
      /\ \/ Same(data, data', {})
         \/ \E name \in D : data' \in Effect(prog, name, data)
         \/ \E v \in Z : Sets(data, data', v, 0)
  BY <1>1, <1>5, <1>6, Stepping DEF k, n
<1>8. Leads(A, n, pc'["user"]) =>
        pc'["user"] \in Int /\ pc'["user"] > 1 /\ pc'["user"] # n
          /\ (pc'["user"] = 4 <=> n = 3)
  BY <1>2, SenderLeads DEF A
<1>9. pc' \in [DOMAIN pc -> Int]
  <2>1. \A u \in DOMAIN pc : pc'[u] \in Int
    BY <1>6, <1>7, <1>8
  <2>2. QED BY <1>7, <2>1
<1>10. \A name, e : e \in Effect(prog, name, data)
         => e \in RealtimeEffect("nodesetPublisher", name, data)
  BY NamesGiven DEF EffectsGiven
<1>11. n \in {3, 4} => pc' = pc \/ SenderDoes(n)
  <2>1. /\ A[3].op = "do" /\ A[3].arg = CountOn
        /\ A[4].op = "do" /\ A[4].arg = PressOn
    BY NPThreads, StepFields DEF A
  <2>2. n \in {3, 4} => pc' = pc \/ data' \in Effect(prog, A[n].arg, data)
    BY <1>1, <1>6, <2>1, Doing DEF n
  <2>3. CASE n = 3
    <3>1. pc' = pc \/ data' \in Effect(prog, CountOn, data)
      BY <2>1, <2>2, <2>3
    <3>2. data' \in RealtimeEffect("nodesetPublisher", CountOn, data)
            => Sets(data, data', "PubCounter", Raise("nodesetPublisher", data.PubCounter))
      BY SendEffects
    <3>3. pc' = pc \/ Sets(data, data', "PubCounter", Raise("nodesetPublisher", data.PubCounter))
      BY <1>10, <3>1, <3>2
    <3>4. QED BY <2>3, <3>3 DEF SenderDoes
  <2>4. CASE n = 4
    <3>1. pc' = pc \/ data' \in Effect(prog, PressOn, data)
      BY <2>1, <2>2, <2>4
    <3>2. data' \in RealtimeEffect("nodesetPublisher", PressOn, data)
            => Sets(data, data', "Pressure", Raise("nodesetPublisher", data.Pressure))
      BY SendEffects
    <3>3. pc' = pc \/ Sets(data, data', "Pressure", Raise("nodesetPublisher", data.Pressure))
      BY <1>10, <3>1, <3>2
    <3>4. QED BY <2>4, <3>3 DEF SenderDoes
  <2>5. QED BY <2>3, <2>4
<1>12. n = 8 => Same(data, data', {}) \/ SenderDoes(n)
  BY <1>4, <1>7, <1>10, RecordEffects DEF SenderDoes
<1>13. n = 1 => Same(data, data', {}) \/ SenderDoes(n)
  BY <1>4, <1>7 DEF SenderDoes
<1>14. n \in {2, 5, 6, 7, 9} => SenderDoes(n)
  <2>1. n \in {2, 5, 6, 7, 9} => Same(data, data', {})
    BY <1>4, <1>7
  <2>2. QED BY <2>1 DEF SenderDoes
<1>15. (pc' = pc /\ Same(data, data', {})) \/ (pc' # pc /\ Leads(A, n, pc'["user"]))
  BY <1>7, <1>8 DEF n
<1>16. n \in {1, 8} \/ n \in {3, 4} \/ n \in {2, 5, 6, 7, 9}
  BY <1>2
<1>17. QED BY <1>2, <1>7, <1>8, <1>9, <1>11, <1>12, <1>13, <1>14, <1>15, <1>16 DEF n

LEMMA SenderUser ==
    ASSUME EffectsGiven, prog = "nodesetPublisher",
           Programs["nodesetPublisher"] = RealtimePrograms["nodesetPublisher"],
           SenderInv, Step("user")
    PROVE  prog' = prog /\ SenderInv' /\ Rises(data, data')
<1> DEFINE n == pc["user"]
<1>1. /\ pc \in [{"main", "publisher", "user"} -> Int]
      /\ DOMAIN pc = {"main", "publisher", "user"}
      /\ Sends(data)
      /\ n # 4 => data.PubCounter <= data.Pressure
      /\ n <= 1 => data.PubCounter = 0 /\ data.Pressure = 0
      /\ pc["main"] <= SenderCut => n = 0
  BY DEF SenderInv
<1>2. /\ prog' = prog /\ n \in 1 .. 9
      /\ pc' \in [DOMAIN pc -> Int]
      /\ \A u \in DOMAIN pc \ {"user"} : pc'[u] = pc[u]
      /\ \/ pc' = pc /\ Same(data, data', {})
         \/ /\ pc'["user"] > 1 /\ (pc'["user"] = 4 <=> n = 3)
            /\ SenderDoes(n) \/ (n \in {1, 8} /\ Same(data, data', {}))
  BY <1>1, SenderUserDoes
<1>3. Same(data, data', {}) => /\ Sends(data') /\ Rises(data, data')
                               /\ data'.PubCounter = data.PubCounter
                               /\ data'.Pressure = data.Pressure
  BY <1>1, SendMoves
<1>4. ASSUME SenderDoes(n)
      PROVE  /\ Sends(data') /\ Rises(data, data')
             /\ n # 3 => data'.PubCounter <= data'.Pressure
  <2>1. CASE n = 1
    <3>1. Sets(data, data', "PubCounter", 0) /\ data.PubCounter = 0
      BY <1>1, <1>4, <2>1 DEF SenderDoes
    <3>2. Sets(data, data', "PubCounter", data.PubCounter)
      BY <3>1
    <3>3. /\ Sends(data') /\ Rises(data, data')
          /\ data'.PubCounter = data.PubCounter /\ data'.Pressure = data.Pressure
      BY <1>1, <3>2, SendMoves
    <3>4. data.PubCounter <= data.Pressure
      BY <1>1, <2>1
    <3>5. QED BY <3>3, <3>4
  <2>2. CASE n = 3
    <3>1. Sets(data, data', "PubCounter", Raise("nodesetPublisher", data.PubCounter))
      BY <1>4, <2>2 DEF SenderDoes
    <3>2. data.PubCounter <= data.Pressure
      BY <1>1, <2>2
    <3>3. QED BY <1>1, <2>2, <3>1, <3>2, SendMoves
  <2>3. CASE n = 4
    <3>1. Sets(data, data', "Pressure", Raise("nodesetPublisher", data.Pressure))
      BY <1>4, <2>3 DEF SenderDoes
    <3>2. QED BY <1>1, <3>1, SendMoves
  <2>4. CASE n = 8
    <3>1. data' = Record("nodesetPublisher", data, data.PubCounter)
      BY <1>4, <2>4 DEF SenderDoes
    <3>2. {"recorded", "row"} \subseteq DOMAIN data
      BY <1>1 DEF Sends
    <3>3. /\ Same(data, data', {"recorded", "row"})
          /\ data'.row = data.row \/ data'.row = <<data.PubCounter, data.Pressure>>
      BY <3>1, <3>2, Recorded
    <3>4. /\ Sends(data') /\ Rises(data, data')
          /\ data'.PubCounter = data.PubCounter /\ data'.Pressure = data.Pressure
      BY <1>1, <3>3, SendMoves
    <3>5. QED BY <1>1, <2>4, <3>4
  <2>5. CASE n \in {2, 5, 6, 7, 9}
    <3>1. Same(data, data', {})
      BY <1>4, <2>5 DEF SenderDoes
    <3>2. QED BY <1>1, <1>3, <2>5, <3>1
  <2>6. QED BY <1>2, <2>1, <2>2, <2>3, <2>4, <2>5
<1>5. ~(pc'["main"] <= SenderCut)
  BY <1>1, <1>2
<1>6. CASE pc' = pc /\ Same(data, data', {})
  BY <1>1, <1>2, <1>3, <1>6 DEF SenderInv
<1>7. CASE /\ pc'["user"] > 1 /\ (pc'["user"] = 4 <=> n = 3)
           /\ SenderDoes(n) \/ (n \in {1, 8} /\ Same(data, data', {}))
  <2>1. /\ Sends(data') /\ Rises(data, data')
        /\ n # 3 => data'.PubCounter <= data'.Pressure
    BY <1>1, <1>3, <1>4, <1>7
  <2>2. pc'["user"] \in Int
    BY <1>1, <1>2
  <2>3. /\ pc'["user"] # 4 => data'.PubCounter <= data'.Pressure
        /\ pc'["user"] <= 1 => data'.PubCounter = 0 /\ data'.Pressure = 0
    BY <1>7, <2>1, <2>2
  <2>4. QED BY <1>1, <1>2, <1>5, <2>1, <2>3 DEF SenderInv
<1>8. QED BY <1>2, <1>6, <1>7

LEMMA SenderStep ==
    ASSUME EffectsGiven, prog = "nodesetPublisher",
           Programs["nodesetPublisher"] = RealtimePrograms["nodesetPublisher"],
           SenderInv, NEW t \in DOMAIN pc, Step(t)
    PROVE  prog' = prog /\ SenderInv' /\ Rises(data, data')
<1>1. /\ pc \in [{"main", "publisher", "user"} -> Int]
      /\ DOMAIN pc = {"main", "publisher", "user"} /\ pc \in [DOMAIN pc -> Int]
      /\ Sends(data)
  BY DEF SenderInv
<1>2. CASE t = "main"
  BY <1>2, SenderMain
<1>3. CASE t = "user"
  BY <1>3, SenderUser
<1>4. CASE t = "publisher"
  <2>1. Flows(Code("publisher"), May(SenderNames, {}, {}, {}))
    BY SenderCode, NPThreads
  <2>2. /\ prog' = prog /\ pc' \in [DOMAIN pc -> Int]
        /\ \A u \in DOMAIN pc \ {"publisher"} : pc'[u] = pc[u]
        /\ Same(data, data', {}) \/ \E name \in SenderNames : data' \in Effect(prog, name, data)
    BY <1>1, <1>4, <2>1, Working
  <2>3. /\ Sends(data') /\ Rises(data, data')
        /\ data'.PubCounter = data.PubCounter /\ data'.Pressure = data.Pressure
    <3>1. CASE Same(data, data', {})
      BY <1>1, <3>1, SendMoves
    <3>2. CASE \E name \in SenderNames : data' \in Effect(prog, name, data)
      <4>1. PICK name \in SenderNames : data' \in Effect(prog, name, data)
        BY <3>2
      <4>2. data' \in RealtimeEffect("nodesetPublisher", name, data)
        BY <4>1, NamesGiven DEF EffectsGiven
      <4>3. \/ Sets(data, data', "encoded", data.PubCounter)
            \/ Sets(data, data', "sent", <<data.encoded, data.Pressure>>)
        BY <4>2, SendEffects
      <4>4. QED BY <1>1, <4>3, SendMoves
    <3>3. QED BY <2>2, <3>1, <3>2
  <2>4. pc'["main"] = pc["main"] /\ pc'["user"] = pc["user"]
    BY <1>1, <2>2
  <2>5. QED BY <1>1, <2>2, <2>3, <2>4 DEF SenderInv
<1>5. QED BY <1>1, <1>2, <1>3, <1>4

LEMMA SenderStart ==
    ASSUME Init, prog = "nodesetPublisher",
           Programs["nodesetPublisher"] = RealtimePrograms["nodesetPublisher"]
    PROVE  SenderInv
<1> DEFINE N == {"PubCounter", "Pressure", "encoded", "sent", "recorded", "row"}
<1>1. Threads(prog) = {"main", "publisher", "user"}
  BY DEF RealtimePrograms, Threads, NP!publisher
<1>2. pc \in [{"main", "publisher", "user"} -> Int] /\ pc["user"] = 0
  BY <1>1 DEF Init
<1>3. data = Both(NP!Globals, Nodes)
  BY DEF Init, RealtimePrograms
<1>4. /\ N \subseteq DOMAIN data
      /\ data.PubCounter = 0 /\ data.Pressure = 0 /\ data.encoded = 0
      /\ data.row = <<0, 0>> /\ data.sent = <<0, 0>>
  <2>1. DOMAIN NP!Globals \cap N = {}
    BY DEF NP!Globals
  <2>2. /\ N \subseteq DOMAIN Nodes
        /\ Nodes.PubCounter = 0 /\ Nodes.Pressure = 0 /\ Nodes.encoded = 0
        /\ Nodes.row = <<0, 0>> /\ Nodes.sent = <<0, 0>>
    BY DEF Nodes
  <2>3. QED BY <1>3, <2>1, <2>2 DEF Both
<1>5. MaxCounter["nodesetPublisher"] \in Nat
  BY NamesGiven
<1>6. Sends(data) /\ data.PubCounter = 0 /\ data.Pressure = 0
  BY <1>4, <1>5 DEF Sends
<1>7. QED BY <1>2, <1>6 DEF SenderInv

-----------------------------------------------------------------------------
(* All of them together.                                                   *)

RealtimeInv ==
    /\ prog = "loopback" => LoopbackInv
    /\ prog = "publisher" => PublisherInv
    /\ prog = "nodesetPublisher" => SenderInv
    /\ prog = "nodesetSubscriber" => RecorderInv

\* What no step goes back on.
RealtimeMoves ==
    /\ prog \in {"loopback", "publisher"} => Onward(data, data')
    /\ prog \in {"nodesetPublisher", "nodesetSubscriber"} => Rises(data, data')

LEMMA TableGiven ==
    ASSUME prog \in DOMAIN Programs, prog \in RealtimeNames
    PROVE  Programs[prog] = RealtimePrograms[prog]
BY TableAssumption

LEMMA ProgKept == [Next]_vars => prog' = prog
<1>1. UNCHANGED vars => prog' = prog
  BY DEF vars
<1>2. Sigint \/ Done => prog' = prog
  BY DEF Sigint, Done, vars
<1>3. ASSUME NEW t \in DOMAIN pc, Step(t)
      PROVE  prog' = prog
  <2>1. PICK code, s : Perform(t, code, s)
    BY <1>3 DEF Step
  <2>2. QED BY <2>1 DEF Perform, Crash, Succeed, Fail, Compute, Branch, Install, Create, Await,
                 Finish
<1>4. QED BY <1>1, <1>2, <1>3 DEF Next

\* No handler touches a counter.
LEMMA HandlersGiven ==
    ASSUME prog \in DOMAIN Programs, prog \in RealtimeNames
    PROVE  DOMAIN Programs[prog].handler \cap CounterNames = {}
<1>1. Programs[prog] = RealtimePrograms[prog]
  BY TableGiven
<1>2. Programs[prog].handler
        \in {L!stopHandler, P!stopHandler, S!stopHandler, M!stopHandler, NP!stopHandler,
          NS!stopHandler}
  BY <1>1, NamesGiven DEF RealtimePrograms
<1>3. \A h \in {L!stopHandler, P!stopHandler, S!stopHandler, M!stopHandler, NP!stopHandler,
        NS!stopHandler} :
        DOMAIN h \subseteq {"signalTerm", "running"}
  BY DEF L!stopHandler, P!stopHandler, S!stopHandler, M!stopHandler, NP!stopHandler, NS!stopHandler
<1>4. {"signalTerm", "running"} \cap CounterNames = {}
  BY DEF CounterNames
<1>5. QED BY <1>2, <1>3, <1>4

\* A signal leaves every part of the invariant as it is.
LEMMA SignalKeeps ==
    ASSUME prog \in DOMAIN Programs, prog \in RealtimeNames, RealtimeInv, Sigint
    PROVE  RealtimeInv' /\ RealtimeMoves
<1>1. Same(data, data', {}) /\ pc' = pc /\ prog' = prog /\ exit' # "success"
  BY HandlersGiven, Interrupted
<1>2. CASE prog = "loopback"
  <2>1. LoopbackInv
    BY <1>2 DEF RealtimeInv
  <2>2. Echoes(data)
    BY <2>1 DEF LoopbackInv
  <2>3. Echoes(data') /\ Onward(data, data') /\ data'.message = data.message
    BY <1>1, <2>2, EchoMoves
  <2>4. LoopbackInv'
    BY <1>1, <2>1, <2>3 DEF LoopbackInv
  <2>5. QED BY <1>1, <1>2, <2>3, <2>4 DEF RealtimeInv, RealtimeMoves
<1>3. CASE prog = "publisher"
  <2>1. PublisherInv
    BY <1>3 DEF RealtimeInv
  <2>2. Returns(data)
    BY <2>1 DEF PublisherInv
  <2>3. Returns(data') /\ Onward(data, data') /\ data'.PubCounter = data.PubCounter
    BY <1>1, <2>2, ReturnMoves
  <2>4. PublisherInv'
    BY <1>1, <2>1, <2>3 DEF PublisherInv
  <2>5. QED BY <1>1, <1>3, <2>3, <2>4 DEF RealtimeInv, RealtimeMoves
<1>4. CASE prog \in {"single", "multiple"}
  BY <1>1, <1>4 DEF RealtimeInv, RealtimeMoves
<1>5. CASE prog = "nodesetPublisher"
  <2>1. SenderInv
    BY <1>5 DEF RealtimeInv
  <2>2. Sends(data)
    BY <2>1 DEF SenderInv
  <2>3. /\ Sends(data') /\ Rises(data, data')
        /\ data'.PubCounter = data.PubCounter /\ data'.Pressure = data.Pressure
    BY <1>1, <2>2, SendMoves
  <2>4. SenderInv'
    BY <1>1, <2>1, <2>3 DEF SenderInv
  <2>5. QED BY <1>1, <1>5, <2>3, <2>4 DEF RealtimeInv, RealtimeMoves
<1>6. CASE prog = "nodesetSubscriber"
  <2>1. RecorderInv
    BY <1>6 DEF RealtimeInv
  <2>2. Records(data)
    BY <2>1 DEF RecorderInv
  <2>3. Records(data') /\ Rises(data, data') /\ data'.SubCounter = data.SubCounter
    BY <1>1, <2>2, RecordMoves
  <2>4. RecorderInv'
    BY <1>1, <2>1, <2>3 DEF RecorderInv
  <2>5. QED BY <1>1, <1>6, <2>3, <2>4 DEF RealtimeInv, RealtimeMoves
<1>7. QED BY <1>2, <1>3, <1>4, <1>5, <1>6, NamesGiven

LEMMA ThreadKeeps ==
    ASSUME EffectsGiven, prog \in DOMAIN Programs, prog \in RealtimeNames, RealtimeInv,
           NEW t \in DOMAIN pc, Step(t)
    PROVE  RealtimeInv' /\ RealtimeMoves
<1>1. Programs[prog] = RealtimePrograms[prog]
  BY TableGiven
<1>2. CASE prog = "loopback"
  <2>1. prog' = prog /\ LoopbackInv' /\ Onward(data, data')
    BY <1>1, <1>2, LoopbackStep DEF RealtimeInv
  <2>2. QED BY <1>2, <2>1 DEF RealtimeInv, RealtimeMoves
<1>3. CASE prog = "publisher"
  <2>1. prog' = prog /\ PublisherInv' /\ Onward(data, data')
    BY <1>1, <1>3, PublisherStep DEF RealtimeInv
  <2>2. QED BY <1>3, <2>1 DEF RealtimeInv, RealtimeMoves
<1>4. CASE prog \in {"single", "multiple"}
  <2>1. prog' = prog
    BY ProgKept DEF Next
  <2>2. QED BY <1>4, <2>1 DEF RealtimeInv, RealtimeMoves
<1>5. CASE prog = "nodesetPublisher"
  <2>1. prog' = prog /\ SenderInv' /\ Rises(data, data')
    BY <1>1, <1>5, SenderStep DEF RealtimeInv
  <2>2. QED BY <1>5, <2>1 DEF RealtimeInv, RealtimeMoves
<1>6. CASE prog = "nodesetSubscriber"
  <2>1. prog' = prog /\ RecorderInv' /\ Rises(data, data')
    BY <1>1, <1>6, RecorderStep DEF RealtimeInv
  <2>2. QED BY <1>6, <2>1 DEF RealtimeInv, RealtimeMoves
<1>7. QED BY <1>2, <1>3, <1>4, <1>5, <1>6, NamesGiven

LEMMA RealtimeStart == Init => RealtimeInv /\ prog \in DOMAIN Programs
<1> SUFFICES ASSUME Init PROVE RealtimeInv /\ prog \in DOMAIN Programs
  OBVIOUS
<1>1. prog \in DOMAIN Programs
  BY DEF Init
<1>2. prog \in RealtimeNames => Programs[prog] = RealtimePrograms[prog]
  BY <1>1, TableGiven
<1>3. /\ prog = "loopback" => LoopbackInv
      /\ prog = "publisher" => PublisherInv
      /\ prog = "nodesetPublisher" => SenderInv
      /\ prog = "nodesetSubscriber" => RecorderInv
  BY <1>2, NamesGiven, LoopbackStart, PublisherStart, SenderStart, RecorderStart
<1>4. QED BY <1>1, <1>3 DEF RealtimeInv

LEMMA RealtimeNext ==
    ASSUME EffectsGiven, prog \in DOMAIN Programs, RealtimeInv, [Next]_vars
    PROVE  RealtimeInv' /\ (UNCHANGED vars \/ RealtimeMoves)
<1>1. CASE UNCHANGED vars
  <2>1. RealtimeInv'
    BY <1>1 DEF vars, RealtimeInv, LoopbackInv, PublisherInv, SenderInv, RecorderInv
  <2>2. QED BY <1>1, <2>1
<1>2. CASE prog \notin RealtimeNames
  <2>1. prog' = prog
    BY ProgKept
  <2>2. prog \notin {"loopback", "publisher", "nodesetPublisher", "nodesetSubscriber"}
    BY <1>2, NamesGiven
  <2>3. QED BY <2>1, <2>2 DEF RealtimeInv, RealtimeMoves
<1>3. CASE prog \in RealtimeNames /\ Next
  <2>1. CASE Sigint
    BY <1>3, <2>1, SignalKeeps
  <2>2. CASE Done
    BY <1>1, <2>2 DEF Done
  <2>3. CASE \E t \in DOMAIN pc : Step(t)
    BY <1>3, <2>3, ThreadKeeps
  <2>4. QED BY <1>3, <2>1, <2>2, <2>3 DEF Next
<1>4. QED BY <1>1, <1>2, <1>3

LEMMA RealtimeShows ==
    ASSUME RealtimeInv
    PROVE  NothingInvented /\ SentTogether /\ RecordsWhatCame
<1>1. NothingInvented
  <2>1. prog = "loopback" => data.published <= data.SubCounter
    <3>1. prog = "loopback" => Echoes(data)
      BY DEF RealtimeInv, LoopbackInv
    <3>2. QED BY <3>1 DEF Echoes, Counted
  <2>2. prog = "publisher" => data.SubCounter <= data.PubCounter
    <3>1. prog = "publisher" => Returns(data)
      BY DEF RealtimeInv, PublisherInv
    <3>2. QED BY <3>1 DEF Returns, Counted
  <2>3. QED BY <2>1, <2>2 DEF NothingInvented
<1>2. SentTogether
  <2>1. prog = "nodesetPublisher" => Sends(data)
    BY DEF RealtimeInv, SenderInv
  <2>2. QED BY <2>1 DEF Sends, SentTogether
<1>3. RecordsWhatCame
  <2>1. prog = "nodesetSubscriber" => Records(data)
    BY DEF RealtimeInv, RecorderInv
  <2>2. QED BY <2>1 DEF Records, RecordsWhatCame
<1>4. QED BY <1>1, <1>2, <1>3

LEMMA RealtimeOnward ==
    ASSUME RealtimeMoves
    PROVE  /\ (prog \in {"loopback", "publisher"}) =>
                (data'.published >= data.published /\ data'.SubCounter >= data.SubCounter)
           /\ (prog \in {"nodesetPublisher", "nodesetSubscriber"}) =>
                (data'.row[1] >= data.row[1] /\ data'.sent[1] >= data.sent[1])
BY DEF RealtimeMoves, Onward, Rises

\* Where the computations of the real-time programs are those of Realtime, the counters
\* that the loopback, the publisher and the nodeset's two programs pass between their
\* threads, send and record are true in every run, whatever the network loses and however
\* the threads, the server's loop and a signal interleave.
THEOREM CountersAreTrue ==
    ASSUME EffectsGiven
    PROVE  Spec => CountersTrue
<1> DEFINE Inv == prog \in DOMAIN Programs /\ RealtimeInv
<1>1. Init => Inv
  BY RealtimeStart
<1>2. Inv /\ [Next]_vars => Inv'
  BY RealtimeNext, ProgKept
<1>3. Inv => NothingInvented /\ SentTogether /\ RecordsWhatCame
  BY RealtimeShows
<1>4. Inv /\ [Next]_vars =>
        [(prog \in {"loopback", "publisher"}) =>
           (data'.published >= data.published /\ data'.SubCounter >= data.SubCounter)]_vars
  BY RealtimeNext, RealtimeOnward
<1>5. Inv /\ [Next]_vars =>
        [(prog \in {"nodesetPublisher", "nodesetSubscriber"}) =>
           (data'.row[1] >= data.row[1] /\ data'.sent[1] >= data.sent[1])]_vars
  BY RealtimeNext, RealtimeOnward
<1> HIDE DEF Inv
<1>6. QED
  BY <1>1, <1>2, <1>3, <1>4, <1>5, PTL DEF Spec, CountersTrue, NeverBackwards, CountersRise
=============================================================================
