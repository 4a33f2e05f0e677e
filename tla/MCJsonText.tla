----------------------------- MODULE MCJsonText -----------------------------
(***************************************************************************)
(* Either the parser with one of its handlers on any tokens, or the lexer  *)
(* on any bytes of one of three kinds; the other has ended.                *)
(***************************************************************************)
EXTENDS JsonParser

VARIABLES setup, fed, lx, scan, aux, tokens   \* of the lexer

Setup(bytes, length, units, calls, comments, unsigned, signed) ==
    [bytes |-> bytes, maxBytes |-> length, maxUnits |-> units, maxTokens |-> calls,
     ignore_comments |-> comments, unsignedMax |-> unsigned, signedMax |-> signed]

ForNumbers == Setup({43, 45, 46, 48, 55, 57, 101, 32}, 6, 0, 1, FALSE, 79, 76)
ForComments == Setup({10, 32, 42, 47, 49, 239, 187, 191}, 6, 0, 3, TRUE, 100000000, 100000000)
ForStrings == Setup({34, 48, 68, 92, 98, 117, 31, 143, 144, 159, 160, 195, 224, 237, 240, 244},
                    14, 2, 1, FALSE, 10, 10)

Lexer == INSTANCE JsonLexer
           WITH at <- scan, Setups <- {ForNumbers, ForComments, ForStrings}
lexer == <<setup, fed, lx, scan, aux, tokens>>

MCKeyOrder == <<"a", "b">>
MCLimit(handler) == IF IsFilter(handler) THEN 7 ELSE MaxTokens

NoLexer == /\ setup = ForNumbers /\ scan = "done" /\ fed = <<>> /\ tokens = <<>>
           /\ aux = Lexer!Idle /\ lx = Lexer!Fresh
NoParser == /\ at = "stopped" /\ read = <<"end">> /\ states = <<>> /\ sax = DomStart

MCInit == \/ Init /\ NoLexer
          \/ Lexer!Init /\ NoParser
MCNext == \/ Next /\ UNCHANGED lexer
          \/ Lexer!Next /\ UNCHANGED vars
MCFairSpec == MCInit /\ [][MCNext]_<<vars, lexer>> /\ WF_<<vars, lexer>>(Next /\ UNCHANGED lexer)

-----------------------------------------------------------------------------

\* The value a pointer points to.
RECURSIVE ValueOf(_, _)
ValueOf(mem, p) == [kind |-> mem[p].kind,
                    kids |-> [i \in DOMAIN mem[p].kids |->
                                Member(mem[p].kids[i].key, ValueOf(mem, mem[p].kids[i].val))]]

\* What is built is what the grammar says the text stands for.
Built == at = "accepted" /\ ~IsFilter(sax) =>
                   /\ sax.refs = <<>> /\ ~sax.errored
                   /\ Doc(Text, ValueOf(sax.mem, sax.root)) \in AllDocs

\* v is w with parts taken out or discarded.
RECURSIVE PartOf(_, _)
PartOf(v, w) ==
    \/ v.kind = "discarded"
    \/ /\ v.kind = w.kind
       /\ \E f \in [DOMAIN v.kids -> DOMAIN w.kids] :
            /\ \A i, j \in DOMAIN v.kids : i < j => f[i] < f[j]
            /\ \A i \in DOMAIN v.kids : /\ v.kids[i].key = w.kids[f[i]].key
                                        /\ PartOf(v.kids[i].val, w.kids[f[i]].val)

Result == ValueOf(sax.mem, sax.root)
Meaning == (CHOOSE d \in AllDocs : d.text = Text).value
\* No key comes twice, or a member might be an earlier one of the two.
KeysOnce == \A i, j \in 1 .. Len(read) - 1 :
              i < j /\ read[i] = read[j] => ~(read[i + 1] = ":" /\ read[j + 1] = ":")

\* What the callback leaves is part of the document, in its order
\* (json_sax_dom_callback_parser).
KeepsParts ==
    at = "accepted" /\ IsFilter(sax) /\ sax.root # 0 /\ KeysOnce => PartOf(Result, Meaning)

\* All of it, if it never refuses anything.
KeepsAll == at = "accepted" /\ IsFilter(sax) /\ ~sax.refused =>
                sax.root # 0 /\ Result = Meaning

\* What is accepted is exactly JSON, and what is built is what the text means, or with the
\* callback the parts that it left (sax_parse_internal and its handlers).
BuildsMeaning == AcceptsJson /\ Built /\ KeepsParts /\ KeepsAll

\* The lexer: numbers are the longest that RFC 8259 has, and integers if they fit; strings
\* are well-formed and what their source stands for, and none that is allowed is refused;
\* positions are counted as bytes are taken and given back; comments end where they should.
LexerReads == Lexer!Reads
=============================================================================
