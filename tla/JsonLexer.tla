----------------------------- MODULE JsonLexer -----------------------------
(***************************************************************************)
(* class lexer of json.hpp, byte by byte: scan() with white space, byte    *)
(* order mark, comments, literals, strings with escapes and UTF-8, numbers *)
(* and the position it keeps for error messages. One step is one get().    *)
(***************************************************************************)
EXTENDS Integers, Sequences, FiniteSets, SequencesExt

CONSTANT Setups   \* the inputs and options tried, each a record of what follows

VARIABLE setup    \* the one of this behaviour

Bytes == setup.bytes         \* the bytes the input may have
MaxBytes == setup.maxBytes   \* bound: the length of the input
MaxUnits == setup.maxUnits   \* bound: characters in a string
MaxCalls == setup.maxTokens  \* bound: calls of scan()
ignore_comments == setup.ignore_comments
\* The ranges of number_unsigned_t and number_integer_t.
UnsignedMax == setup.unsignedMax
SignedMax == setup.signedMax

VARIABLES
    fed,     \* what the input adapter has handed out
    lx,      \* the lexer: current, next_unget, position, token_string, token_buffer
    at,      \* where in scan()
    aux,     \* the local variables of the scan functions
    tokens   \* what scan() has returned

vars == <<setup, fed, lx, at, aux, tokens>>

EOF == -1
NL == 10    CR == 13    Quote == 34    Star == 42    Plus == 43    Comma == 44
Minus == 45    Dot == 46    Slash == 47    Zero == 48    Colon == 58
Backslash == 92    LowerU == 117
Space == {32, 9, NL, CR}
Digits == 48 .. 57
ExponentSigns == {69, 101}
LiteralTexts == [literal_true |-> <<116, 114, 117, 101>>,
             literal_false |-> <<102, 97, 108, 115, 101>>,
             literal_null |-> <<110, 117, 108, 108>>]
Single == {<<91, "begin_array">>, <<93, "end_array">>, <<123, "begin_object">>,
           <<125, "end_object">>, <<Colon, "name_separator">>, <<Comma, "value_separator">>}

Idle == [cp |-> 0, high |-> 0, left |-> 0, ranges |-> <<>>, name |-> "", i |-> 0, units |-> 0,
         kind |-> ""]

Fresh == [current |-> EOF, next_unget |-> FALSE, total |-> 0, column |-> 0, lines |-> 0,
          token_string |-> <<>>, token_buffer |-> <<>>]

Init == /\ setup \in Setups /\ fed = <<>> /\ at = "scan" /\ aux = Idle /\ tokens = <<>>
        /\ lx = Fresh

-----------------------------------------------------------------------------
(* get(), unget(), add() and what they leave.                              *)

Got(l, c) ==
    [l EXCEPT !.current = c, !.next_unget = FALSE, !.total = @ + 1,
              !.column = IF c = NL THEN 0 ELSE @ + 1,
              !.lines = IF c = NL THEN @ + 1 ELSE @,
              !.token_string = IF c = EOF THEN @ ELSE Append(@, c)]

\* A slip: the line is not counted back.
UngotLine(l) ==
    [l EXCEPT !.next_unget = TRUE, !.total = @ - 1, !.column = IF @ = 0 THEN 0 ELSE @ - 1,
              !.token_string = IF l.current = EOF THEN @ ELSE SubSeq(@, 1, Len(@) - 1)]

Ungot(l) ==
    [l EXCEPT !.next_unget = TRUE, !.total = @ - 1,
              !.lines = IF l.column = 0 /\ @ > 0 THEN @ - 1 ELSE @,
              !.column = IF @ = 0 THEN 0 ELSE @ - 1,
              !.token_string = IF l.current = EOF THEN @ ELSE SubSeq(@, 1, Len(@) - 1)]

Added(l, bytes) == [l EXCEPT !.token_buffer = @ \o bytes]
Reset(l) == [l EXCEPT !.token_buffer = <<>>, !.token_string = <<l.current>>]

\* The string has as many characters as the bound allows: it must end now.
Full == at = "string" /\ aux.units >= MaxUnits
Upcoming == IF lx.next_unget THEN {lx.current}
            ELSE IF Len(fed) >= MaxBytes \/ (fed # <<>> /\ lx.current = EOF) THEN {EOF}
            ELSE IF Full THEN {Quote} ELSE Bytes \cup {EOF}

\* Read c and go on with lexer l in place p, or return a token.
Read(c) == fed' = IF lx.next_unget \/ c = EOF THEN fed ELSE Append(fed, c)
Continue(l, p, a) == lx' = l /\ at' = p /\ aux' = a /\ UNCHANGED tokens
Return(l, token) == /\ lx' = l /\ aux' = Idle
                    /\ tokens' = Append(tokens, [kind |-> token, string |-> l.token_string,
                                                 buffer |-> l.token_buffer])
                    /\ at' = IF token \in {"parse_error", "end_of_input"}
                                \/ Len(tokens) + 1 >= MaxCalls THEN "done" ELSE "scan"

-----------------------------------------------------------------------------
(* scan()                                                                  *)

\* What scan() does with the first byte that is not white space.
Dispatch(l) ==
    LET c == l.current
        r == Added(Reset(l), <<c>>)
    IN  \/ \E s \in Single : c = s[1] /\ Return(l, s[2])
        \/ \E name \in DOMAIN LiteralTexts : /\ c = LiteralTexts[name][1]
                                         /\ Continue(l, "literal", [Idle EXCEPT !.name = name, !.i = 2])
        \/ c = Quote /\ Continue(Reset(l), "string", Idle)
        \/ c = Minus /\ Continue(r, "minus", [Idle EXCEPT !.kind = "value_integer"])
        \/ c = Zero /\ Continue(r, "zero", [Idle EXCEPT !.kind = "value_unsigned"])
        \/ /\ c \in Digits \ {Zero}
           /\ Continue(r, "any1", [Idle EXCEPT !.kind = "value_unsigned"])
        \/ c \in {0, EOF} /\ Return(l, "end_of_input")
        \/ /\ c \notin {0, EOF, Quote, Minus} \cup Digits \cup {s[1] : s \in Single}
                       \cup {LiteralTexts[n][1] : n \in DOMAIN LiteralTexts}
           /\ Return(l, "parse_error")

AfterSpace(l) == IF ignore_comments /\ l.current = Slash THEN Continue(l, "comment", Idle)
                 ELSE Dispatch(l)

\* skip_bom(): a byte order mark may stand before the first token.
SkipBom(c) ==
    /\ at = "scan" /\ lx.total = 0
    /\ IF c = 239 THEN Continue(Got(lx, c), "bom2", Idle)
       ELSE Continue(Ungot(Got(lx, c)), "space", Idle)
RestOfBom(c) ==
    \/ /\ at = "bom2"
       /\ IF c = 187 THEN Continue(Got(lx, c), "bom3", Idle) ELSE Return(Got(lx, c), "parse_error")
    \/ /\ at = "bom3"
       /\ IF c = 191 THEN Continue(Got(lx, c), "space", Idle) ELSE Return(Got(lx, c), "parse_error")

SkipWhitespace(c) ==
    /\ at = "space" \/ (at = "scan" /\ lx.total # 0)
    /\ IF c \in Space THEN Continue(Got(lx, c), "space", Idle) ELSE AfterSpace(Got(lx, c))

Comment(c) ==
    /\ at = "comment"
    /\ CASE c = Slash -> Continue(Got(lx, c), "line comment", Idle)
         [] c = Star -> Continue(Got(lx, c), "block comment", Idle)
         [] OTHER -> Return(Got(lx, c), "parse_error")
LineComment(c) ==
    /\ at = "line comment"
    /\ Continue(Got(lx, c), IF c \in {NL, CR, 0, EOF} THEN "space" ELSE "line comment", Idle)

\* A slip: the byte after a star is lost.
BlockCommentLoses(c) ==
    \/ /\ at = "block comment"
       /\ IF c \in {0, EOF} THEN Return(Got(lx, c), "parse_error")
          ELSE Continue(Got(lx, c), IF c = Star THEN "star" ELSE "block comment", Idle)
    \/ /\ at = "star"
       /\ Continue(Got(lx, c), IF c = Slash THEN "space" ELSE "block comment", Idle)

BlockComment(c) ==
    \/ /\ at = "block comment"
       /\ IF c \in {0, EOF} THEN Return(Got(lx, c), "parse_error")
          ELSE Continue(Got(lx, c), IF c = Star THEN "star" ELSE "block comment", Idle)
    \/ /\ at = "star"
       /\ IF c = Slash THEN Continue(Got(lx, c), "space", Idle)
          ELSE Continue(Ungot(Got(lx, c)), "block comment", Idle)

scan_literal(c) ==
    /\ at = "literal"
    /\ LET text == LiteralTexts[aux.name]
       IN  IF c # text[aux.i] THEN Return(Got(lx, c), "parse_error")
           ELSE IF aux.i = Len(text) THEN Return(Got(lx, c), aux.name)
           ELSE Continue(Got(lx, c), "literal", [aux EXCEPT !.i = @ + 1])

-----------------------------------------------------------------------------
(* scan_number(): place |-> where it goes on which bytes.                  *)

Arc(bytes, place) == [bytes |-> bytes, place |-> place]
Arcs == [minus |-> {Arc({Zero}, "zero"), Arc(Digits \ {Zero}, "any1")},
         zero |-> {Arc({Dot}, "decimal1"), Arc(ExponentSigns, "exponent")},
         any1 |-> {Arc(Digits, "any1"), Arc({Dot}, "decimal1"), Arc(ExponentSigns, "exponent")},
         decimal1 |-> {Arc(Digits, "decimal2")},
         decimal2 |-> {Arc(Digits, "decimal2"), Arc(ExponentSigns, "exponent")},
         exponent |-> {Arc({Plus, Minus}, "sign"), Arc(Digits, "any2")},
         sign |-> {Arc(Digits, "any2")},
         any2 |-> {Arc(Digits, "any2")}]

\* The value of a text of digits; Huge stands for all that are larger.
Huge == 100000000
Decimal(digits) == FoldLeft(LAMBDA v, d : IF v >= Huge THEN Huge ELSE 10 * v + d - Zero, 0, digits)

\* A slip: a number that is too large stays an integer.
IntegralAlways(kind, buffer) == kind

\* strtoull and strtoll report a range error; then the number is read as a float.
Integral(kind, buffer) ==
    CASE kind = "value_unsigned" /\ Decimal(buffer) <= UnsignedMax -> kind
      [] kind = "value_integer" /\ Decimal(Tail(buffer)) <= SignedMax + 1 -> kind
      [] OTHER -> "value_float"

NumberKind(a, place) ==
    IF place \in {"decimal1", "exponent"} THEN [a EXCEPT !.kind = "value_float"] ELSE a

scan_number(c) ==
    /\ at \in DOMAIN Arcs
    /\ \/ \E arc \in Arcs[at] : /\ c \in arc.bytes
                                /\ Continue(Added(Got(lx, c), <<c>>), arc.place,
                                            NumberKind(aux, arc.place))
       \/ /\ \A arc \in Arcs[at] : c \notin arc.bytes
          /\ IF at \in {"minus", "decimal1", "exponent", "sign"}
             THEN Return(Got(lx, c), "parse_error")
             ELSE Return(Ungot(Got(lx, c)), Integral(aux.kind, lx.token_buffer))

-----------------------------------------------------------------------------
(* scan_string()                                                           *)

\* The code point as UTF-8: the marks of the first byte, six bits in each later one.
Six(cp, n) == 128 + ((cp \div n) % 64)
Utf8(cp) ==
    IF cp < 128 THEN <<cp>>
    ELSE IF cp <= 2047 THEN <<192 + (cp \div 64), Six(cp, 1)>>
    ELSE IF cp <= 65535 THEN <<224 + (cp \div 4096), Six(cp, 64), Six(cp, 1)>>
    ELSE <<240 + (cp \div 262144), Six(cp, 4096), Six(cp, 64), Six(cp, 1)>>

HexValue(c) == IF c \in 48 .. 57 THEN c - 48 ELSE IF c \in 65 .. 70 THEN c - 55
               ELSE IF c \in 97 .. 102 THEN c - 87 ELSE -1

Escapes == [x \in {34, 47, 92, 98, 102, 110, 114, 116} |->
              CASE x = 98 -> 8 [] x = 102 -> 12 [] x = 110 -> NL [] x = 114 -> CR
                [] x = 116 -> 9 [] OTHER -> x]

Tail1 == <<128, 191>>

\* A slip: the first character of four bytes is refused.
TailsShort(c) ==
    CASE c \in 194 .. 223 -> <<Tail1>>
      [] c = 224 -> <<<<160, 191>>, Tail1>>
      [] c \in 225 .. 236 \cup {238, 239} -> <<Tail1, Tail1>>
      [] c = 237 -> <<<<128, 159>>, Tail1>>
      [] c = 240 -> <<<<145, 191>>, Tail1, Tail1>>
      [] c \in 241 .. 243 -> <<Tail1, Tail1, Tail1>>
      [] c = 244 -> <<<<128, 143>>, Tail1, Tail1>>
      [] OTHER -> <<>>

\* The ranges of the bytes that must follow a first byte.
Tails(c) ==
    CASE c \in 194 .. 223 -> <<Tail1>>
      [] c = 224 -> <<<<160, 191>>, Tail1>>
      [] c \in 225 .. 236 \cup {238, 239} -> <<Tail1, Tail1>>
      [] c = 237 -> <<<<128, 159>>, Tail1>>
      [] c = 240 -> <<<<144, 191>>, Tail1, Tail1>>
      [] c \in 241 .. 243 -> <<Tail1, Tail1, Tail1>>
      [] c = 244 -> <<<<128, 143>>, Tail1, Tail1>>
      [] OTHER -> <<>>

OneMore == [Idle EXCEPT !.units = aux.units + 1]

Character(c) ==
    /\ at = "string"
    /\ LET l == Got(lx, c)
       IN  CASE c = Quote -> Return(l, "value_string")
             [] c = Backslash -> Continue(l, "escape", aux)
             [] c \in (32 .. 127) \ {Quote, Backslash} -> Continue(Added(l, <<c>>), "string", OneMore)
             [] Tails(c) # <<>> -> Continue(Added(l, <<c>>), "tail",
                                            [OneMore EXCEPT !.ranges = Tails(c)])
             [] OTHER -> Return(l, "parse_error")

next_byte_in_range(c) ==
    /\ at = "tail"
    /\ IF c \in aux.ranges[1][1] .. aux.ranges[1][2]
       THEN Continue(Added(Got(lx, c), <<c>>), IF Len(aux.ranges) = 1 THEN "string" ELSE "tail",
                     [aux EXCEPT !.ranges = Tail(@)])
       ELSE Return(Got(lx, c), "parse_error")

Escape(c) ==
    /\ at = "escape"
    /\ LET l == Got(lx, c)
       IN  CASE c = LowerU -> Continue(l, "hex", [OneMore EXCEPT !.left = 4])
             [] c \in DOMAIN Escapes -> Continue(Added(l, <<Escapes[c]>>), "string", OneMore)
             [] OTHER -> Return(l, "parse_error")

High == 55296 .. 56319
Low == 56320 .. 57343

Pair(high, low) == high * 1024 + low - 56613888

\* get_codepoint() and what scan_string() does with its result.
Codepoint(c) ==
    /\ at = "hex"
    /\ LET l == Got(lx, c)
           cp == aux.cp * 16 + HexValue(c)
       IN  CASE HexValue(c) = -1 -> Return(l, "parse_error")
             [] aux.left > 1 /\ HexValue(c) # -1 ->
                  Continue(l, "hex", [aux EXCEPT !.cp = cp, !.left = @ - 1])
             [] aux.left = 1 /\ HexValue(c) # -1 /\ aux.high = 0 /\ cp \in High ->
                  Continue(l, "low", [aux EXCEPT !.high = cp, !.cp = 0, !.left = 4])
             [] aux.left = 1 /\ HexValue(c) # -1 /\ aux.high = 0 /\ cp \notin High \cup Low ->
                  Continue(Added(l, Utf8(cp)), "string", [Idle EXCEPT !.units = aux.units])
             [] aux.left = 1 /\ HexValue(c) # -1 /\ aux.high # 0 /\ cp \in Low ->
                  Continue(Added(l, Utf8(Pair(aux.high, cp))), "string",
                           [Idle EXCEPT !.units = aux.units])
             [] OTHER -> Return(l, "parse_error")

\* The second half of a surrogate pair.
SecondHalf(c) ==
    \/ /\ at = "low"
       /\ IF c = Backslash THEN Continue(Got(lx, c), "low u", aux)
          ELSE Return(Got(lx, c), "parse_error")
    \/ /\ at = "low u"
       /\ IF c = LowerU THEN Continue(Got(lx, c), "hex", aux)
          ELSE Return(Got(lx, c), "parse_error")

-----------------------------------------------------------------------------

Step(c) == \/ SkipBom(c) \/ RestOfBom(c) \/ SkipWhitespace(c) \/ Comment(c) \/ LineComment(c)
           \/ BlockComment(c) \/ scan_literal(c) \/ scan_number(c) \/ Character(c)
           \/ next_byte_in_range(c) \/ Escape(c) \/ Codepoint(c) \/ SecondHalf(c)

Done == at = "done" /\ UNCHANGED vars
Next == Done \/ \E c \in Upcoming : Read(c) /\ Step(c) /\ UNCHANGED setup

Spec == Init /\ [][Next]_vars
-----------------------------------------------------------------------------
(* What the lexer should return: numbers and strings as RFC 8259 defines   *)
(* them, generated and not recognised, and positions counted from the      *)
(* input.                                                                  *)

Token == Last(tokens)
Consumed == IF lx.next_unget /\ lx.current # EOF THEN Front(fed) ELSE fed

\* RFC 8259: int, frac and exp of a number.
AllDigits(s) == s # <<>> /\ \A i \in DOMAIN s : s[i] \in Digits
Unsigned(s) == IF s # <<>> /\ s[1] = Minus THEN Tail(s) ELSE s
IsInt(s) == LET u == Unsigned(s) IN AllDigits(u) /\ (Len(u) > 1 => u[1] # Zero)
IsFrac(s) == s = <<>> \/ (s[1] = Dot /\ AllDigits(Tail(s)))
IsExp(s) == \/ s = <<>>
            \/ /\ s[1] \in ExponentSigns
               /\ LET t == Tail(s)
                  IN  AllDigits(IF t # <<>> /\ t[1] \in {Plus, Minus} THEN Tail(t) ELSE t)
IsNumber(s) == \E i \in 0 .. Len(s) : \E j \in i .. Len(s) :
                 /\ IsInt(SubSeq(s, 1, i)) /\ IsFrac(SubSeq(s, i + 1, j))
                 /\ IsExp(SubSeq(s, j + 1, Len(s)))

\* A number is the longest one the input starts with, and an integer exactly if it
\* has neither point nor exponent and fits (scan_number).
NumbersRead ==
    at = "done" /\ Len(tokens) = 1 /\ fed # <<>> /\ fed[1] \in Digits \cup {Minus} =>
      IF Token.kind = "parse_error"
      THEN ~IsNumber(fed) /\ (lx.current = EOF \/ ~IsNumber(Append(fed, Zero)))
      ELSE LET text == Token.string
               range == IF text[1] = Minus THEN SignedMax + 1 ELSE UnsignedMax
           IN  /\ IsNumber(text) /\ text = Token.buffer
               /\ Len(text) < Len(fed) => ~IsNumber(Append(text, Last(fed)))
               /\ (Token.kind # "value_float") = (IsInt(text) /\ Decimal(Unsigned(text)) <= range)

-----------------------------------------------------------------------------

\* UTF-8 read back: the code points, or <<-1>> where it is not well-formed.
RECURSIVE FromUtf8(_)
FromUtf8(b) ==
    IF b = <<>> THEN <<>>
    ELSE LET n == IF b[1] < 128 THEN 1 ELSE IF b[1] < 224 THEN 2 ELSE IF b[1] < 240 THEN 3 ELSE 4
             low(i) == b[i] - 128
             cp == CASE n = 1 -> b[1]
                     [] n = 2 -> (b[1] - 192) * 64 + low(2)
                     [] n = 3 -> (b[1] - 224) * 4096 + low(2) * 64 + low(3)
                     [] OTHER -> (b[1] - 240) * 262144 + low(2) * 4096 + low(3) * 64 + low(4)
         IN  IF n > Len(b) \/ \E i \in 2 .. n : b[i] \notin 128 .. 191 THEN <<-1>>
             ELSE IF cp \in High \cup Low \/ cp > 1114111 \/ Len(Utf8(cp)) # n THEN <<-1>>
             ELSE <<cp>> \o FromUtf8(SubSeq(b, n + 1, Len(b)))

\* The same of what stands between the quotes: an escape is one code point.
RECURSIVE Unescaped(_)
Unescaped(b) ==
    LET Hex(i) == HexValue(b[i]) * 4096 + HexValue(b[i + 1]) * 256 + HexValue(b[i + 2]) * 16
                  + HexValue(b[i + 3])
        NextEscape == IF \E i \in DOMAIN b : b[i] = Backslash
                      THEN CHOOSE i \in DOMAIN b :
                             b[i] = Backslash /\ \A j \in 1 .. i - 1 : b[j] # Backslash
                      ELSE Len(b) + 1
        Rest(i) == Unescaped(SubSeq(b, i, Len(b)))
    IN  IF b = <<>> THEN <<>>
        ELSE IF NextEscape > 1
             THEN FromUtf8(SubSeq(b, 1, NextEscape - 1)) \o Rest(NextEscape)
        ELSE IF b[2] # LowerU THEN <<Escapes[b[2]]>> \o Rest(3)
        ELSE IF Hex(3) \in High
             THEN <<65536 + (Hex(3) - 55296) * 1024 + (Hex(9) - 56320)>> \o Rest(13)
        ELSE <<Hex(3)>> \o Rest(7)

\* A string that is returned is well-formed UTF-8 and has the characters its source
\* text stands for (scan_string, get_codepoint).
StringsMean ==
    tokens # <<>> /\ Token.kind = "value_string" =>
      LET read == FromUtf8(Token.buffer)
      IN  /\ -1 \notin {read[i] : i \in DOMAIN read}
          /\ read = Unescaped(SubSeq(Token.string, 2, Len(Token.string) - 1))

\* What a string may contain; a string of such parts is not refused.
Units == {<<c>> : c \in Bytes \cap ((32 .. 127) \ {Quote, Backslash})}
         \cup {<<Backslash, c>> : c \in Bytes \cap DOMAIN Escapes}
         \cup {Utf8(cp) : cp \in {233, 2048, 4095, 53248, 55295, 57344, 65535, 65536, 262144,
                                  1048576, 1114111}}
StringsAccepted ==
    at = "done" /\ tokens # <<>> /\ Token.kind = "parse_error" /\ lx.current # EOF /\ fed[1] = Quote =>
      ~\E u, v \in Units : IsPrefix(fed, <<Quote>> \o u \o v \o <<Quote>>)

-----------------------------------------------------------------------------

Newlines(s) == Cardinality({i \in DOMAIN s : s[i] = NL})

\* Line and total are those of the bytes that have been taken and not given back, the
\* end of the input counting as one more byte while it is the current one (get, unget).
PositionRight ==
    LET atEnd == lx.total > 0 /\ lx.current = EOF /\ ~lx.next_unget
    IN  tokens = <<>> => /\ lx.total = Len(Consumed) + (IF atEnd THEN 1 ELSE 0)
                         /\ lx.lines = Newlines(Consumed)

\* The input without its comments, each replaced by one space; <<-1>> if one is open.
RECURSIVE Stripped(_)
Stripped(s) ==
    LET From(i) == SubSeq(s, i, Len(s))
        lineEnds == {i \in 3 .. Len(s) : s[i] \in {NL, CR, 0}}
        blockEnds == {i \in 4 .. Len(s) : s[i] = Slash /\ s[i - 1] = Star}
    IN  IF s = <<>> THEN s
        ELSE IF IsPrefix(<<Slash, Slash>>, s)
             THEN <<32>> \o IF lineEnds = {} THEN <<>> ELSE Stripped(From(Min(lineEnds) + 1))
        ELSE IF IsPrefix(<<Slash, Star>>, s)
             THEN IF blockEnds = {} THEN <<-1>> ELSE <<32>> \o Stripped(From(Min(blockEnds) + 1))
        ELSE <<s[1]>> \o Stripped(Tail(s))

\* The digits that come back are those outside the comments, and an input that is read
\* to its end has no comment left open; the end of the input is an error only inside a
\* comment, before one or in a byte order mark (scan_comment).
CommentsEnd ==
    LET text == Stripped(Consumed)
        open == -1 \in {text[i] : i \in DOMAIN text}
        numbers == SelectSeq(tokens, LAMBDA t : t.kind = "value_unsigned")
    IN  ignore_comments /\ at \in {"scan", "done"} /\ tokens # <<>> =>
          IF Token.kind = "parse_error"
          THEN lx.current = EOF => open \/ Last(text) \in {Slash, 239, 187}
          ELSE /\ ~open
               /\ FlattenSeq([i \in DOMAIN numbers |-> numbers[i].buffer])
                    = SelectSeq(text, LAMBDA b : b \in Digits)

\* All of it in every state.
Reads == NumbersRead /\ StringsMean /\ StringsAccepted /\ PositionRight /\ CommentsEnd
=============================================================================
