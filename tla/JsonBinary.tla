----------------------------- MODULE JsonBinary -----------------------------
(***************************************************************************)
(* The binary formats of json.hpp: what they have in common (values,       *)
(* numbers of 64 bits as eight bytes with the highest first, floats by     *)
(* their bits, and the reading of numbers and bytes from an input at a     *)
(* position, which has the next position 0 if it fails), and then the      *)
(* writers and readers of CBOR, with the three ways to handle a tag        *)
(* (error, ignore, store), of MessagePack and of BSON.                     *)
(*                                                                         *)
(* At the end, what they should do. Either a value on the edges of their   *)
(* widths and lengths is wrapped in arrays and objects, or an input for    *)
(* one of the readers grows piece by piece, whether the pieces make sense  *)
(* together or not.                                                        *)
(***************************************************************************)
EXTENDS Integers, Sequences, FiniteSets, SequencesExt

CONSTANTS Exponents,  \* of the numbers 2^n and their neighbours
          Lengths,    \* of strings and binary data
          Sizes,      \* of arrays and objects
          Depth,      \* bound: wrappings
          MaxPieces   \* bound: format |-> pieces of an input

VARIABLES doc, depth,            \* the value
          format, input, pieces  \* the input and whose it is, or "none"

\* A value: its bytes (a number, the characters of a string), its members, and
\* the subtype of binary data as a number, or nothing.
Value(kind, bytes) == [kind |-> kind, tag |-> <<>>, bytes |-> bytes, kids |-> <<>>]
Null == Value("null", <<>>)
Bool(b) == Value("boolean", <<IF b THEN 1 ELSE 0>>)
Float(bits) == Value("float", bits)
Text(bytes) == Value("string", bytes)
Bin(tag, bytes) == [Value("binary", bytes) EXCEPT !.tag = tag]
Member(k, v) == [key |-> k, val |-> v]
Array(vs) == [Value("array", <<>>) EXCEPT !.kids = [i \in DOMAIN vs |-> Member(<<>>, vs[i])]]

Less(a, b) == \/ \E i \in DOMAIN a \cap DOMAIN b :
                     a[i] < b[i] /\ \A j \in 1 .. i - 1 : a[j] = b[j]
              \/ Len(a) < Len(b) /\ \A j \in DOMAIN a : a[j] = b[j]

\* std::map: in the order of the keys, of equal keys the last.
Object(ms) ==
    LET last == {i \in DOMAIN ms : \A j \in i + 1 .. Len(ms) : ms[j].key # ms[i].key}
        rank(i) == Cardinality({j \in last : Less(ms[j].key, ms[i].key)}) + 1
    IN  [Value("object", <<>>) EXCEPT !.kids =
            [n \in 1 .. Cardinality(last) |-> ms[CHOOSE i \in last : rank(i) = n]]]

-----------------------------------------------------------------------------
(* Numbers                                                                 *)

Fill(x, n) == [i \in 1 .. n |-> x]
Negative(b) == b[1] >= 128
Unsigned(b) == Value("unsigned", b)

\* A number that is not negative compares equal whether it is signed or not.
Integer(b) == Value(IF Negative(b) THEN "integer" ELSE "unsigned", b)

Big(n) == Fill(0, 5) \o <<n \div 65536, (n \div 256) % 256, n % 256>>
Low(b, k) == SubSeq(b, 9 - k, 8)
Widen(b) == Fill(0, 8 - Len(b)) \o b
SignExtend(b) == Fill(IF Negative(b) THEN 255 ELSE 0, 8 - Len(b)) \o b
MinusOneMinus(b) == [i \in DOMAIN b |-> 255 - b[i]]

FitsUnsigned(b, k) == \A i \in 1 .. 8 - k : b[i] = 0
FitsSigned(b, k) == SignExtend(Low(b, k)) = b
Below(b, n) == FitsUnsigned(b, 1) /\ b[8] < n

\* The first of the widths ks for which ok holds.
First(ks, Ok(_)) == ks[CHOOSE i \in DOMAIN ks : Ok(ks[i]) /\ \A j \in 1 .. i - 1 : ~Ok(ks[j])]

\* A length that no input here has.
Huge == 1073741824
ToLength(b) == IF FitsUnsigned(b, 3) THEN (b[6] * 256 + b[7]) * 256 + b[8] ELSE Huge

-----------------------------------------------------------------------------
(* Floats: the bits of a float, or of a double if it is none. NaN is one.  *)

Infinite == <<127, 128, 0, 0>>
NotANumber == <<127, 192, 0, 0>>
Signed(minus, bits) == <<bits[1] + (IF minus THEN 128 ELSE 0)>> \o Tail(bits)
Bits4(e, m) == <<e \div 2, 128 * (e % 2) + (m \div 65536), (m \div 256) % 256, m % 256>>
Log(m) == CHOOSE k \in 0 .. 10 : 2 ^ k <= m /\ m < 2 ^ (k + 1)

\* std::ldexp on the parts of a half.
FromHalf(h) ==
    LET exp == (h[1] \div 4) % 32
        mant == (h[1] % 4) * 256 + h[2]
        k == Log(mant)
    IN  IF exp = 31 THEN (IF mant = 0 THEN Signed(h[1] >= 128, Infinite) ELSE NotANumber)
        ELSE Signed(h[1] >= 128,
               IF exp > 0 THEN Bits4(exp + 112, mant * 2 ^ 13)
               ELSE IF mant = 0 THEN Bits4(0, 0)
               ELSE Bits4(k + 103, (mant - 2 ^ k) * 2 ^ (23 - k)))

\* static_cast<double>(float).
ToDouble(b) ==
    IF Len(b) = 8 THEN b
    ELSE LET e == (b[1] % 128) * 2 + (b[2] \div 128)
             m == (b[2] % 128) * 65536 + b[3] * 256 + b[4]
             E == IF e = 255 THEN 2047 ELSE IF e = 0 THEN 0 ELSE e + 896
         IN  Signed(b[1] >= 128,
               <<E \div 16, (E % 16) * 16 + (m \div 2 ^ 19), (m \div 2 ^ 11) % 256,
                 (m \div 8) % 256, (m % 8) * 32, 0, 0, 0>>)

\* The value of a double: a float if there is one of that value.
FromDouble(d) ==
    LET E == (d[1] % 128) * 16 + (d[2] \div 16)
        m == (d[2] % 16) * 2 ^ 19 + d[3] * 2 ^ 11 + d[4] * 8 + (d[5] \div 32)
        f == Signed(d[1] >= 128,
               IF E = 2047 THEN Infinite ELSE IF E = 0 THEN Bits4(0, 0) ELSE Bits4(E - 896, m))
    IN  IF E = 2047 /\ (d[2] # 240 \/ \E i \in 3 .. 8 : d[i] # 0) THEN NotANumber
        ELSE IF E \in {0, 2047} \cup 897 .. 1150 /\ ToDouble(f) = d THEN f ELSE d
FromSingle(b) ==
    IF b[1] % 128 = 127 /\ b[2] >= 128 /\ Signed(b[1] >= 128, Infinite) # b THEN NotANumber ELSE b

-----------------------------------------------------------------------------
(* Reading                                                                 *)

Got(next, v) == [next |-> next, val |-> v]
Bad == Got(0, Null)
Failed(r) == r.next = 0

\* get_number, before the bytes are taken for a number of some type.
get_number(in, p, k) ==
    IF p + k - 1 <= Len(in) THEN Got(p + k, SubSeq(in, p, p + k - 1)) ELSE Got(0, <<>>)

\* Slip: the end of the input is not noticed.
get_bytesLenient(in, p, n) ==
    LET last == IF n # Huge /\ p + n - 1 <= Len(in) THEN p + n - 1 ELSE Len(in)
    IN  IF p > Len(in) + 1 THEN Got(0, <<>>) ELSE Got(last + 1, SubSeq(in, p, last))

\* get_string and get_binary: to the end of the input if that comes first.
get_bytes(in, p, n) ==
    IF n # Huge /\ p + n - 1 <= Len(in) THEN Got(p + n, SubSeq(in, p, p + n - 1))
    ELSE Got(0, <<>>)

\* A length or number of k bytes, as a 64-bit number.
get_unsigned(in, p, k) ==
    LET r == get_number(in, p, k)
    IN  Got(r.next, IF Failed(r) THEN Fill(0, 8) ELSE Widen(r.val))

\* The answer of a reader, made a value by F.
Then(r, F(_)) == IF Failed(r) THEN Bad ELSE Got(r.next, F(r.val))

\* sax_parse with strict: what follows the value is an error.
Whole(in, r) == IF ~Failed(r) /\ r.next = Len(in) + 1 THEN r ELSE Bad

-----------------------------------------------------------------------------
(* CBOR                                                                    *)

\* Slip: a one-byte length from 24 is taken to start at 25.
CborHeadShort(major, b) ==
    IF Below(b, 25) THEN <<32 * major + b[8]>>
    ELSE LET k == First(<<1, 2, 4, 8>>, LAMBDA w : FitsUnsigned(b, w))
         IN  <<32 * major + 24 + (CHOOSE i \in 0 .. 3 : 2 ^ i = k)>> \o Low(b, k)

\* A number in the narrowest of five ways.
CborHead(major, b) ==
    IF Below(b, 24) THEN <<32 * major + b[8]>>
    ELSE LET k == First(<<1, 2, 4, 8>>, LAMBDA w : FitsUnsigned(b, w))
         IN  <<32 * major + 24 + (CHOOSE i \in 0 .. 3 : 2 ^ i = k)>> \o Low(b, k)

cbor_number(j) ==
    IF j.kind = "integer" /\ Negative(j.bytes)
    THEN CborHead(1, MinusOneMinus(j.bytes)) ELSE CborHead(0, j.bytes)

cbor_float(b) ==
    CASE b = NotANumber -> <<249, 126, 0>>
      [] b = Infinite -> <<249, 124, 0>>
      [] b = Signed(TRUE, Infinite) -> <<249, 252, 0>>
      [] OTHER -> <<IF Len(b) = 4 THEN 250 ELSE 251>> \o b

cbor_sized(major, payload) == CborHead(major, Big(Len(payload))) \o payload

\* A subtype is a tag, never the short one.
cbor_binary(j) ==
    LET k == First(<<1, 2, 4, 8>>, LAMBDA w : FitsUnsigned(j.tag, w))
    IN  (IF j.tag = <<>> THEN <<>>
         ELSE <<216 + (CHOOSE i \in 0 .. 3 : 2 ^ i = k)>> \o Low(j.tag, k))
        \o cbor_sized(2, j.bytes)

RECURSIVE write_cbor(_)
write_cbor(j) ==
    LET all(W(_)) == FlattenSeq([i \in DOMAIN j.kids |-> W(j.kids[i])])
        size == Big(Len(j.kids))
    IN  CASE j.kind = "null" -> <<246>>
          [] j.kind = "boolean" -> <<244 + j.bytes[1]>>
          [] j.kind \in {"integer", "unsigned"} -> cbor_number(j)
          [] j.kind = "float" -> cbor_float(j.bytes)
          [] j.kind = "string" -> cbor_sized(3, j.bytes)
          [] j.kind = "binary" -> cbor_binary(j)
          [] j.kind = "array" -> CborHead(4, size) \o all(LAMBDA m : write_cbor(m.val))
          [] j.kind = "object" -> CborHead(5, size) \o
                 all(LAMBDA m : cbor_sized(3, m.key) \o write_cbor(m.val))

-----------------------------------------------------------------------------

Major(in, p) == IF p <= Len(in) THEN in[p] \div 32 ELSE -1
Info(in, p) == in[p] % 32

\* The number in or behind the byte at p.
CborNumber(in, p) ==
    IF Info(in, p) < 24 THEN Got(p + 1, Big(Info(in, p)))
    ELSE IF Info(in, p) < 28 THEN get_unsigned(in, p + 1, 2 ^ (Info(in, p) - 24))
    ELSE Got(0, Fill(0, 8))

Indefinite == -1
Break(in, p) == p <= Len(in) /\ in[p] = 255

\* The number of elements. The largest 64-bit number is what the code itself
\* writes for the indefinite length.
CborCount(in, p) ==
    IF Info(in, p) = 31 THEN Got(p + 1, Indefinite)
    ELSE LET r == CborNumber(in, p)
         IN  Got(r.next, IF r.val = Fill(255, 8) THEN Indefinite ELSE ToLength(r.val))

\* Slip: what was read of the chunks before is forgotten.
ChunkAlone(result, chunk) == chunk

\* result.append(chunk)
Appended(result, chunk) == result \o chunk

\* get_cbor_string and get_cbor_binary: chunks may hold chunks.
RECURSIVE get_cbor_bytes(_, _, _), Chunks(_, _, _, _)
get_cbor_bytes(in, p, major) ==
    IF Major(in, p) # major THEN Got(0, <<>>)
    ELSE IF Info(in, p) = 31 THEN Chunks(in, p + 1, major, <<>>)
    ELSE LET r == CborNumber(in, p)
         IN  IF Failed(r) THEN Got(0, <<>>) ELSE get_bytes(in, r.next, ToLength(r.val))
Chunks(in, p, major, result) ==
    IF Break(in, p) THEN Got(p + 1, result)
    ELSE LET r == get_cbor_bytes(in, p, major)
         IN  IF Failed(r) THEN r ELSE Chunks(in, r.next, major, Appended(result, r.val))

get_cbor_string(in, p) == get_cbor_bytes(in, p, 3)
get_cbor_binary(in, p) == get_cbor_bytes(in, p, 2)

\* Half, single and double.
CborFloat(in, p) ==
    LET k == 2 ^ (in[p] - 248)
        F(b) == Float(CASE k = 2 -> FromHalf(b) [] k = 4 -> FromSingle(b) [] k = 8 -> FromDouble(b))
    IN  Then(get_number(in, p + 1, k), F)

\* The byte where a tag's item starts; the tag's own number may be cut off.
AfterTag(in, p) == p + 1 + (IF Info(in, p) < 24 THEN 0 ELSE 2 ^ (Info(in, p) - 24))
IsTag(byte) == byte \in 198 .. 212 \cup 216 .. 219

RECURSIVE parse_cbor_internal(_, _, _), CborItems(_, _, _, _, _, _)

\* n more elements, or members, or those until the break.
CborItems(in, p, n, keyed, tags, ms) ==
    IF n = 0 THEN Got(p, ms)
    ELSE IF n = Indefinite /\ Break(in, p) THEN Got(p + 1, ms)
    ELSE LET k == IF keyed THEN get_cbor_string(in, p) ELSE Got(p, <<>>)
             v == IF Failed(k) THEN Bad ELSE parse_cbor_internal(in, k.next, tags)
         IN  IF Failed(v) THEN Got(0, <<>>)
             ELSE CborItems(in, v.next, IF n = Indefinite THEN n ELSE n - 1, keyed, tags,
                            Append(ms, Member(k.val, v.val)))

\* Slip: the bytes of a tag's number are not passed over.
CborTaggedShort(in, p, tags) ==
    CASE tags = "error" -> Bad
      [] tags = "ignore" \/ in[p] < 216 -> parse_cbor_internal(in, p + 1, tags)
      [] OTHER -> Then(get_cbor_binary(in, AfterTag(in, p)),
                       LAMBDA b : Bin(CborNumber(in, p).val, b))

\* A tag: refused, passed over, or kept for the binary data that must follow.
CborTagged(in, p, tags) ==
    CASE tags = "error" -> Bad
      [] tags = "ignore" \/ in[p] < 216 -> parse_cbor_internal(in, AfterTag(in, p), tags)
      [] OTHER -> Then(get_cbor_binary(in, AfterTag(in, p)),
                       LAMBDA b : Bin(CborNumber(in, p).val, b))

get_cbor_array(in, p, n, tags) ==
    Then(CborItems(in, p, n, FALSE, tags, <<>>),
         LAMBDA ms : [Value("array", <<>>) EXCEPT !.kids = ms])

get_cbor_object(in, p, n, tags) == Then(CborItems(in, p, n, TRUE, tags, <<>>), Object)

CborContainer(in, p, tags) ==
    LET n == CborCount(in, p)
    IN  CASE Failed(n) -> Bad
          [] ~Failed(n) /\ Major(in, p) = 4 -> get_cbor_array(in, n.next, n.val, tags)
          [] ~Failed(n) /\ Major(in, p) = 5 -> get_cbor_object(in, n.next, n.val, tags)

CborSimple(in, p) ==
    CASE in[p] \in {244, 245} -> Got(p + 1, Bool(in[p] = 245))
      [] in[p] = 246 -> Got(p + 1, Null)
      [] in[p] \in 249 .. 251 -> CborFloat(in, p)
      [] OTHER -> Bad

parse_cbor_internal(in, p, tags) ==
    CASE Major(in, p) = 0 -> Then(CborNumber(in, p), Unsigned)
      [] Major(in, p) = 1 -> Then(CborNumber(in, p), LAMBDA b : Integer(MinusOneMinus(b)))
      [] Major(in, p) = 2 -> Then(get_cbor_binary(in, p), LAMBDA b : Bin(<<>>, b))
      [] Major(in, p) = 3 -> Then(get_cbor_string(in, p), Text)
      [] Major(in, p) \in {4, 5} -> CborContainer(in, p, tags)
      [] Major(in, p) = 6 /\ IsTag(in[p]) -> CborTagged(in, p, tags)
      [] Major(in, p) = 7 -> CborSimple(in, p)
      [] OTHER -> Bad

from_cbor(in, tags) == Whole(in, parse_cbor_internal(in, 1, tags))

-----------------------------------------------------------------------------
(* MessagePack: write_msgpack and parse_msgpack_internal.                  *)

\* The byte first, or the one for the number of bytes a width takes; then those.
Wide(first, ks, k, b) == <<first + (CHOOSE i \in DOMAIN ks : ks[i] = k) - 1>> \o Low(b, k)

msgpack_unsigned(b) ==
    IF Below(b, 128) THEN <<b[8]>>
    ELSE LET ks == <<1, 2, 4, 8>>
         IN  Wide(204, ks, First(ks, LAMBDA k : FitsUnsigned(b, k)), b)

msgpack_negative(b) ==
    IF FitsSigned(b, 1) /\ b[8] >= 224 THEN <<b[8]>>
    ELSE LET ks == <<1, 2, 4, 8>>
         IN  Wide(208, ks, First(ks, LAMBDA k : FitsSigned(b, k)), b)

\* A float if it has the value; NaN and the infinities have not.
msgpack_float(b) ==
    IF Len(b) = 4 /\ b \notin {NotANumber, Infinite, Signed(TRUE, Infinite)} THEN <<202>> \o b
    ELSE <<203>> \o ToDouble(b)

msgpack_string(s) ==
    LET n == Big(Len(s))
        ks == <<1, 2, 4>>
    IN  (IF Len(s) <= 31 THEN <<160 + Len(s)>>
         ELSE Wide(217, ks, First(ks, LAMBDA k : FitsUnsigned(n, k)), n)) \o s

\* An array or an object, whose sizes of two and four bytes follow each other.
msgpack_size(short, first, n) ==
    IF n <= 15 THEN <<short + n>>
    ELSE Wide(first, <<2, 4>>, First(<<2, 4>>, LAMBDA k : FitsUnsigned(Big(n), k)), Big(n))

FixedSizes == <<1, 2, 4, 8, 16>>

\* Slip: data of a fixed size keeps its length byte.
msgpack_binaryLong(j) ==
    LET n == Len(j.bytes)
        ks == <<1, 2, 4>>
        head(first) == Wide(first, ks, First(ks, LAMBDA k : FitsUnsigned(Big(n), k)), Big(n))
        fixed == {i \in DOMAIN FixedSizes : FixedSizes[i] = n}
    IN  (IF j.tag = <<>> THEN head(196)
         ELSE (IF fixed # {} THEN <<211 + (CHOOSE i \in fixed : TRUE), n>> ELSE head(199))
              \o Low(j.tag, 1)) \o j.bytes

\* With a subtype it is an extension, which has heads of its own for five sizes.
msgpack_binary(j) ==
    LET n == Len(j.bytes)
        ks == <<1, 2, 4>>
        head(first) == Wide(first, ks, First(ks, LAMBDA k : FitsUnsigned(Big(n), k)), Big(n))
        fixed == {i \in DOMAIN FixedSizes : FixedSizes[i] = n}
    IN  (IF j.tag = <<>> THEN head(196)
         ELSE (IF fixed # {} THEN <<211 + (CHOOSE i \in fixed : TRUE)>> ELSE head(199))
              \o Low(j.tag, 1)) \o j.bytes

RECURSIVE write_msgpack(_)
write_msgpack(j) ==
    LET all(W(_)) == FlattenSeq([i \in DOMAIN j.kids |-> W(j.kids[i])])
        size == Len(j.kids)
    IN  CASE j.kind = "null" -> <<192>>
          [] j.kind = "boolean" -> <<194 + j.bytes[1]>>
          [] j.kind \in {"integer", "unsigned"} ->
                 IF j.kind = "integer" /\ Negative(j.bytes) THEN msgpack_negative(j.bytes)
                 ELSE msgpack_unsigned(j.bytes)
          [] j.kind = "float" -> msgpack_float(j.bytes)
          [] j.kind = "string" -> msgpack_string(j.bytes)
          [] j.kind = "binary" -> msgpack_binary(j)
          [] j.kind = "array" -> msgpack_size(144, 220, size) \o
                 all(LAMBDA m : write_msgpack(m.val))
          [] j.kind = "object" -> msgpack_size(128, 222, size) \o
                 all(LAMBDA m : msgpack_string(m.key) \o write_msgpack(m.val))

-----------------------------------------------------------------------------

At(in, p) == IF p <= Len(in) THEN in[p] ELSE -1

\* The payload behind a length of k bytes; skip bytes of something else first.
Sized(in, p, k, skip) ==
    LET r == get_unsigned(in, p + 1, k)
    IN  IF Failed(r) THEN Got(0, <<>>) ELSE get_bytes(in, r.next + skip, ToLength(r.val))

get_msgpack_string(in, p) ==
    CASE At(in, p) \in 160 .. 191 -> get_bytes(in, p + 1, in[p] % 32)
      [] At(in, p) \in 217 .. 219 -> Sized(in, p, 2 ^ (in[p] - 217), 0)
      [] OTHER -> Got(0, <<>>)

\* The type byte of an extension stands between its length and its data.
get_msgpack_binary(in, p) ==
    LET k == IF in[p] < 199 THEN 2 ^ (in[p] - 196) ELSE 2 ^ (in[p] - 199)
        type(at) == Widen(<<in[at]>>)
    IN  CASE in[p] \in 196 .. 198 -> Then(Sized(in, p, k, 0), LAMBDA b : Bin(<<>>, b))
          [] in[p] \in 199 .. 201 -> Then(Sized(in, p, k, 1), LAMBDA b : Bin(type(p + 1 + k), b))
          [] in[p] \in 212 .. 216 -> Then(get_bytes(in, p + 2, FixedSizes[in[p] - 211]),
                                          LAMBDA b : Bin(type(p + 1), b))

RECURSIVE parse_msgpack_internal(_, _), MsgPackItems(_, _, _, _, _)

MsgPackItems(in, p, n, keyed, ms) ==
    IF n = 0 THEN Got(p, ms)
    ELSE LET k == IF keyed THEN get_msgpack_string(in, p) ELSE Got(p, <<>>)
             v == IF Failed(k) THEN Bad ELSE parse_msgpack_internal(in, k.next)
         IN  IF Failed(v) THEN Got(0, <<>>)
             ELSE MsgPackItems(in, v.next, n - 1, keyed, Append(ms, Member(k.val, v.val)))

get_msgpack_array(in, p, n) ==
    Then(MsgPackItems(in, p, n, FALSE, <<>>),
         LAMBDA ms : [Value("array", <<>>) EXCEPT !.kids = ms])

get_msgpack_object(in, p, n) == Then(MsgPackItems(in, p, n, TRUE, <<>>), Object)

\* An array or an object behind a length of k bytes.
MsgPackSized(in, p, k, keyed) ==
    LET r == get_unsigned(in, p + 1, k)
    IN  IF Failed(r) THEN Bad
        ELSE IF keyed THEN get_msgpack_object(in, r.next, ToLength(r.val))
        ELSE get_msgpack_array(in, r.next, ToLength(r.val))

MsgPackNumber(in, p) ==
    CASE At(in, p) \in 204 .. 207 -> Then(get_unsigned(in, p + 1, 2 ^ (in[p] - 204)), Unsigned)
      [] At(in, p) \in 208 .. 211 -> Then(get_number(in, p + 1, 2 ^ (in[p] - 208)),
                                          LAMBDA b : Integer(SignExtend(b)))
      [] At(in, p) = 202 -> Then(get_number(in, p + 1, 4), LAMBDA b : Float(FromSingle(b)))
      [] At(in, p) = 203 -> Then(get_number(in, p + 1, 8), LAMBDA b : Float(FromDouble(b)))

\* The bytes that hold a number or a length themselves.
MsgPackFixed(in, p) ==
    CASE in[p] < 128 -> Got(p + 1, Unsigned(Widen(<<in[p]>>)))
      [] in[p] \in 128 .. 143 -> get_msgpack_object(in, p + 1, in[p] % 16)
      [] in[p] \in 144 .. 159 -> get_msgpack_array(in, p + 1, in[p] % 16)
      [] in[p] \in 160 .. 191 -> Then(get_msgpack_string(in, p), Text)

parse_msgpack_internal(in, p) ==
    CASE At(in, p) \in 0 .. 191 -> MsgPackFixed(in, p)
      [] At(in, p) = 192 -> Got(p + 1, Null)
      [] At(in, p) \in {194, 195} -> Got(p + 1, Bool(in[p] = 195))
      [] At(in, p) \in 196 .. 201 \cup 212 .. 216 -> get_msgpack_binary(in, p)
      [] At(in, p) \in 202 .. 211 -> MsgPackNumber(in, p)
      [] At(in, p) \in 217 .. 219 -> Then(get_msgpack_string(in, p), Text)
      [] At(in, p) \in 220 .. 221 -> MsgPackSized(in, p, 2 ^ (in[p] - 219), FALSE)
      [] At(in, p) \in 222 .. 223 -> MsgPackSized(in, p, 2 ^ (in[p] - 221), TRUE)
      [] At(in, p) \in 224 .. 255 -> Got(p + 1, Integer(SignExtend(<<in[p]>>)))
      [] OTHER -> Bad

from_msgpack(in) == Whole(in, parse_msgpack_internal(in, 1))

-----------------------------------------------------------------------------
(* BSON: the sizes computed before, write_bson and parse_bson_internal.    *)

\* Numbers stand with the lowest byte first.
Little(b, k) == Reverse(Low(b, k))

FitsInt32(b) == FitsSigned(b, 4)

\* std::to_string of an index below 1000.
IndexName(i) ==
    LET digit(n) == 48 + (n % 10)
    IN  (IF i >= 100 THEN <<digit(i \div 100)>> ELSE <<>>) \o
        (IF i >= 10 THEN <<digit(i \div 10)>> ELSE <<>>) \o <<digit(i)>>

\* The members of an array are named by their indices.
Named(j) ==
    IF j.kind = "object" THEN j.kids
    ELSE [i \in DOMAIN j.kids |-> Member(IndexName(i - 1), j.kids[i].val)]

\* What can be written: no zero in a key, no number above the signed 64 bits.
RECURSIVE Writable(_)
Writable(j) ==
    /\ j.kind = "unsigned" => ~Negative(j.bytes)
    /\ \A i \in DOMAIN j.kids : 0 \notin Range(j.kids[i].key) /\ Writable(j.kids[i].val)

calc_bson_entry_header_size(name) == 1 + Len(name) + 1
calc_bson_string_size(s) == 4 + Len(s) + 1

\* Slip: the byte of the subtype is forgotten.
calc_bson_binary_sizeBare(b) == 4 + Len(b)

calc_bson_binary_size(b) == 4 + Len(b) + 1
calc_bson_integer_size(b) == IF FitsInt32(b) THEN 4 ELSE 8

RECURSIVE calc_bson_object_size(_)

calc_bson_element_size(name, j) ==
    calc_bson_entry_header_size(name) +
    (CASE j.kind = "boolean" -> 1
       [] j.kind = "float" -> 8
       [] j.kind = "string" -> calc_bson_string_size(j.bytes)
       [] j.kind = "binary" -> calc_bson_binary_size(j.bytes)
       [] j.kind \in {"integer", "unsigned"} -> calc_bson_integer_size(j.bytes)
       [] j.kind \in {"array", "object"} -> calc_bson_object_size(j)
       [] OTHER -> 0)

\* Of an object, and in calc_bson_array_size of an array.
calc_bson_object_size(j) ==
    LET ms == Named(j)
    IN  4 + FoldLeft(LAMBDA n, m : n + calc_bson_element_size(m.key, m.val), 0, ms) + 1

write_bson_entry_header(name, type) == <<type>> \o name \o <<0>>

write_bson_integer(name, b) ==
    IF FitsInt32(b) THEN write_bson_entry_header(name, 16) \o Little(b, 4)
    ELSE write_bson_entry_header(name, 18) \o Little(b, 8)

write_bson_string(name, s) ==
    write_bson_entry_header(name, 2) \o Little(Big(Len(s) + 1), 4) \o s \o <<0>>

write_bson_binary(name, j) ==
    write_bson_entry_header(name, 5) \o Little(Big(Len(j.bytes)), 4)
    \o (IF j.tag = <<>> THEN <<0>> ELSE Low(j.tag, 1)) \o j.bytes

RECURSIVE write_bson_object(_)

write_bson_element(name, j) ==
    CASE j.kind = "object" -> write_bson_entry_header(name, 3) \o write_bson_object(j)
      [] j.kind = "array" -> write_bson_entry_header(name, 4) \o write_bson_object(j)
      [] j.kind = "binary" -> write_bson_binary(name, j)
      [] j.kind = "boolean" -> write_bson_entry_header(name, 8) \o j.bytes
      [] j.kind = "float" -> write_bson_entry_header(name, 1) \o Reverse(ToDouble(j.bytes))
      [] j.kind \in {"integer", "unsigned"} -> write_bson_integer(name, j.bytes)
      [] j.kind = "string" -> write_bson_string(name, j.bytes)
      [] j.kind = "null" -> write_bson_entry_header(name, 10)

\* Also an array, in write_bson_array.
write_bson_object(j) ==
    Little(Big(calc_bson_object_size(j)), 4)
    \o FlattenSeq([i \in DOMAIN j.kids |-> LET m == Named(j)[i]
                                           IN  write_bson_element(m.key, m.val)]) \o <<0>>

-----------------------------------------------------------------------------

\* A 32-bit length; those that are negative come to nothing.
get_bson_length(in, p) ==
    LET r == get_number(in, p, 4)
    IN  IF Failed(r) THEN Got(0, 0) ELSE Got(r.next, ToLength(Widen(Reverse(r.val))))

RECURSIVE get_bson_cstr(_, _, _)
get_bson_cstr(in, p, result) ==
    IF p > Len(in) THEN Got(0, <<>>)
    ELSE IF in[p] = 0 THEN Got(p + 1, result)
    ELSE get_bson_cstr(in, p + 1, Append(result, in[p]))

\* The last of the bytes is there, whatever it is.
get_bson_string(in, p, len) ==
    IF len < 1 \/ len = Huge \/ p + len - 1 > Len(in) THEN Bad
    ELSE Got(p + len, Text(SubSeq(in, p, p + len - 2)))

get_bson_binary(in, p, len) ==
    Then(get_bytes(in, p + 1, len), LAMBDA b : Bin(Widen(<<in[p]>>), b))

RECURSIVE parse_bson_internal(_, _, _)

parse_bson_element_internal(in, p, type) ==
    LET little(k, F(_)) == Then(get_number(in, p, k), LAMBDA b : F(Reverse(b)))
        sized(Get(_, _, _)) == LET n == get_bson_length(in, p)
                               IN  IF Failed(n) THEN Bad ELSE Get(in, n.next, n.val)
    IN  CASE type = 1 -> little(8, LAMBDA b : Float(FromDouble(b)))
          [] type = 2 -> sized(get_bson_string)
          [] type = 3 -> parse_bson_internal(in, p, "object")
          [] type = 4 -> parse_bson_internal(in, p, "array")
          [] type = 5 -> sized(get_bson_binary)
          [] type = 8 -> Then(get_number(in, p, 1), LAMBDA b : Bool(b # <<0>>))
          [] type = 10 -> Got(p, Null)
          [] type = 16 -> little(4, LAMBDA b : Integer(SignExtend(b)))
          [] type = 18 -> little(8, Integer)
          [] OTHER -> Bad

RECURSIVE parse_bson_element_list(_, _, _)

\* Slip: the end of the input is taken for the end of the list.
parse_bson_element_listEnd(in, p, ms) ==
    IF p > Len(in) THEN (IF p = Len(in) + 1 THEN Got(p, ms) ELSE Got(0, <<>>))
    ELSE IF in[p] = 0 THEN Got(p + 1, ms)
    ELSE LET k == get_bson_cstr(in, p + 1, <<>>)
             v == IF Failed(k) THEN Bad ELSE parse_bson_element_internal(in, k.next, in[p])
         IN  IF Failed(v) THEN Got(0, <<>>)
             ELSE parse_bson_element_list(in, v.next, Append(ms, Member(k.val, v.val)))

parse_bson_element_list(in, p, ms) ==
    IF p > Len(in) THEN Got(0, <<>>)
    ELSE IF in[p] = 0 THEN Got(p + 1, ms)
    ELSE LET k == get_bson_cstr(in, p + 1, <<>>)
             v == IF Failed(k) THEN Bad ELSE parse_bson_element_internal(in, k.next, in[p])
         IN  IF Failed(v) THEN Got(0, <<>>)
             ELSE parse_bson_element_list(in, v.next, Append(ms, Member(k.val, v.val)))

\* The size is read and not looked at again; the names in an array neither.
parse_bson_internal(in, p, kind) ==
    Then(parse_bson_element_list(in, p + 4, <<>>),
         LAMBDA ms : IF kind = "object" THEN Object(ms)
                     ELSE Array([i \in DOMAIN ms |-> ms[i].val]))

from_bson(in) == Whole(in, parse_bson_internal(in, 1, "object"))

-----------------------------------------------------------------------------
(* Values to write and inputs to read.                                     *)

\* 2^n - 1 and 2^n, as eight bytes.
Ones(n) == [i \in 1 .. 8 |-> LET k == n - 8 * (8 - i)
                             IN  IF k >= 8 THEN 255 ELSE IF k <= 0 THEN 0 ELSE 2 ^ k - 1]
Power(n) == [i \in 1 .. 8 |-> IF 8 - (n \div 8) = i THEN 2 ^ (n % 8) ELSE 0]

Edges == {Ones(64)} \cup {Big(n) : n \in {0, 23, 24}}
         \cup UNION {{Ones(n), Power(n)} : n \in Exponents}
Numbers == {Value("unsigned", b) : b \in Edges}
           \cup {Value("integer", b) : b \in {b \in Edges : ~Negative(b)}}
           \cup {Value("integer", b) :
                   b \in {b \in {MinusOneMinus(c) : c \in Edges} : Negative(b)}}

\* 0, 1, -2.5, the largest float, 1e300 and 0.1 beside what is none of them.
Floats == {Float(b) : b \in {<<0, 0, 0, 0>>, <<63, 128, 0, 0>>, <<192, 32, 0, 0>>,
                             <<127, 127, 255, 255>>, Infinite, NotANumber,
                             Signed(TRUE, Infinite),
                             <<126, 55, 228, 60, 136, 0, 117, 156>>,
                             <<63, 185, 153, 153, 153, 153, 153, 154>>}}

Strings == {Text(Fill(120, n)) : n \in Lengths}
Tags == {<<>>} \cup {Big(n) : n \in {0, 1, 24, 127, 128, 255}}
Binaries == {Bin(t, Fill(255, n)) : t \in Tags, n \in Lengths \cap 0 .. 300}
Arrays == {Array([i \in 1 .. n |-> Null]) : n \in Sizes}
Objects == {Object([i \in 1 .. n |-> Member(<<97, i>>, Null)]) : n \in Sizes \cap 0 .. 100}
Scalars == {Null, Bool(TRUE), Bool(FALSE)} \cup Numbers \cup Floats

CborPieces == {<<b>> : b \in {0, 24, 32, 56, 65, 97, 95, 127, 129, 159, 161, 191, 198, 216,
                              246, 255}} \cup {<<249, 60, 0>>, <<249, 0, 1>>}
MsgPackPieces == {<<b>> : b \in {0, 127, 129, 161, 192, 193, 196, 199, 204, 208, 212,
                                 217, 224}} \cup {<<220, 0>>, <<222, 0>>, <<205, 0>>, <<209, 255>>}
BsonPieces == {<<0>>, <<1, 0, 0, 0>>, <<2, 97, 0>>, <<3, 97, 0>>, <<4, 97, 0>>, <<5, 97, 0>>,
               <<8, 98, 0>>, <<10, 97, 0>>, <<16, 48, 0>>}

PiecesOf == [cbor |-> CborPieces, msgpack |-> MsgPackPieces, bson |-> BsonPieces]

\* The size a document of BSON begins with is read and not used.
Beginning == [cbor |-> <<>>, msgpack |-> <<>>, bson |-> <<1, 0, 0, 0>>]

Init == /\ depth = 0 /\ pieces = 0
        /\ \/ /\ format = "none" /\ input = <<>>
              /\ doc \in Scalars \cup Strings \cup Binaries \cup Arrays \cup Objects
           \/ format \in DOMAIN PiecesOf /\ doc = Null /\ input = Beginning[format]

\* Long values are not wrapped.
Wrap == /\ format = "none" /\ depth < Depth /\ Len(doc.bytes) <= 300 /\ depth' = depth + 1
        /\ \E other \in {Null, Value("integer", Fill(255, 8)), Text(<<0, 200>>)} :
               doc' \in {Array(<<doc, other>>), Array(<<other, doc>>),
                         Object(<<Member(<<98>>, doc), Member(<<97>>, other)>>),
                         Object(<<Member(<<>>, other), Member(<<98>>, doc)>>)}
        /\ UNCHANGED <<format, input, pieces>>

Grow == /\ format # "none" /\ pieces < MaxPieces[format] /\ pieces' = pieces + 1
        /\ \E piece \in PiecesOf[format] : input' = input \o piece
        /\ UNCHANGED <<format, doc, depth>>

Next == Wrap \/ Grow

-----------------------------------------------------------------------------

\* What compares equal to the value: a sign that is not there is not seen.
RECURSIVE Normal(_)
Normal(j) == [j EXCEPT !.kind = IF @ = "integer" THEN Integer(j.bytes).kind ELSE @,
                       !.kids = [i \in DOMAIN @ |-> Member(@[i].key, Normal(@[i].val))]]

\* Binary data without its subtype, or with the subtype 0.
RECURSIVE Subtyped(_)
Subtyped(j) ==
    [j EXCEPT !.tag = IF j.kind = "binary" /\ @ = <<>> THEN Big(0) ELSE @,
              !.kids = [i \in DOMAIN @ |-> Member(@[i].key, Subtyped(@[i].val))]]

RECURSIVE Untagged(_)
Untagged(j) == [j EXCEPT !.tag = <<>>,
                         !.kids = [i \in DOMAIN @ |-> Member(@[i].key, Untagged(@[i].val))]]

\* What write_cbor (15129) writes parse_cbor_internal (9565) reads as the same
\* value when subtypes are stored, and without them when they are passed over.
CborReturns == format = "none" =>
    /\ from_cbor(write_cbor(doc), "store").val = Normal(doc)
    /\ from_cbor(write_cbor(doc), "ignore").val = Untagged(Normal(doc))

\* Text, data and arrays in chunks of no announced length (10123, 10221, 10266) are
\* read as the same in one piece.
ChunksAreTheSame ==
    LET half == Len(doc.bytes) \div 2
        chunks(major) == <<32 * major + 31>> \o cbor_sized(major, SubSeq(doc.bytes, 1, half))
            \o cbor_sized(major, SubSeq(doc.bytes, half + 1, Len(doc.bytes))) \o <<255>>
        text == IF doc.kind = "string" THEN chunks(3)
                ELSE IF doc.kind = "binary" /\ doc.tag = <<>> THEN chunks(2)
                ELSE IF doc.kind = "array"
                THEN <<159>> \o FlattenSeq([i \in DOMAIN doc.kids |-> write_cbor(doc.kids[i].val)])
                     \o <<255>>
                ELSE write_cbor(doc)
    IN  format = "none" => from_cbor(text, "store").val = Normal(doc)

\* The same of write_msgpack (15453) and parse_msgpack_internal (10341).
MsgPackReturns == format = "none" => from_msgpack(write_msgpack(doc)).val = Normal(doc)

Record == Object(<<Member(<<100>>, doc), Member(<<101>>, Null)>>)

\* The same of write_bson (15100) and parse_bson_internal (9313) for a document that
\* can be written; data without a subtype gets the subtype 0.
BsonReturns ==
    format = "none" /\ Writable(doc) =>
        from_bson(write_bson_object(Record)).val = Subtyped(Normal(Record))

\* The size that is computed before a BSON document is written (16299) is the number
\* of bytes that are then written (16314), for every document inside too.
BsonSizeIsLength ==
    format = "none" /\ Writable(doc) => calc_bson_object_size(Record) = Len(write_bson_object(Record))

\* No beginning of what is written is read as anything, in any of the formats: the end
\* of the input is noticed wherever it comes (12033). Long values are left out.
CutIsRefused ==
    LET cuts(text) == {SubSeq(text, 1, n) : n \in 0 .. Len(text) - 1}
    IN  format = "none" /\ Len(write_cbor(doc)) <= 60 =>
        /\ \A text \in cuts(write_cbor(doc)) : Failed(from_cbor(text, "store"))
        /\ \A text \in cuts(write_msgpack(doc)) : Failed(from_msgpack(text))
        /\ Writable(doc) => \A text \in cuts(write_bson_object(Record)) : Failed(from_bson(text))

Accepted(r) == ~Failed(r)
Beginnings == {SubSeq(input, 1, n) : n \in 0 .. Len(input) - 1}

\* If an input is read as a value, none of its beginnings is: no reader stops where
\* the value might go on (12033).
CborOneReading ==
    format = "cbor" /\ Accepted(from_cbor(input, "store")) =>
        \A p \in Beginnings : ~Accepted(from_cbor(p, "store"))
MsgPackOneReading ==
    format = "msgpack" /\ Accepted(from_msgpack(input)) =>
        \A p \in Beginnings : ~Accepted(from_msgpack(p))
BsonOneReading ==
    format = "bson" /\ Accepted(from_bson(input)) =>
        \A p \in Beginnings : ~Accepted(from_bson(p))

\* What was read can be written, and is then read as the same value: whatever way it
\* was written before.
CborStable ==
    LET r == from_cbor(input, "store")
    IN  format = "cbor" /\ Accepted(r) => from_cbor(write_cbor(r.val), "store").val = r.val
MsgPackStable ==
    LET r == from_msgpack(input)
    IN  format = "msgpack" /\ Accepted(r) => from_msgpack(write_msgpack(r.val)).val = r.val
BsonStable ==
    LET r == from_bson(input)
    IN  format = "bson" /\ Accepted(r) /\ Writable(r.val) => from_bson(write_bson_object(r.val)).val = r.val

\* Who stores subtypes reads nothing else than who passes over tags (9876-9959), and
\* without tags it makes no difference.
TagHandlersAgree ==
    LET store == from_cbor(input, "store")
        ignore == from_cbor(input, "ignore")
        error == from_cbor(input, "error")
    IN  format = "cbor" =>
        /\ Accepted(store) => ignore.val = Untagged(store.val)
        /\ Accepted(error) => store = error

\* What is written is read as the same value, whole or in chunks, with or without tags, and
\* the size that BSON announces is right; an input is read to where its value ends or not
\* at all, and what is read of it can be written again (9313-10500, 15100-16400).
BytesReturn == /\ CborReturns /\ MsgPackReturns /\ BsonReturns
               /\ ChunksAreTheSame /\ BsonSizeIsLength /\ CutIsRefused
               /\ CborOneReading /\ MsgPackOneReading /\ BsonOneReading
               /\ CborStable /\ MsgPackStable /\ BsonStable /\ TagHandlersAgree
=============================================================================
