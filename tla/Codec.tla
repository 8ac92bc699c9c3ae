-------------------------------- MODULE Codec --------------------------------
(***************************************************************************)
(* The canonical CBOR codec and the JSON interchange form of               *)
(* crates/evermesh-kernel/src/codec.rs.                                    *)
(*                                                                         *)
(* Bytes are 0..255 and encodings are sequences of bytes, so a head of any *)
(* width is exact: an argument (u64) is its big-endian digits in base 256  *)
(* without leading zeros, the empty sequence being zero.  A JSON document  *)
(* is its tree of strings, numbers, arrays and objects; the lexer that     *)
(* reads and escapes characters is left out.                               *)
(***************************************************************************)
EXTENDS Integers, Sequences, SequencesExt

CONSTANTS
  Utf8(_),    \* core::str::from_utf8 succeeds
  MaxDepth    \* MAX_DEPTH

ASSUME CodecAssumption == MaxDepth \in Nat

Uint(d)  == [type |-> "uint", is |-> d]
Nint(d)  == [type |-> "nint", is |-> d]     \* the integer -1 - d
Bytes(b) == [type |-> "bytes", is |-> b]
Text(b)  == [type |-> "text", is |-> b]
Array(s) == [type |-> "array", is |-> s]
Map(s)   == [type |-> "map", is |-> s]      \* entries [k, v] in memory order
Bool(b)  == [type |-> "bool", is |-> IF b THEN <<1>> ELSE <<0>>]
Null     == [type |-> "null"]

Entry(k, v) == [k |-> k, v |-> v]

\* Digits of a small number and back; longer arguments are no lengths of anything.
Digits(n) ==
  IF n = 0 THEN <<>> ELSE IF n < 256 THEN <<n>> ELSE <<n \div 256, n % 256>>
Huge == 1000000
Number(d) ==
  IF Len(d) > 2 THEN Huge ELSE FoldLeft(LAMBDA a, x : 256 * a + x, 0, d)

-----------------------------------------------------------------------------
(* Encoding *)

Widths == <<1, 2, 4, 8>>
\* The bytes an argument takes after its head, the additional info that says so.
Width(d) == CHOOSE i \in 1..4 : Widths[i] >= Len(d) /\ \A j \in 1..i - 1 : Widths[j] < Len(d)
Padded(d, w) == [i \in 1..w - Len(d) |-> 0] \o d

\* write_head
Head5(major, d) ==
  IF Number(d) < 24 THEN <<32 * major + Number(d)>>
  ELSE LET i == Width(d) IN <<32 * major + 23 + i>> \o Padded(d, Widths[i])

BytesLess(a, b) ==
  \E i \in DOMAIN b :
    /\ \A j \in 1..i - 1 : j \in DOMAIN a /\ a[j] = b[j]
    /\ i \in DOMAIN a => a[i] < b[i]

RECURSIVE Encoding(_)

\* encode_map: pairs sorted by their encoded keys.
EncodedPairs(m) ==
  SortSeq([i \in DOMAIN m |-> [k |-> Encoding(m[i].k), v |-> Encoding(m[i].v)]],
          LAMBDA a, b : BytesLess(a.k, b.k))

\* encode_value; encode_canonical is this of an encodable value.
Encoding(v) ==
  CASE v.type = "uint"  -> Head5(0, v.is)
    [] v.type = "nint"  -> Head5(1, v.is)
    [] v.type = "bytes" -> Head5(2, Digits(Len(v.is))) \o v.is
    [] v.type = "text"  -> Head5(3, Digits(Len(v.is))) \o v.is
    [] v.type = "array" -> Head5(4, Digits(Len(v.is)))
                             \o FlattenSeq([i \in DOMAIN v.is |-> Encoding(v.is[i])])
    [] v.type = "map"   -> LET p == EncodedPairs(v.is) IN
                             Head5(5, Digits(Len(p)))
                               \o FlattenSeq([i \in DOMAIN p |-> p[i].k \o p[i].v])
    [] v.type = "bool"  -> <<244 + v.is[1]>>
    [] v.type = "null"  -> <<246>>

RECURSIVE Depth(_)

\* How deep the deepest value inside is.
Depth(v) ==
  LET Below(S) == IF S = {} THEN 0 ELSE 1 + Max(S) IN
  CASE v.type = "array" -> Below({Depth(v.is[i]) : i \in DOMAIN v.is})
    [] v.type = "map"   -> Below({Depth(v.is[i].k) : i \in DOMAIN v.is}
                                   \cup {Depth(v.is[i].v) : i \in DOMAIN v.is})
    [] OTHER -> 0

RECURSIVE Encodable(_)

\* No map in the value, at any depth, has two keys with one encoding.
Encodable(v) ==
  CASE v.type = "array" -> \A i \in DOMAIN v.is : Encodable(v.is[i])
    [] v.type = "map"   ->
         /\ \A i \in DOMAIN v.is : Encodable(v.is[i].k) /\ Encodable(v.is[i].v)
         /\ \A i, j \in DOMAIN v.is : i # j => Encoding(v.is[i].k) # Encoding(v.is[j].k)
    [] OTHER -> TRUE

RECURSIVE IntoCanonical(_)

\* into_canonical: the order of the encoded keys, in memory too.
IntoCanonical(v) ==
  CASE v.type = "array" -> Array([i \in DOMAIN v.is |-> IntoCanonical(v.is[i])])
    [] v.type = "map"   ->
         Map(SortSeq([i \in DOMAIN v.is |-> Entry(IntoCanonical(v.is[i].k), IntoCanonical(v.is[i].v))],
                     LAMBDA a, b : BytesLess(Encoding(a.k), Encoding(b.k))))
    [] OTHER -> v

-----------------------------------------------------------------------------
(* Decoding: a result is the value and the position after it, or Fail *)

Fail == [ok |-> FALSE]
Read(v, p) == [ok |-> TRUE, v |-> v, next |-> p]

\* Seeded defect: longer heads than needed are read as well.
AnyWidth(d, i) == TRUE

Shortest(d, i) == IF i = 1 THEN Number(d) >= 24 ELSE Len(d) > Widths[i - 1]

\* What is read goes on to F, a failure does not.
Then(r, F(_, _)) == IF r.ok THEN F(r.v, r.next) ELSE Fail

\* The bytes from the first that is not zero.
StripZeros(raw) == SubSeq(raw, CHOOSE i \in 1..Len(raw) + 1 :
  (\A j \in 1..i - 1 : raw[j] = 0) /\ (i \in DOMAIN raw => raw[i] # 0), Len(raw))

\* read_arg
LongArg(d, i, p) == IF Shortest(d, i) THEN Read(d, p + Widths[i]) ELSE Fail
ReadArg(b, p, low) ==
  IF low < 24 THEN Read(Digits(low), p)
  ELSE IF low > 27 THEN Fail                       \* reserved, indefinite
  ELSE IF p + Widths[low - 23] - 1 > Len(b) THEN Fail
  ELSE LongArg(StripZeros(SubSeq(b, p, p + Widths[low - 23] - 1)), low - 23, p)

\* read_length: no more than what remains, so nothing is allocated for a lie.
ReadLength(b, p, low) ==
  Then(ReadArg(b, p, low),
       LAMBDA d, q : IF Number(d) <= Len(b) - q + 1 THEN Read(Number(d), q) ELSE Fail)

ReadString(b, p, low) ==
  Then(ReadLength(b, p, low), LAMBDA n, q : Read(SubSeq(b, q, q + n - 1), q + n))

RECURSIVE ReadValue(_, _, _), ReadItems(_, _, _, _), ReadEntries(_, _, _, _, _)

ReadItems(b, p, n, depth) ==
  IF n = 0 THEN Read(<<>>, p)
  ELSE Then(ReadValue(b, p, depth), LAMBDA x, q :
         Then(ReadItems(b, q, n - 1, depth), LAMBDA rest, e : Read(<<x>> \o rest, e)))

Ascending(prev, key) == BytesLess(prev, key)

\* Keys must ascend strictly, which also rules out duplicates; every key is
\* longer than the empty sequence the loop starts with.
ReadEntries(b, p, n, depth, prev) ==
  IF n = 0 THEN Read(<<>>, p)
  ELSE Then(ReadValue(b, p, depth), LAMBDA k, q :
         IF ~Ascending(prev, SubSeq(b, p, q - 1)) THEN Fail
         ELSE Then(ReadValue(b, q, depth), LAMBDA v, z :
                Then(ReadEntries(b, z, n - 1, depth, SubSeq(b, p, q - 1)), LAMBDA rest, e :
                  Read(<<Entry(k, v)>> \o rest, e))))

Wrap(Make(_), r) == Then(r, LAMBDA v, q : Read(Make(v), q))

\* parse_value
ReadValue(b, p, depth) ==
  IF depth > MaxDepth \/ p > Len(b) THEN Fail
  ELSE LET major == b[p] \div 32  low == b[p] % 32  q == p + 1 IN
    CASE major = 0 -> Wrap(Uint, ReadArg(b, q, low))
      [] major = 1 -> Wrap(Nint, ReadArg(b, q, low))
      [] major = 2 -> Wrap(Bytes, ReadString(b, q, low))
      [] major = 3 -> Then(ReadString(b, q, low), LAMBDA s, e :
                             IF Utf8(s) THEN Read(Text(s), e) ELSE Fail)
      [] major = 4 -> Then(ReadLength(b, q, low), LAMBDA n, e :
                             Wrap(Array, ReadItems(b, e, n, depth + 1)))
      [] major = 5 -> Then(ReadLength(b, q, low), LAMBDA n, e :
                             Wrap(Map, ReadEntries(b, e, n, depth + 1, <<>>)))
      [] major = 6 -> Fail                                         \* tags
      [] major = 7 -> CASE low \in {20, 21} -> Read(Bool(low = 21), q)
                        [] low = 22 -> Read(Null, q)
                        [] OTHER -> Fail                           \* floats, simple, break

\* decode_canonical: nothing may follow the value.
Decode(b) ==
  Then(ReadValue(b, 1, 0), LAMBDA v, q : IF q = Len(b) + 1 THEN Read(v, q) ELSE Fail)

-----------------------------------------------------------------------------
(* JSON interchange, as trees; a string is the sequence of its characters *)

JString(s) == [json |-> "string", is |-> s]
JNumber(neg, d) == [json |-> "number", neg |-> neg, is |-> d]   \* d, or -1 - d
JArray(s)  == [json |-> "array", is |-> s]
JObject(s) == [json |-> "object", is |-> s]                     \* entries [k, v]
JOther(v)  == [json |-> "literal", is |-> v]                    \* true, false, null

HexPrefix == <<104, 101, 120, 58>>     \* "hex:"
TxtPrefix == <<116, 120, 116, 58>>     \* "txt:"
HexDigit(n) == IF n < 10 THEN 48 + n ELSE 87 + n
HexValue(c) == IF c \in 48..57 THEN c - 48 ELSE IF c \in 97..102 THEN c - 87 ELSE 16
HexLower(b) == FlattenSeq([i \in DOMAIN b |-> <<HexDigit(b[i] \div 16), HexDigit(b[i] % 16)>>])

\* decode_hex: pairs of lower-case digits.
IsHex(s) == Len(s) % 2 = 0 /\ \A i \in DOMAIN s : HexValue(s[i]) < 16
FromHex(s) == [i \in 1..Len(s) \div 2 |-> 16 * HexValue(s[2 * i - 1]) + HexValue(s[2 * i])]

Decimal(n) == IF n < 10 THEN <<48 + n>> ELSE <<48 + (n \div 10), 48 + (n % 10)>>
Minus(s) == <<45>> \o s
FromDecimal(s) == FoldLeft(LAMBDA a, x : 10 * a + x - 48, 0, s)

\* try_parse_int_key: no leading zero and no -0; bound: keys below 100.
IsDecimal(s) == Len(s) \in 1..2 /\ (\A i \in DOMAIN s : s[i] \in 48..57) /\ (Len(s) > 1 => s[1] # 48)
IsNegative(s) == Len(s) > 1 /\ s[1] = 45 /\ IsDecimal(Tail(s)) /\ FromDecimal(Tail(s)) > 0
IntKey(s) ==
  IF IsNegative(s) THEN Nint(Digits(FromDecimal(Tail(s)) - 1)) ELSE Uint(Digits(FromDecimal(s)))

Prefixed(s) == IsPrefix(HexPrefix, s) \/ IsPrefix(TxtPrefix, s)
Lookalike(s) == IsDecimal(s) \/ IsNegative(s)

\* text_json_string, and the text case of key_json_string
TextString(s) == IF Prefixed(s) THEN TxtPrefix \o s ELSE s
TextKey(s) == IF Prefixed(s) \/ Lookalike(s) THEN TxtPrefix \o s ELSE s

\* key_json_string for the keys the protocol uses
KeyString(k) ==
  CASE k.type = "uint"  -> Decimal(Number(k.is))
    [] k.type = "nint"  -> Minus(Decimal(Number(k.is) + 1))
    [] k.type = "bytes" -> HexPrefix \o HexLower(k.is)
    [] k.type = "text"  -> TextKey(k.is)

RECURSIVE ToJson(_)

ToJson(v) ==
  CASE v.type \in {"uint", "nint"} -> JNumber(v.type = "nint", v.is)
    [] v.type = "bytes" -> JString(HexPrefix \o HexLower(v.is))
    [] v.type = "text"  -> JString(TextString(v.is))
    [] v.type = "array" -> JArray([i \in DOMAIN v.is |-> ToJson(v.is[i])])
    [] v.type = "map"   -> JObject([i \in DOMAIN v.is |-> Entry(KeyString(v.is[i].k), ToJson(v.is[i].v))])
    [] OTHER -> JOther(v)

Got(v) == [ok |-> TRUE, v |-> v]

\* string_value_from_json, key_value_from_json
StringValue(s) ==
  IF IsPrefix(HexPrefix, s)
    THEN LET h == SubSeq(s, 5, Len(s)) IN IF IsHex(h) THEN Got(Bytes(FromHex(h))) ELSE Fail
  ELSE IF IsPrefix(TxtPrefix, s) THEN Got(Text(SubSeq(s, 5, Len(s))))
  ELSE Got(Text(s))
KeyValue(s) == IF Lookalike(s) THEN Got(IntKey(s)) ELSE StringValue(s)

\* parse_number: negative values must fit i64.
FitsI64(d) == Len(d) < 8 \/ d[1] < 128

RECURSIVE FromJson(_, _)

\* The parser's parse_value, parse_array and parse_object.
FromJson(j, depth) ==
  IF depth > MaxDepth THEN Fail
  ELSE CASE j.json = "string" -> StringValue(j.is)
         [] j.json = "number" ->
              IF ~j.neg THEN Got(Uint(j.is)) ELSE IF FitsI64(j.is) THEN Got(Nint(j.is)) ELSE Fail
         [] j.json = "literal" -> Got(j.is)
         [] j.json = "array" ->
              LET items == [i \in DOMAIN j.is |-> FromJson(j.is[i], depth + 1)] IN
              IF \A i \in DOMAIN items : items[i].ok
                THEN Got(Array([i \in DOMAIN items |-> items[i].v])) ELSE Fail
         [] j.json = "object" ->
              LET keys == [i \in DOMAIN j.is |-> KeyValue(j.is[i].k)]
                  vals == [i \in DOMAIN j.is |-> FromJson(j.is[i].v, depth + 1)]
              IN IF /\ \A i \in DOMAIN keys : keys[i].ok /\ vals[i].ok
                    /\ \A i, k \in DOMAIN keys : i # k => keys[i] # keys[k]
                   THEN Got(Map([i \in DOMAIN keys |-> Entry(keys[i].v, vals[i].v)]))
                   ELSE Fail

=============================================================================
