------------------------------ MODULE FrameCodec ------------------------------
(***************************************************************************)
(* The frames of the relay's /sync endpoint and the CBOR beneath them,     *)
(* crates/evermesh-relay/src/frames.rs and the filter's two conversions in *)
(* filter.rs.  The relay has its own codec, written apart from the         *)
(* kernel's: it knows no negative integers and no limit on nesting.        *)
(*                                                                         *)
(* Values, bytes and results are those of Codec; a text tag or key is its  *)
(* own name, turned to bytes by Name.                                      *)
(***************************************************************************)
EXTENDS Codec

CONSTANTS
  IdSize,       \* 32
  MaxSubId,     \* MAX_SUB_ID_BYTES
  Name(_)       \* the UTF-8 bytes of a tag or a key

ASSUME FrameAssumption == {IdSize, MaxSubId} \subseteq Nat

Tag(n) == Text(Name(n))

-----------------------------------------------------------------------------
(* Values *)

\* encode_head, by the value's magnitude in bytes
EncodeHead(major, d) ==
  CASE Len(d) = 0 -> <<32 * major>>
    [] Len(d) = 1 -> IF d[1] <= 23 THEN <<32 * major + d[1]>> ELSE <<32 * major + 24>> \o d
    [] Len(d) = 2 -> <<32 * major + 25>> \o d
    [] Len(d) \in 3..4 -> <<32 * major + 26>> \o Padded(d, 4)
    [] OTHER -> <<32 * major + 27>> \o Padded(d, 8)

RECURSIVE EncodeValue(_)

\* encode_value, for the values frames are made of
EncodeValue(v) ==
  CASE v.type = "uint"  -> EncodeHead(0, v.is)
    [] v.type = "bytes" -> EncodeHead(2, Digits(Len(v.is))) \o v.is
    [] v.type = "text"  -> EncodeHead(3, Digits(Len(v.is))) \o v.is
    [] v.type = "bool"  -> <<244 + v.is[1]>>
    [] v.type = "null"  -> <<246>>
    [] v.type = "array" -> EncodeHead(4, Digits(Len(v.is)))
                             \o FlattenSeq([i \in DOMAIN v.is |-> EncodeValue(v.is[i])])
    [] v.type = "map"   ->
         LET pairs == SortSeq([i \in DOMAIN v.is |-> Entry(EncodeValue(v.is[i].k), EncodeValue(v.is[i].v))],
                              LAMBDA a, b : BytesLess(a.k, b.k))
         IN EncodeHead(5, Digits(Len(pairs)))
              \o FlattenSeq([i \in DOMAIN pairs |-> pairs[i].k \o pairs[i].v])

\* Reader::read_bytes and the big-endian number they hold, more than `above` bytes long.
LongEnough(d, above, p) == IF Len(d) > above THEN Read(d, p) ELSE Fail
LongRead(b, p, n, above) ==
  IF p + n - 1 > Len(b) THEN Fail
  ELSE LongEnough(StripZeros(SubSeq(b, p, p + n - 1)), above, p + n)

\* Reader::read_length
FrameLength(b, p, info) ==
  CASE info <= 23 -> Read(Digits(info), p)
    [] info = 24  -> Then(LongRead(b, p, 1, 0), LAMBDA d, q :
                       IF d[1] >= 24 THEN Read(d, q) ELSE Fail)
    [] info = 25  -> LongRead(b, p, 2, 1)
    [] info = 26  -> LongRead(b, p, 4, 2)
    [] info = 27  -> LongRead(b, p, 8, 4)
    [] OTHER -> Fail

\* Reader::checked_len after read_length
FrameCount(b, p, info) ==
  Then(FrameLength(b, p, info), LAMBDA d, q :
    IF Number(d) <= Len(b) - q + 1 THEN Read(Number(d), q) ELSE Fail)

FrameString(b, p, info) ==
  Then(FrameCount(b, p, info), LAMBDA n, q : Read(SubSeq(b, q, q + n - 1), q + n))

RECURSIVE FrameValue(_, _), FrameItems(_, _, _), FramePairs(_, _, _, _)

\* n values from p on; fewer fail them all.
FrameItems(b, p, n) ==
  IF n = 0 THEN Read(<<>>, p)
  ELSE Then(FrameValue(b, p), LAMBDA x, q :
         Then(FrameItems(b, q, n - 1), LAMBDA rest, e : Read(<<x>> \o rest, e)))

\* n pairs, each key after the one before it; both are read before they are compared.
FramePairs(b, p, n, prev) ==
  IF n = 0 THEN Read(<<>>, p)
  ELSE Then(FrameValue(b, p), LAMBDA k, q :
         Then(FrameValue(b, q), LAMBDA v, z :
           IF ~BytesLess(prev, SubSeq(b, p, q - 1)) THEN Fail
           ELSE Then(FramePairs(b, z, n - 1, SubSeq(b, p, q - 1)), LAMBDA rest, e :
                  Read(<<Entry(k, v)>> \o rest, e))))

\* decode_value
FrameValue(b, p) ==
  IF p > Len(b) THEN Fail
  ELSE LET major == b[p] \div 32  info == b[p] % 32 IN
    CASE major = 0 -> Wrap(Uint, FrameLength(b, p + 1, info))
      [] major = 2 -> Wrap(Bytes, FrameString(b, p + 1, info))
      [] major = 3 -> Then(FrameString(b, p + 1, info), LAMBDA s, e :
                             IF Utf8(s) THEN Read(Text(s), e) ELSE Fail)
      [] major = 4 -> Then(FrameCount(b, p + 1, info), LAMBDA n, e :
                             Wrap(Array, FrameItems(b, e, n)))
      [] major = 5 -> Then(FrameCount(b, p + 1, info), LAMBDA n, e :
                             Wrap(Map, FramePairs(b, e, n, <<>>)))
      [] major = 7 /\ info \in {20, 21} -> Read(Bool(info = 21), p + 1)
      [] major = 7 /\ info = 22 -> Read(Null, p + 1)
      [] OTHER -> Fail      \* negative integers, tags, floats

\* decode_value_complete
FrameDecode(b) ==
  Then(FrameValue(b, 1), LAMBDA v, q : IF q = Len(b) + 1 THEN Read(v, q) ELSE Fail)

-----------------------------------------------------------------------------
(* Filters: a function on the keys that are set *)

IsUintList(v) == v.type = "array" /\ \A i \in DOMAIN v.is : v.is[i].type = "uint"
IsId(v) == v.type = "bytes" /\ Len(v.is) = IdSize
IsIdList(v) == v.type = "array" /\ \A i \in DOMAIN v.is : IsId(v.is[i])

FilterKeys == {"kinds", "authors", "refs", "ids", "since", "limit"}
FilterFits(k, v) ==
  CASE k = "kinds" -> IsUintList(v)
    [] k \in {"authors", "refs", "ids"} -> IsIdList(v)
    [] k \in {"since", "limit"} -> v.type = "uint"

FilterOf(f) == IF \A k \in DOMAIN f : FilterFits(k, f[k]) THEN Got(f) ELSE Fail

\* Filter::from_value: unknown keys are ignored, known ones must fit.
KeyAt(m, k) == {i \in DOMAIN m : m[i].k = Tag(k)}
FilterFromValue(v) ==
  IF v.type # "map" THEN Fail
  ELSE FilterOf([k \in {x \in FilterKeys : KeyAt(v.is, x) # {}} |->
                   v.is[CHOOSE i \in KeyAt(v.is, k) : TRUE].v])

\* Filter::to_value
FilterToValue(f) ==
  LET keys == SetToSeq(DOMAIN f)
  IN Map([i \in DOMAIN keys |-> Entry(Tag(keys[i]), f[keys[i]])])

-----------------------------------------------------------------------------
(* Frames: the tag and the elements after it *)

Frame(tag, s) == [tag |-> tag, args |-> s]

IsSubId(v) == v.type = "text" /\ Len(v.is) <= MaxSubId
IsText(v) == v.type = "text"
IsNonce(v) == v.type \in {"uint", "null"}

\* What each element after the tag must be.
ClientArgs ==
  [REQ |-> <<"sub", "filter">>, CLOSE |-> <<"sub">>, PUB |-> <<"bytes", "nonce">>]
RelayArgs ==
  [REC |-> <<"sub", "uint", "bytes">>, EOSE |-> <<"sub">>,
   OK |-> <<"id", "bool", "text">>, CLOSED |-> <<"sub", "text">>]

ArgFits(a, v) ==
  CASE a = "sub"    -> IsSubId(v)
    [] a = "id"     -> IsId(v)
    [] a = "nonce"  -> IsNonce(v)
    [] a = "filter" -> FilterFromValue(v).ok
    [] OTHER -> v.type = a

\* Seeded defect: what follows the last element is not looked at.
ArityLoose(args, items) == Len(items) >= Len(args) + 1
ArityFits(args, items) == Len(items) = Len(args) + 1

FrameArg(a, v) == IF a = "filter" THEN FilterFromValue(v).v ELSE v

\* The elements after a tag, read by what its row of the table asks for.
FrameOf(tag, args, items) ==
  IF ArityFits(args, items) /\ \A i \in DOMAIN args : ArgFits(args[i], items[i + 1])
    THEN Got(Frame(tag, [i \in DOMAIN args |-> FrameArg(args[i], items[i + 1])]))
    ELSE Fail

TagsOf(table, items) == {t \in DOMAIN table : items # <<>> /\ items[1] = Tag(t)}

\* ClientFrame::decode, RelayFrame::decode
FrameFromBytes(table, b) ==
  Then(FrameDecode(b), LAMBDA v, q :
    IF v.type # "array" THEN Fail
    ELSE IF TagsOf(table, v.is) = {} THEN Fail
    ELSE LET t == CHOOSE x \in TagsOf(table, v.is) : TRUE IN FrameOf(t, table[t], v.is))

\* ClientFrame::encode, RelayFrame::encode
FrameToBytes(table, f) ==
  EncodeValue(Array(<<Tag(f.tag)>> \o [i \in DOMAIN f.args |->
    IF table[f.tag][i] = "filter" THEN FilterToValue(f.args[i]) ELSE f.args[i]]))

===============================================================================
