------------------------------- MODULE Envelope -------------------------------
(***************************************************************************)
(* The signed record of crates/evermesh-kernel/src/record.rs: how an       *)
(* envelope is written and read, what its id commits to, how it is signed  *)
(* and verified.                                                           *)
(*                                                                         *)
(* The hash is the hashed bytes themselves: distinct contents have         *)
(* distinct ids.  A signature is whatever Sign makes of a key and an id.   *)
(***************************************************************************)
EXTENDS Codec

CONSTANTS
  HashSize,      \* 32, a hash or an identity id
  KeySize,       \* 32
  SigSize,       \* 64
  Sign(_, _),    \* Ed25519 over the prefix and an id, verify_strict its inverse
  MaxI64         \* the digits of i64::MAX

ASSUME EnvelopeAssumption == {HashSize, KeySize, SigSize} \subseteq Nat

IsUint(v) == v.type = "uint"
IsBytes(v) == v.type = "bytes"
IsMap(v) == v.type = "map"

\* Arguments compare as numbers: by length, then digit by digit.
AtMost(d, e) == Len(d) < Len(e) \/ (Len(d) = Len(e) /\ ~BytesLess(e, d))

\* as_i64
FitsInt64(v) == v.type \in {"uint", "nint"} /\ AtMost(v.is, MaxI64)

RefToValue(r) == Array(<<Uint(r.type), Bytes(r.hash)>>)
IsRef(v) ==
  /\ v.type = "array" /\ Len(v.is) = 2
  /\ IsUint(v.is[1]) /\ AtMost(v.is[1].is, <<1>>)
  /\ IsBytes(v.is[2]) /\ Len(v.is[2].is) = HashSize
RefFromValue(v) == [type |-> v.is[1].is, hash |-> v.is[2].is]

AuthorToValue(a) == Array(<<Bytes(a.id), Bytes(a.key)>>)
IsAuthor(v) ==
  /\ v.type = "array" /\ Len(v.is) = 2
  /\ IsBytes(v.is[1]) /\ Len(v.is[1].is) = HashSize
  /\ IsBytes(v.is[2])
AuthorFromValue(v) == [id |-> v.is[1].is, key |-> v.is[2].is]

\* Record::to_value
Fields(r) ==
  << Uint(r.kind), AuthorToValue(r.author), r.created_at,
     Array([i \in DOMAIN r.refs |-> RefToValue(r.refs[i])]), r.body, Uint(r.alg) >>

ToValue(r, signed) ==
  LET f == IF signed THEN Append(Fields(r), Bytes(r.sig)) ELSE Fields(r)
  IN Map([i \in DOMAIN f |-> Entry(Uint(Digits(i)), f[i])])

\* Record::id, Record::to_canonical_cbor
Id(r) == Encoding(ToValue(r, FALSE))
ToCbor(r) == Encoding(ToValue(r, TRUE))

\* Exactly the keys 1 to 7.  A decoded map is in ascending order, so by position.
SevenKeys(m) ==
  /\ Len(m) = 7
  /\ \A i \in DOMAIN m : m[i].k = Uint(Digits(i))

FieldsFit(f) ==
  /\ IsUint(f[1]) /\ IsAuthor(f[2]) /\ FitsInt64(f[3])
  /\ f[4].type = "array" /\ \A i \in DOMAIN f[4].is : IsRef(f[4].is[i])
  /\ IsMap(f[5]) /\ IsUint(f[6]) /\ IsBytes(f[7])

RecordOf(f) ==
  IF FieldsFit(f)
    THEN Got([kind |-> f[1].is, author |-> AuthorFromValue(f[2]), created_at |-> f[3],
              refs |-> [i \in DOMAIN f[4].is |-> RefFromValue(f[4].is[i])],
              body |-> f[5], alg |-> f[6].is, sig |-> f[7].is])
    ELSE Fail

\* Record::from_value
FromValue(v) ==
  IF IsMap(v) /\ SevenKeys(v.is) THEN RecordOf([i \in 1..7 |-> v.is[i].v]) ELSE Fail

\* Record::from_cbor, Record::from_json
FromCbor(b) == Then(Decode(b), LAMBDA v, q : FromValue(v))
Reencoded(v) == IF Encodable(v) THEN FromCbor(Encoding(v)) ELSE Fail
FromJsonDoc(j) == IF FromJson(j, 0).ok THEN Reencoded(FromJson(j, 0).v) ELSE Fail

\* Record::verify: one algorithm, and the sizes it has.
Verifies(r) ==
  /\ r.alg = <<1>>
  /\ Len(r.author.key) = KeySize /\ Len(r.sig) = SigSize
  /\ r.sig = Sign(r.author.key, Id(r))

\* What sign_as signs: the body in canonical order, in memory too.
Unsigned(b, key, id) ==
  [kind |-> b.kind, author |-> [id |-> id, key |-> key], created_at |-> b.created_at,
   refs |-> b.refs, body |-> IntoCanonical(b.body), alg |-> <<1>>, sig |-> <<>>]

\* RecordBuilder::sign_as: a map, without a duplicate key at any depth.
Signed(r) ==
  IF Encodable(ToValue(r, FALSE)) THEN Got([r EXCEPT !.sig = Sign(r.author.key, Id(r))]) ELSE Fail
SignAs(b, key, id) == IF IsMap(b.body) THEN Signed(Unsigned(b, key, id)) ELSE Fail

===============================================================================
