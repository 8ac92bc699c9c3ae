----------------------------- MODULE RecordKinds -----------------------------
(***************************************************************************)
(* The typed record kinds of crates/evermesh-kernel/src/kinds: which       *)
(* bodies and refs each kind's `parse` accepts, and what `to_body` writes  *)
(* back from the parsed value.                                             *)
(*                                                                         *)
(* Every kind's struct, parse and to_body go over the same fields, so a    *)
(* kind is a table here: for each body key, the shape parse demands and    *)
(* how the field is read when it is missing and written when it is         *)
(* there.  Accepts reads a table as parse does, Rewritten as to_body after *)
(* parse.  The rules that relate fields to each other are Consistent.      *)
(*                                                                         *)
(* A value is its CBOR type with what the checks look at: the length of a  *)
(* string and a name for its content, the number, the elements.            *)
(***************************************************************************)
EXTENDS Naturals, Sequences

CONSTANTS
  MaxI64    \* the largest unsigned value that i64 still holds

Text(x, n)  == [type |-> "text", is |-> x, len |-> n]
Bytes(x, n) == [type |-> "bytes", is |-> x, len |-> n]
Uint(n)     == [type |-> "uint", is |-> n]
Nint(n)     == [type |-> "nint", is |-> n]      \* the integer -1 - n
Bool(b)     == [type |-> "bool", is |-> b]
Null        == [type |-> "null"]
Array(s)    == [type |-> "array", of |-> s]
Map(f)      == [type |-> "map", of |-> f]

NoKeys == [k \in {} |-> Null]

\* A map, or a table, with more keys.
With(m, more) ==
  [k \in DOMAIN m \cup DOMAIN more |-> IF k \in DOMAIN more THEN more[k] ELSE m[k]]

-----------------------------------------------------------------------------
(* Shapes: the field helpers of kinds/mod.rs *)

Unlimited == 2147483647    \* usize::MAX, longer than any text here

TextOf(least, most) == [shape |-> "text", least |-> least, most |-> most]
AnyText             == TextOf(0, Unlimited)
Filled              == TextOf(1, Unlimited)
License             == TextOf(1, 64)               \* validate_license
HttpsOrigin         == [shape |-> "https"]
Unsigned            == [shape |-> "uint", least |-> 0, most |-> Unlimited]
Signed              == [shape |-> "int"]
Flag                == [shape |-> "bool"]
Octets              == [shape |-> "octets"]
Hash32              == [shape |-> "hash"]
AnchorProof         == [shape |-> "proof"]
AnyMap              == [shape |-> "anymap"]
ListOf(s, least, most) == [shape |-> "list", item |-> s, least |-> least, most |-> most]
Many(s)             == ListOf(s, 0, Unlimited)
TupleOf(s)          == [shape |-> "tuple", items |-> s, optional |-> {}]
\* FeedEntry: the last element may be missing, or null.
TupleWithTail(s)    == [shape |-> "tuple", items |-> s, optional |-> {Len(s)}]
Submap(name)        == [shape |-> "submap", table |-> name]

\* How a key is read and written.
Required(s)  == [as |-> s, when |-> "always"]     \* parse fails without it
Optional(s)  == [as |-> s, when |-> "present"]    \* Option: written when Some
Listed(s)    == [as |-> Many(s), when |-> "nonempty"]  \* Vec: [] when absent
Nullable(s)  == [as |-> s, when |-> "notnull"]    \* null reads as None
Default(s)   == [as |-> s, when |-> "true"]       \* false when absent, written when true

\* is_https_origin: the prefix and at least one byte more.
Https(x, n) == x = "https" /\ n > 8

-----------------------------------------------------------------------------
(* Tables *)

Hint           == TupleOf(<<Unsigned, AnyText>>)
PaymentPointer == TupleOf(<<Unsigned, AnyText>>)
LiveSegment    == TupleOf(<<Hash32, Unsigned>>)
EncKey         == TupleOf(<<Unsigned, Octets>>)
RefType        == [shape |-> "uint", least |-> 0, most |-> 1]
FeedEntry      == TupleWithTail(<<RefType, Hash32, AnyText, Hash32>>)
FeedRemoveEntry == TupleOf(<<RefType, Hash32>>)

Sponsor ==
  [start_ms |-> Required(Unsigned), end_ms |-> Required(Unsigned), label |-> Required(AnyText)]

Encryption == [scheme |-> Required(Unsigned), key_hint |-> Optional(AnyText)]

Media ==
  [blob |-> Required(Hash32), size |-> Required(Unsigned), codec |-> Required(TextOf(1, 256)),
   duration |-> Required(Unsigned), width |-> Optional(Unsigned), height |-> Optional(Unsigned),
   chunk_root |-> Optional(Hash32), wrapped_key |-> Optional(Octets)]

Rendition ==
  With(Media, [bitrate |-> Required(Unsigned), produced_by |-> Required(TupleOf(<<Hash32, Octets>>)),
               derivation_sig |-> Required(Octets)])

Caption ==
  [blob |-> Required(Hash32), language |-> Required(TextOf(1, 64)),
   format |-> Required(TextOf(1, 64)), wrapped_key |-> Optional(Octets)]

Claimant ==
  [name |-> Required(Filled), contact |-> Required(Filled), on_behalf_of |-> Optional(AnyText)]

SubTable(name) ==
  CASE name = "Sponsor" -> Sponsor
    [] name = "Encryption" -> Encryption
    [] name = "Media" -> Media
    [] name = "Rendition" -> Rendition
    [] name = "Caption" -> Caption
    [] name = "Claimant" -> Claimant

Manifest ==
  [title |-> Required(TextOf(1, 512)), description |-> Optional(TextOf(0, 16384)),
   tags |-> [as |-> ListOf(TextOf(0, 64), 0, 32), when |-> "nonempty"],
   language |-> Optional(AnyText), original |-> Required(Submap("Media")),
   renditions |-> Listed(Submap("Rendition")), captions |-> Listed(Submap("Caption")),
   thumbnail |-> Optional(Hash32), encryption |-> Nullable(Submap("Encryption")),
   license |-> Required(License), sponsorship |-> Listed(Submap("Sponsor")),
   payment |-> Listed(PaymentPointer), hints |-> Listed(Hint)]

Delegate ==
  [grantee |-> Required(Hash32), capability |-> Required(TextOf(1, 256)),
   expires_at |-> Optional(Signed), revoked |-> Default(Flag)]

Supersede  == [target_kind |-> Required(Unsigned), body |-> Required(AnyMap)]
Retract    == [reason |-> Optional(AnyText)]
Mirror     == [hints |-> Listed(Hint)]
Similarity ==
  [method |-> Required(Filled),
   score |-> Required([shape |-> "uint", least |-> 0, most |-> 10000])]

Profile ==
  [name |-> Required(TextOf(1, 256)), about |-> Optional(AnyText), avatar |-> Optional(Hash32),
   payment |-> Listed(PaymentPointer), relays |-> Listed(AnyText), seeds |-> Listed(AnyText),
   enc_key |-> Optional(EncKey)]

Comment  == [text |-> Required(TextOf(1, 8192)), media |-> Listed(Hash32)]
Reaction == [reaction |-> Required(TextOf(0, 32))]
Follow   == [note |-> Optional(AnyText)]
Playlist ==
  [title |-> Required(TextOf(1, 512)), description |-> Optional(TextOf(0, 16384)),
   entries |-> Required(ListOf(Hash32, 1, Unlimited))]
Channel ==
  [title |-> Required(TextOf(1, 512)), description |-> Optional(TextOf(0, 16384)),
   avatar |-> Optional(Hash32), banner |-> Optional(Hash32)]

ClaimAuthor   == [statement |-> Optional(AnyText), evidence |-> Listed(Hash32)]
ClaimLicense  == [license |-> Required(License), terms |-> Optional(AnyText)]
ClaimTransfer == [assignee |-> Required(Hash32), note |-> Optional(AnyText)]
ClaimDispute  == [statement |-> Required(Filled), evidence |-> Listed(Hash32)]

NoticeTakedown ==
  [regime |-> Required(Filled), claimant |-> Required(Submap("Claimant")),
   statement |-> Required(Filled), work |-> Required(Filled), signature_name |-> Required(Filled)]
NoticeCounter == With(NoticeTakedown, [work |-> Optional(AnyText)])
FeedTakedown ==
  [feed |-> Required(Filled), seq |-> Required(Unsigned), add |-> Required(Many(FeedEntry)),
   remove |-> Required(Many(FeedRemoveEntry))]

EndorseGateway == [url |-> Required(HttpsOrigin), note |-> Optional(AnyText)]
Receipt ==
  [amount |-> Required([shape |-> "uint", least |-> 1, most |-> Unlimited]),
   currency |-> Required(Filled), rail |-> Required(Unsigned), payee |-> Required(Hash32),
   proof |-> Optional(AnyText), message |-> Optional(AnyText)]
Attest == [statement |-> Required(Filled), data |-> Optional(AnyMap)]

Anchor ==
  [root |-> Required(Hash32), count |-> Required(Unsigned), system |-> Required(Filled),
   proof |-> Required(AnchorProof)]
Keygrant ==
  [recipient |-> Required(Hash32), wrap_alg |-> Required(Unsigned),
   wrapped_key |-> Required(Octets), note |-> Optional(AnyText)]

LiveManifest ==
  [title |-> Optional(TextOf(0, 512)), seq |-> Required(Unsigned),
   segments |-> Required(Many(LiveSegment)), final |-> Required(Flag)]
LiveChat == [text |-> Required(TextOf(1, 2048))]

-----------------------------------------------------------------------------
(* Kinds: their table, how many refs they carry, which of them are records *)

Kind(table, least, most, records) ==
  [table |-> table, least |-> least, most |-> most, records |-> records]
NoRefs(table) == Kind(table, 0, 0, {})
OneRecord(table) == Kind(table, 1, 1, {1})

\* The registry names of kind_name stand for the numbers.
KindNames ==
  {"rotation", "profile", "delegate", "manifest", "supersede", "retract", "mirror",
   "similarity", "comment", "reaction", "follow", "playlist", "channel", "claim.author",
   "claim.license", "claim.transfer", "claim.dispute", "notice.takedown",
   "notice.counter", "feed.takedown", "endorse.gateway", "receipt", "attest", "anchor",
   "keygrant", "live.manifest", "live.chat"}

\* kinds::validate
Registry ==
  [k \in KindNames |->
     CASE k = "rotation"          -> Kind(NoKeys, 0, Unlimited, {})
       [] k = "profile"           -> NoRefs(Profile)
       [] k = "delegate"          -> Kind(Delegate, 0, 1, {1})
       [] k = "manifest"          -> Kind(Manifest, 0, 1, {1})
       [] k = "supersede"         -> OneRecord(Supersede)
       [] k = "retract"           -> OneRecord(Retract)
       [] k = "mirror"            -> Kind(Mirror, 1, Unlimited, {})
       [] k = "similarity"        -> Kind(Similarity, 2, 2, {2})
       [] k = "comment"           -> Kind(Comment, 1, 2, {1, 2})
       [] k = "reaction"          -> OneRecord(Reaction)
       [] k = "follow"            -> OneRecord(Follow)
       [] k = "playlist"          -> NoRefs(Playlist)
       [] k = "channel"           -> NoRefs(Channel)
       [] k = "claim.author"      -> OneRecord(ClaimAuthor)
       [] k = "claim.license"     -> OneRecord(ClaimLicense)
       [] k = "claim.transfer"    -> OneRecord(ClaimTransfer)
       [] k = "claim.dispute"     -> OneRecord(ClaimDispute)
       [] k = "notice.takedown"   -> Kind(NoticeTakedown, 1, Unlimited, {})
       [] k = "notice.counter"    -> OneRecord(NoticeCounter)
       [] k = "feed.takedown"     -> NoRefs(FeedTakedown)
       [] k = "endorse.gateway"   -> NoRefs(EndorseGateway)
       [] k = "receipt"           -> OneRecord(Receipt)
       [] k = "attest"            -> OneRecord(Attest)
       [] k = "anchor"            -> NoRefs(Anchor)
       [] k = "keygrant"          -> OneRecord(Keygrant)
       [] k = "live.manifest"     -> Kind(LiveManifest, 0, 1, {1})
       [] k = "live.chat"         -> OneRecord(LiveChat)]

-----------------------------------------------------------------------------
(* Reading a table as parse does *)

Has(m, k) == k \in DOMAIN m
OneMiB == 1048576

\* Rules that relate the keys of one map.
SubConsistent(name, m) ==
  name \in {"Media", "Rendition"} =>
    /\ Has(m, "width") <=> Has(m, "height")
    /\ m.size.is > OneMiB => Has(m, "chunk_root")

\* A missing key is an error only where parse requires it; keys that are not in the
\* table are not looked at.  `fitting` are the keys whose value has the shape.
ReadsAs(table, m, fitting) == \A k \in DOMAIN table :
  IF Has(m, k)
    THEN (table[k].when = "notnull" /\ m[k] = Null) \/ k \in fitting
    ELSE table[k].when # "always"

\* Strings, numbers, flags and maps nobody looks into
FitsPlain(s, v) ==
  CASE s.shape = "text"   -> v.type = "text" /\ v.len \in s.least .. s.most
    [] s.shape = "https"  -> v.type = "text" /\ Https(v.is, v.len)
    [] s.shape = "uint"   -> v.type = "uint" /\ v.is \in s.least .. s.most
    [] s.shape = "int"    -> v.type \in {"uint", "nint"} /\ v.is <= MaxI64
    [] s.shape = "bool"   -> v.type = "bool"
    [] s.shape = "octets" -> v.type = "bytes"
    [] s.shape = "hash"   -> v.type = "bytes" /\ v.len = 32
    [] s.shape = "proof"  -> v.type = "bytes" /\ v.len <= 4096
    [] s.shape = "anymap" -> v.type = "map"

\* A tuple has plain elements, a map of a submap's table has plain ones and tuples.
FitsFlat(s, v) ==
  IF s.shape # "tuple" THEN FitsPlain(s, v)
  ELSE /\ v.type = "array"
       /\ \/ DOMAIN v.of = DOMAIN s.items
          \/ DOMAIN v.of = DOMAIN s.items \ s.optional
       /\ \A i \in DOMAIN v.of :
            \/ i \in s.optional /\ v.of[i] = Null
            \/ FitsPlain(s.items[i], v.of[i])

FitsItem(s, v) ==
  IF s.shape # "submap" THEN FitsFlat(s, v)
  ELSE LET table == SubTable(s.table) IN
       /\ v.type = "map"
       /\ ReadsAs(table, v.of, {k \in DOMAIN table \cap DOMAIN v.of : FitsFlat(table[k].as, v.of[k])})
       /\ SubConsistent(s.table, v.of)

\* A list has any of those as its items, but no list.
Fits(s, v) ==
  IF s.shape # "list" THEN FitsItem(s, v)
  ELSE /\ v.type = "array" /\ DOMAIN v.of = 1..Len(v.of)
       /\ Len(v.of) \in s.least .. s.most
       /\ \A i \in DOMAIN v.of : FitsItem(s.item, v.of[i])

FitsTable(table, m) ==
  ReadsAs(table, m, {k \in DOMAIN table \cap DOMAIN m : Fits(table[k].as, m[k])})

\* require_wrapped_64
Wrapped(m) == Has(m, "wrapped_key") /\ m.wrapped_key.len = 64

Items(m, k) == IF Has(m, k) THEN {m[k].of[i].of : i \in DOMAIN m[k].of} ELSE {}

Encrypted(body) == Has(body, "encryption") /\ body.encryption # Null

KeysWrapped(body) ==
  Encrypted(body) =>
    \A m \in {body.original.of} \cup Items(body, "renditions") \cup Items(body, "captions") :
      Wrapped(m)

Revoked(body) == Has(body, "revoked") /\ body.revoked.is

\* Rules that relate a kind's keys and refs.
Consistent(r) ==
  CASE r.kind = "rotation"  -> IF r.genesis THEN r.refs = <<>>
                               ELSE Len(r.refs) = 1 /\ r.refs[1].type = "record"
    [] r.kind = "manifest"  -> KeysWrapped(r.body)
    [] r.kind = "delegate"  -> Revoked(r.body) <=> Len(r.refs) = 1
    [] r.kind = "supersede" -> r.body.target_kind.is # 1
    [] r.kind = "live.manifest" -> r.refs = <<>> => Has(r.body, "title")
    [] OTHER -> TRUE

RefsFit(kind, refs) ==
  /\ Len(refs) \in kind.least .. kind.most
  /\ \A i \in DOMAIN refs \cap kind.records : refs[i].type = "record"

\* What `parse` of the record's kind accepts.  An unknown kind is not interpreted.
Parses(r) ==
  r.kind \in DOMAIN Registry =>
    /\ RefsFit(Registry[r.kind], r.refs)
    /\ FitsTable(Registry[r.kind].table, r.body)
    /\ Consistent(r)

-----------------------------------------------------------------------------
(* Derivations *)

\* Seeded defect: an absent dimension is zero.
DimensionOrZero(m, k) == IF Has(m, k) THEN m[k] ELSE Uint(0)

\* derivation_statement: six elements whatever the media has; an absent dimension
\* is null in its place.
Dimension(m, k) == IF Has(m, k) THEN m[k] ELSE Null

Statement(original, m) ==
  <<original, m.blob, m.codec, Dimension(m, "width"), Dimension(m, "height"), m.bitrate>>

\* What a key signs, as a signature that verifies for nothing else.
Signature(key, statement) == [key |-> key, over |-> statement]

\* verify_derivation: a 32-byte key, a 64-byte signature, and the one statement.
VerifyDerivation(m, original) ==
  LET key == m.produced_by.of[2] IN
    /\ key.len = 32
    /\ m.derivation_sig = Bytes(Signature(key, Statement(original, m)), 64)

\* validate_manifest
DerivationsVerify(body) ==
  \A m \in Items(body, "renditions") : VerifyDerivation(m, body.original.of.blob)

Validate(r) == Parses(r) /\ (r.kind = "manifest" => DerivationsVerify(r.body))

-----------------------------------------------------------------------------
(* Writing a parsed value back as to_body does *)

\* Seeded defect: a flag is never written.
WrittenButFlags(field, m, k) ==
  /\ Has(m, k)
  /\ CASE field.when = "nonempty" -> m[k].of # <<>>
       [] field.when = "notnull"  -> m[k] # Null
       [] field.when = "true"     -> FALSE
       [] OTHER -> TRUE

\* Which of the keys it has a map is written with.
Written(field, m, k) ==
  /\ Has(m, k)
  /\ CASE field.when = "nonempty" -> m[k].of # <<>>
       [] field.when = "notnull"  -> m[k] # Null
       [] field.when = "true"     -> m[k].is
       [] OTHER -> TRUE

WrittenKeys(table, m) == {k \in DOMAIN table : Written(table[k], m, k)}

\* An optional element that is null is left out.
RewriteFlat(s, v) ==
  IF s.shape = "tuple" THEN Array([i \in {j \in DOMAIN v.of : v.of[j] # Null} |-> v.of[i]]) ELSE v

RewriteItem(s, v) ==
  IF s.shape # "submap" THEN RewriteFlat(s, v)
  ELSE LET table == SubTable(s.table) IN
       Map([k \in WrittenKeys(table, v.of) |-> RewriteFlat(table[k].as, v.of[k])])

Rewrite(s, v) ==
  IF s.shape = "list" THEN Array([i \in DOMAIN v.of |-> RewriteItem(s.item, v.of[i])])
  ELSE RewriteItem(s, v)

RewriteTable(table, m) == [k \in WrittenKeys(table, m) |-> Rewrite(table[k].as, m[k])]

\* The record a parsed wrapper builds again: to_body and refs.
Rewritten(r) ==
  IF r.kind \in DOMAIN Registry /\ r.kind # "rotation"
    THEN [r EXCEPT !.body = RewriteTable(Registry[r.kind].table, @)]
    ELSE r

-----------------------------------------------------------------------------
(* Checks that need a second record *)

\* check_delegate_revocation
RevokesGrant(revocation, grant) ==
  /\ revocation.author = grant.author
  /\ revocation.body.grantee = grant.body.grantee
  /\ revocation.body.capability = grant.body.capability

\* check_comment_thread
ThreadOk(comment, parent) == Len(comment.refs) = 2 => comment.refs[1] = parent.refs[1]

\* check_retract_target_kind
RetractTargetOk(kind) == kind # "rotation"

\* check_dispute_target_kind
DisputeTargetOk(kind) ==
  kind \in {"claim.author", "claim.license", "claim.transfer", "notice.takedown", "notice.counter"}

=============================================================================
