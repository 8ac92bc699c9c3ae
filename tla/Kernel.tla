--------------------------------- MODULE Kernel ---------------------------------
(***************************************************************************)
(* The pure algorithms of the kernel put to work on one document: a writer *)
(* composes it out of values, signs, encodes or exports it, the way to the *)
(* reader damages it, and every reader of the system is asked what it      *)
(* makes of the result.                                                    *)
(*                                                                         *)
(* The documents that are bytes and nested values are here, with the       *)
(* readers of Codec, Envelope, FrameCodec and BundleReader; the others are *)
(* those of Documents, with their actions and properties.                  *)
(***************************************************************************)
EXTENDS Envelope, FrameCodec, BundleReader, Documents

CONSTANTS
  Alphabet,     \* bytes that are typed
  Noise,        \* bytes that come between or in the place of others on the way
  MaxBytes,     \* bound: how many bytes are typed
  Atoms,        \* values a body is composed of
  Keys,         \* and the keys of its maps
  MaxWraps,     \* bound: how often a value is wrapped
  Strays,       \* values that are nearly a frame or a record
  Drafts,       \* records to sign, without their bodies
  Frames        \* what is sent over /sync: a table and a frame

Typed(b) == [of |-> "typed", is |-> b]
Sent(b) == [of |-> "sent", is |-> b]
Damaged(b) == [of |-> "damaged", is |-> b]
ValueDoc(v, n) == [of |-> "value", is |-> v, wraps |-> n]

ByteInit ==
  doc \in {Typed(<<>>)}
     \cup {ValueDoc(v, 0) : v \in Atoms} \cup {ValueDoc(v, MaxWraps) : v \in Strays}
     \cup {[of |-> "frame", table |-> f.table, is |-> f.frame] : f \in Frames}

Init == ByteInit \/ DocInit

-----------------------------------------------------------------------------
(* Bytes, values, envelopes and frames *)

TypeByte ==
  /\ doc.of = "typed" /\ Len(doc.is) < MaxBytes
  /\ \E x \in Alphabet : doc' = Typed(Append(doc.is, x))

Wrappings(v) ==
  {Array(<<v>>)} \cup {Map(<<Entry(k, v)>>) : k \in Keys}
    \cup UNION {{Array(<<v, a>>), Array(<<a, v>>)} : a \in Atoms}
    \cup {Map(<<Entry(k, v), Entry(l, a)>>) : k \in Keys, l \in Keys, a \in Atoms}

Wrap1 ==
  /\ doc.of = "value" /\ doc.wraps < MaxWraps
  /\ \E v \in Wrappings(doc.is) : doc' = ValueDoc(v, doc.wraps + 1)

EncodeIt ==
  /\ doc.of = "value" /\ Encodable(doc.is)
  /\ doc' = Sent(Encoding(doc.is))

SignIt ==
  /\ doc.of = "value"
  /\ \E d \in Drafts :
       LET b == [kind |-> d.kind, created_at |-> d.created_at, refs |-> d.refs, body |-> doc.is]
           r == SignAs(b, d.key, d.id)
       IN r.ok /\ doc' = [of |-> "envelope", is |-> r.v, wraps |-> doc.wraps]

\* Bound: only the records whose body was not wrapped are sent.
SendRecord == doc.of = "envelope" /\ doc.wraps = 0 /\ doc' = Sent(ToCbor(doc.is))
SendFrame == doc.of = "frame" /\ doc' = Sent(FrameToBytes(doc.table, doc.is))

\* One byte is changed, lost or added on the way.
Damage ==
  /\ doc.of = "sent"
  /\ \E i \in DOMAIN doc.is :
       \/ \E x \in Noise : doc' = Damaged(ReplaceAt(doc.is, i, x))
       \/ doc' = Damaged(RemoveAt(doc.is, i))
       \/ \E x \in Noise : doc' = Damaged(InsertAt(doc.is, i, x))

Next ==
  \/ TypeByte \/ Wrap1 \/ EncodeIt \/ SignIt \/ SendRecord \/ SendFrame \/ Damage
  \/ ReadMore \/ Hurt \/ Alter \/ ShowOther \/ AppendEntry     \* DocNext

Spec == Init /\ [][Next]_doc

-----------------------------------------------------------------------------
(* Properties *)

IsBytesDoc == doc.of \in {"typed", "sent", "damaged"}

TypeOK ==
  /\ doc.of \in {"typed", "sent", "damaged", "value", "envelope", "frame", "blob", "bundle", "kind",
                 "rendition", "feed"}
  /\ IsBytesDoc => \A i \in DOMAIN doc.is : doc.is[i] \in 0..255

\* Encoding and decode_canonical are each other's inverse: what decodes is the one
\* encoding of its value, whatever happened to the bytes, and every value without a
\* duplicate key and not too deep comes back in canonical order.
CodecIsBijective ==
  /\ IsBytesDoc =>
       LET d == Decode(doc.is) IN d.ok => Encodable(d.v) /\ Encoding(d.v) = doc.is
  /\ doc.of = "value" /\ Encodable(doc.is) =>
       LET d == Decode(Encoding(doc.is)) IN
       IF Depth(doc.is) > MaxDepth THEN ~d.ok ELSE d.ok /\ d.v = IntoCanonical(doc.is)

\* The keys the interchange form has a text for, and integers that i64 holds.
RECURSIVE JsonSafe(_)
JsonSafe(v) ==
  CASE v.type = "nint"  -> FitsI64(v.is)
    [] v.type = "array" -> \A i \in DOMAIN v.is : JsonSafe(v.is[i])
    [] v.type = "map"   -> \A i \in DOMAIN v.is :
                             /\ v.is[i].k.type \in {"uint", "nint", "bytes", "text"}
                             /\ JsonSafe(v.is[i].k) /\ JsonSafe(v.is[i].v)
    [] OTHER -> TRUE

\* A record has one encoding, so no two byte strings are one record with one id; and
\* what sign_as signs verifies and reads back equal from its CBOR and from its JSON.
EnvelopeIsBijective ==
  /\ IsBytesDoc =>
       LET r == FromCbor(doc.is) IN r.ok => ToCbor(r.v) = doc.is
  /\ doc.of = "envelope" /\ Depth(ToValue(doc.is, TRUE)) <= MaxDepth =>
       /\ Verifies(doc.is)
       /\ FromCbor(ToCbor(doc.is)) = Got(doc.is)
       /\ JsonSafe(doc.is.body) => FromJsonDoc(ToJson(ToValue(doc.is, TRUE))) = Got(doc.is)

\* A value and a record have one encoding each, in bytes and as JSON.
EncodingIsBijective == CodecIsBijective /\ EnvelopeIsBijective

RECURSIVE HasNint(_)
HasNint(v) ==
  CASE v.type = "nint"  -> TRUE
    [] v.type = "array" -> \E i \in DOMAIN v.is : HasNint(v.is[i])
    [] v.type = "map"   -> \E i \in DOMAIN v.is : HasNint(v.is[i].k) \/ HasNint(v.is[i].v)
    [] OTHER -> FALSE

RECURSIVE FitsItem(_, _)

\* Fewer than n containers are in one another, and no string is longer than MaxString.
FitsItem(v, n) ==
  CASE v.type \in {"bytes", "text"} -> Len(v.is) <= MaxString
    [] v.type = "array" -> n > 1 /\ \A i \in DOMAIN v.is : FitsItem(v.is[i], n - 1)
    [] v.type = "map"   -> /\ n > 1
                           /\ \A i \in DOMAIN v.is : /\ FitsItem(v.is[i].k, n - 1)
                                                     /\ FitsItem(v.is[i].v, n - 1)
    [] OTHER -> TRUE

\* Three readers of CBOR, written apart, take the same bytes for the same item, but for
\* these differences: the relay's knows no negative integers and has no limit of depth;
\* the item reader of bundles, which decodes nothing, refuses what the kernel reads
\* exactly where MAX_DEPTH containers are in one another or a string is longer than
\* 64 MiB (read_item), and nowhere else.
ReadersAgree ==
  IsBytesDoc =>
    LET kernel == Decode(doc.is)
        relay == FrameDecode(doc.is)
        item == ReadItem(doc.is)
    IN /\ kernel.ok /\ ~HasNint(kernel.v) => relay = kernel
       /\ relay.ok /\ Depth(relay.v) <= MaxDepth => kernel = relay
       /\ kernel.ok => /\ item.ok <=> FitsItem(kernel.v, MaxDepth)
                       /\ item.ok => item.next = Len(doc.is) + 1

\* A frame that is read means what was sent: it is read back equal, and all but a REQ,
\* whose filter may hold keys that are ignored, have one encoding.
FramesHaveOneMeaning ==
  /\ IsBytesDoc => \A table \in {ClientArgs, RelayArgs} :
       LET f == FrameFromBytes(table, doc.is) IN
       f.ok => /\ FrameFromBytes(table, FrameToBytes(table, f.v)) = f
               /\ f.v.tag # "REQ" => FrameToBytes(table, f.v) = doc.is
  /\ doc.of = "frame" => FrameFromBytes(doc.table, FrameToBytes(doc.table, doc.is)) = Got(doc.is)

\* No reader takes for one item or frame what another takes for a different one.
ReadersHaveOneMeaning == ReadersAgree /\ FramesHaveOneMeaning

===============================================================================
