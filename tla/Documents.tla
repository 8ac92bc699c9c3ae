------------------------------- MODULE Documents -------------------------------
(***************************************************************************)
(* Documents whose form is a loop over items, chunks, fields or entries: a *)
(* blob and its tree, a bundle, a record of each kind, a rendition and a   *)
(* feed.  A writer composes one, the way to the reader damages it, and     *)
(* every reader is asked what it makes of the result.                      *)
(*                                                                         *)
(* The document is the only state: `of` says what it is.  The readers are  *)
(* operators of Bundle, ChunkTree, Publication and RecordKinds; the        *)
(* properties relate them to each other.  Kernel adds the documents that   *)
(* are bytes and nested values.                                            *)
(***************************************************************************)
EXTENDS Naturals, Sequences, SequencesExt

CONSTANTS
  MaxBlob,      \* bound: how many bytes a blob has
  Exports,      \* what is exported: records and blobs
  MaxHurt,      \* bound: how many items or fields are changed on the way
  Samples,      \* records of every kind
  Fillings,     \* what a field is changed to
  Renditions,   \* media with what their derivations are signed over
  Announces,    \* announcements for a feed
  MaxEntries,   \* bound: how many entries a feed has
  PartSize, Threshold, Valid, ChunkSize, ReadBufSize, DigestSize, Prefix, LargestI64

Files == INSTANCE Bundle
Pub   == INSTANCE Publication
Kinds == INSTANCE RecordKinds WITH MaxI64 <- LargestI64

IsFcn(f) == f = [x \in DOMAIN f |-> f[x]]
IsSeq(s) == s \in Seq(ToSet(s))

\* A list, a map and a flag have nothing but what their type has.
WellFormed(v) ==
  CASE v.type = "array" -> v = Kinds!Array(v.of) /\ IsFcn(v.of)
    [] v.type = "map"   -> v = Kinds!Map(v.of)
    [] v.type = "bool"  -> v \in {Kinds!Bool(TRUE), Kinds!Bool(FALSE)}
    [] OTHER -> TRUE

\* The sizes of Bundle and ChunkTree are lengths, not empty.
ASSUME SizeAssumption == {PartSize, Threshold, ChunkSize, ReadBufSize} \subseteq Nat \ {0}
\* Records and blobs are given in an order, and a blob is a sequence of bytes.
ASSUME ExportsAssumption ==
  \A x \in Exports : IsSeq(x.records) /\ IsSeq(x.blobs) /\ \A b \in ToSet(x.blobs) : IsSeq(b)
\* Records and what is put into them are values of the codec.
ASSUME SamplesAssumption ==
  /\ \A r \in Samples : /\ IsFcn(r) /\ {"kind", "body", "refs"} \subseteq DOMAIN r
                        /\ \A k \in DOMAIN r.body : WellFormed(r.body[k])
  /\ \A v \in Fillings : WellFormed(v)
\* What is signed is a rendition's media.
ASSUME RenditionsAssumption ==
  \A m \in Renditions : Kinds!Fits(Kinds!Submap("Rendition"), Kinds!Map(m.media))

VARIABLE doc

BundleDoc(x, items, n) == [of |-> "bundle", was |-> x, is |-> items, hurt |-> n]
KindDoc(r, n) == [of |-> "kind", is |-> r, hurt |-> n]

DocInit ==
  doc \in {[of |-> "blob", bytes |-> <<>>, cuts |-> {}, broken |-> FALSE]}
     \cup {BundleDoc(x, Files!Export(x.records, x.blobs), 0) : x \in Exports}
     \cup {KindDoc(r, 0) : r \in Samples}
     \cup {[of |-> "rendition", signed |-> m, shown |-> m, hurt |-> 0] : m \in Renditions}
     \cup {[of |-> "feed", entries |-> <<Pub!FeedGenesis(a, 0)>>] : a \in Announces}

-----------------------------------------------------------------------------

\* One byte more, in the read call of the last or in a new one; or the reader fails.
\* Some chunks of the blob are equal, some differ.
ReadMore ==
  /\ doc.of = "blob" /\ ~doc.broken
  /\ \/ /\ Len(doc.bytes) < MaxBlob
        /\ \E cuts \in {doc.cuts, (doc.cuts \cup {Len(doc.bytes)}) \ {0}} :
             doc' = [doc EXCEPT !.bytes = Append(@, Len(@) % 4), !.cuts = cuts]
     \/ doc' = [doc EXCEPT !.broken = TRUE]

\* What becomes of an item: other content under its id, another tag, a missing element,
\* bytes that are no item, or the end of what can be read.
Spoiled(it) ==
  {Files!Unusable, Files!Unreadable, [tag |-> "other"], Files!Malformed(it.tag)}
    \cup (IF it.tag = "b" THEN {[it EXCEPT !.content = Append(@, 0)]} ELSE {})
    \cup (IF it.tag = "bp" /\ it.part # <<>> THEN {[it EXCEPT !.part = Front(@)], [it EXCEPT !.index = @ + 1]} ELSE {})

\* An item is spoiled or lost, or the file ends before it.
Hurt ==
  /\ doc.of = "bundle" /\ doc.hurt < MaxHurt
  /\ \E i \in DOMAIN doc.is :
       \/ \E it \in Spoiled(doc.is[i]) : doc' = BundleDoc(doc.was, ReplaceAt(doc.is, i, it), doc.hurt + 1)
       \/ doc' = BundleDoc(doc.was, RemoveAt(doc.is, i), doc.hurt + 1)
       \/ doc' = BundleDoc(doc.was, SubSeq(doc.is, 1, i - 1), doc.hurt + 1)

Without(f, k) == [x \in DOMAIN f \ {k} |-> f[x]]

\* A key of a map is dropped or its value changed; in a map inside as well.
Changed(f) ==
  UNION {{Without(f, k)} \cup {[f EXCEPT ![k] = v] : v \in Fillings} : k \in DOMAIN f}
Inside(f) ==
  UNION {CASE f[k].type = "map" -> {[f EXCEPT ![k] = Kinds!Map(m)] : m \in Changed(f[k].of)}
           [] f[k].type = "array" /\ f[k].of # <<>> ->
                IF f[k].of[1].type # "map" THEN {}
                ELSE {[f EXCEPT ![k] = Kinds!Array([f[k].of EXCEPT ![1] = Kinds!Map(m)])] :
                        m \in Changed(f[k].of[1].of)}
           [] OTHER -> {} : k \in DOMAIN f}

\* The body or the refs are not what the kind's author wrote.
Alter ==
  /\ doc.of = "kind" /\ doc.hurt < MaxHurt
  /\ \/ \E f \in Changed(doc.is.body) \cup Inside(doc.is.body) :
          doc' = KindDoc([doc.is EXCEPT !.body = f], doc.hurt + 1)
     \/ /\ doc.is.refs # <<>>
        /\ \/ doc' = KindDoc([doc.is EXCEPT !.refs = Tail(@)], doc.hurt + 1)
           \/ doc' = KindDoc([doc.is EXCEPT !.refs = ReplaceAt(@, 1, [type |-> "blob"])], doc.hurt + 1)
     \/ /\ Len(doc.is.refs) < 2
        /\ doc' = KindDoc([doc.is EXCEPT !.refs = Append(@, [type |-> "record"])], doc.hurt + 1)

Resized(m) == {Kinds!With(m, [x \in {k} |-> v]) : k \in {"width", "height"}, v \in Fillings}

\* The signature of one rendition is shown with other media, or with dimensions.
ShowOther ==
  /\ doc.of = "rendition" /\ doc.hurt < MaxHurt
  /\ \E shown \in {[doc.shown EXCEPT !.media = m] :
                     m \in Changed(doc.shown.media) \cup Resized(doc.shown.media)}
                    \cup {[doc.shown EXCEPT !.original = v] : v \in Fillings} :
       doc' = [doc EXCEPT !.shown = shown, !.hurt = @ + 1]

AppendEntry ==
  /\ doc.of = "feed" /\ Len(doc.entries) < MaxEntries
  /\ \E a \in Announces :
       doc' = [doc EXCEPT !.entries = Append(@, Pub!FeedAppend(Last(@), a, Len(@)))]

DocNext == ReadMore \/ Hurt \/ Alter \/ ShowOther \/ AppendEntry

DocSpec == DocInit /\ [][DocNext]_doc

-----------------------------------------------------------------------------
(* Properties *)

\* However a reader's calls cut a blob, its id, size and tree are those of the whole, or
\* an error; and each chunk a relay serves by range verifies with the proof it serves,
\* and nothing else verifies in its place.
BlobsVerify ==
  doc.of = "blob" =>
    LET b == doc.bytes
        r == Pub!Reader(b, doc.cuts, doc.broken)
        whole == Pub!FromBytes(b)
        n == Len(whole.leaves)
        chunk == Pub!Chunks(b)
        Served(i) == Pub!Serve(b, Pub!ByteRange(i * ChunkSize, (i + 1) * ChunkSize - 1))
    IN IF doc.broken THEN ~Pub!Build(r).ok /\ ~Pub!HashStream(r).ok
       ELSE /\ Pub!Build(r) = Pub!Done(whole)
            /\ Pub!HashStream(r) = Pub!Done([id |-> b, size |-> Len(b)])
            /\ \A i \in 0..n - 1 :
                 LET proof == Pub!ComputeChunkProof(b, i) IN
                 /\ proof.ok /\ Served(i) = [status |-> 206, body |-> chunk[i + 1]]
                 /\ \A j \in 0..n - 1 : \A c \in ToSet(chunk) :
                      Pub!VerifyChunk(Pub!Root(whole).is, n, j, c, proof.is)
                        <=> c = chunk[j + 1] /\ proof = Pub!Prove(whole, j)
            /\ ~Pub!ComputeChunkProof(b, n).ok

\* The tree of a publication has the shape of the native one, over addresses instead of
\* chunks, and a feed of appended entries verifies up to the head built for its last
\* one, and to no other part of it.
PublicationHolds ==
  /\ doc.of = "blob" =>
       LET chunks == Pub!Chunks(doc.bytes)
           m == Pub!PubManifest(doc.bytes)
           addresses == [i \in DOMAIN chunks |-> Pub!Address(chunks[i])]
       IN /\ m.ok <=> Pub!Root(Pub!FromBytes(doc.bytes)).ok
          /\ m.ok => m.is.id = Pub!Root(Pub!Tree(Pub!Leaves(addresses), 0)).is
  /\ doc.of = "feed" =>
       LET head == Pub!BuildFeedHead("author", Last(doc.entries), 0) IN
       \A i \in DOMAIN doc.entries :
         /\ Pub!VerifyFeedChainToHead(SubSeq(doc.entries, 1, i), head) <=> i = Len(doc.entries)
         /\ Pub!VerifyFeedChain(SubSeq(doc.entries, i, Len(doc.entries))) <=> i = 1

\* The items read before the stream stops or the end item is seen.
ReachedItems ==
  LET stops == {i \in DOMAIN doc.is : doc.is[i].tag \in {"end", Files!Unreadable.tag}}
  IN SubSeq(doc.is, 1, IF stops = {} THEN Len(doc.is) ELSE Min(stops) - 1)

\* The parts of a blob, from item i on, one after the other, and nothing pending before
\* them: no part precedes, or a final one of an earlier blob does.
WholeRun(items, i, b) ==
  LET run == Files!BlobItems(b) IN
  /\ i + Len(run) - 1 <= Len(items)
  /\ SubSeq(items, i, i + Len(run) - 1) = run
  /\ i = 1 \/ LET it == items[i - 1] IN
       \/ it.tag \in {"hdr", "r", "b"}
       \/ it.tag = "bp" /\ Len(it.part) < PartSize /\ it.index > 0

\* Whatever is spoiled, lost or cut off: every record and blob that is whole is handed
\* on, once, except a parted blob that follows one without a shorter last part;
\* and a bundle that gives less than was exported is reported or truncated.
SalvageIsComplete ==
  doc.of = "bundle" =>
    LET out == Files!Import(doc.is)
        items == ReachedItems
        reached == ToSet(items)
    IN /\ ToSet(out.records) = {it.record : it \in {x \in reached : x.tag = "r"}} \cap Valid
       /\ \A b \in ToSet(doc.was.blobs) :
            (IF Len(b) > Threshold THEN \E i \in DOMAIN items : WholeRun(items, i, b)
             ELSE Files!BItem(b, b) \in reached) => b \in ToSet(out.blobs)
       /\ IsInjective(out.records) /\ IsInjective(out.blobs)
       /\ ToSet(out.blobs) \subseteq ToSet(doc.was.blobs)
       /\ (ToSet(out.records) # ToSet(doc.was.records) \/ ToSet(out.blobs) # ToSet(doc.was.blobs))
            => out.reports > 0 \/ out.truncated

\* What a kind's wrapper parses and writes again is still valid, is written the same the
\* next time, and has lost nothing but what reads as absent.
RewriteIsFaithful ==
  doc.of = "kind" /\ Kinds!Parses(doc.is) =>
    LET w == Kinds!Rewritten(doc.is) IN
    /\ Kinds!Parses(w) /\ Kinds!Rewritten(w) = w
    /\ \A k \in (DOMAIN doc.is.body \cap DOMAIN Kinds!Registry[doc.is.kind].table) \ DOMAIN w.body :
         doc.is.body[k] \in {Kinds!Null, Kinds!Array(<<>>), Kinds!Bool(FALSE)}

\* A derivation signature binds the original and the blob, codec, dimensions and bitrate it
\* was made for, and no others verify: not a zero or a swapped dimension in the place of an
\* absent one.  Duration, size and chunk_root are not signed (verify_derivation).
DerivationBindsMedia ==
  doc.of = "rendition" =>
    LET statement == Kinds!Statement(doc.signed.original, doc.signed.media)
        sig == Kinds!Bytes(Kinds!Signature(doc.signed.media.produced_by.of[2], statement), 64)
        media == Kinds!With(doc.shown.media,
                   [derivation_sig |-> sig, produced_by |-> doc.signed.media.produced_by])
        told == {"blob", "codec", "width", "height", "bitrate"}
    IN Kinds!Fits(Kinds!Submap("Rendition"), Kinds!Map(media)) =>
         (Kinds!VerifyDerivation(media, doc.shown.original)
            => /\ doc.shown.original = doc.signed.original
               /\ told \cap DOMAIN media = told \cap DOMAIN doc.signed.media
               /\ \A k \in told \cap DOMAIN media : media[k] = doc.signed.media[k])

===============================================================================
