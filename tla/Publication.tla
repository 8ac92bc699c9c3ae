------------------------------ MODULE Publication ------------------------------
(***************************************************************************)
(* The bridge from records and blobs to DMTAP publications,                *)
(* crates/evermesh-kernel/src/dmtap_pub.rs.  kotva-core, which hashes,     *)
(* signs and checks feeds, is not in this repository: its part here is     *)
(* what the bridge and its tests use of it.                                *)
(***************************************************************************)
EXTENDS ChunkTree

CONSTANTS
  DigestSize,   \* 32
  Prefix        \* MH_BLAKE3_256

\* content_id_from_digest, blob_id_to_content_id and record_id_to_content_id
ContentId(digest) == <<Prefix>> \o digest

\* digest_from_content_id, content_id_to_blob_id: nothing but such a multihash.
DigestOf(id) ==
  IF Len(id) = DigestSize + 1 /\ id[1] = Prefix THEN Done(Tail(id)) ELSE NotDone

\* An object signed by the key of its publisher; kotva-core signs and checks.
Signed(kp, o) == [by |-> kp, is |-> o]

\* meta_for_record
MetaForRecord(record) == [kind |-> record.kind, record |-> ContentId(record.id)]

\* build_announce
BuildAnnounce(kp, roots, meta, ts, supersedes) ==
  Signed(kp, [publisher |-> kp, roots |-> roots, meta |-> meta, ts |-> ts, supersedes |-> supersedes])

\* announce_for_record_blob: none for an empty blob.
AnnounceForRecordBlob(kp, record, bytes, ts) ==
  LET m == PubManifest(bytes) IN
  IF m.ok THEN Done([manifest |-> m.is,
                     announce |-> BuildAnnounce(kp, <<m.is.id>>, MetaForRecord(record), ts, NotDone)])
  ELSE NotDone

\* announce_id and entry_id leave the signature out.
AnnounceId(a) == [announce |-> a.is]
EntryId(e) == [entry |-> e]

FeedEntry(seq, announce, prev, ts) == [seq |-> seq, announce |-> announce, prev |-> prev, ts |-> ts]

\* feed_genesis
FeedGenesis(announce, ts) == FeedEntry(0, AnnounceId(announce), NotDone, ts)

\* Seeded defect: the new entry takes its predecessor's own link.
FeedAppendToPrev(prev, announce, ts) == FeedEntry(prev.seq + 1, AnnounceId(announce), prev.prev, ts)

\* feed_append
FeedAppend(prev, announce, ts) ==
  FeedEntry(prev.seq + 1, AnnounceId(announce), Done(EntryId(prev)), ts)

\* build_feed_head
BuildFeedHead(kp, tip, ts) == Signed(kp, [publisher |-> kp, seq |-> tip.seq, tip |-> EntryId(tip), ts |-> ts])

\* verify_feed_chain, of entries from the genesis on
VerifyFeedChain(entries) ==
  /\ entries # <<>> /\ entries[1].prev = NotDone
  /\ \A i \in DOMAIN entries : entries[i].seq = i - 1
  /\ \A i \in DOMAIN entries \ {1} : entries[i].prev = Done(EntryId(entries[i - 1]))

\* verify_feed_chain_to_head
VerifyFeedChainToHead(entries, head) ==
  /\ VerifyFeedChain(entries)
  /\ head.by = head.is.publisher
  /\ head.is.seq = Last(entries).seq /\ head.is.tip = EntryId(Last(entries))

===============================================================================
