--------------------------------- MODULE Bundle ---------------------------------
(***************************************************************************)
(* Bundles, crates/evermesh-kernel/src/bundle.rs: a file of records and    *)
(* blobs that an exporter writes and an importer salvages item by item.    *)
(*                                                                         *)
(* An item is its tag and elements, or what is wrong with it.  A blob's id *)
(* is its content (hashing is injective); a record is a name, and one that *)
(* does not verify is outside Valid.                                       *)
(***************************************************************************)
EXTENDS Naturals, Sequences, SequencesExt

CONSTANTS
  PartSize,     \* CHUNK_SIZE
  Threshold,    \* PART_SPLIT_THRESHOLD
  Valid         \* the records that read and verify

Hdr == [tag |-> "hdr"]
RItem(r) == [tag |-> "r", record |-> r]
BItem(id, content) == [tag |-> "b", id |-> id, content |-> content]
BpItem(id, index, part) == [tag |-> "bp", id |-> id, index |-> index, part |-> part]
EndItem(r, b) == [tag |-> "end", records |-> r, blobs |-> b]
\* An item that is not canonical CBOR, or no array.
Unusable == [tag |-> "unusable"]
\* An array with this tag whose other elements are missing or of the wrong type.
Malformed(t) == [tag |-> "malformed", of |-> t]
\* The stream ends or breaks inside an item.
Unreadable == [tag |-> "unreadable"]

-----------------------------------------------------------------------------
(* Export *)

Parts(content) ==
  [i \in 1..(Len(content) + PartSize - 1) \div PartSize |->
     SubSeq(content, (i - 1) * PartSize + 1,
            IF i * PartSize < Len(content) THEN i * PartSize ELSE Len(content))]

BlobItems(blob) ==
  IF Len(blob) > Threshold
    THEN LET p == Parts(blob) IN [i \in DOMAIN p |-> BpItem(blob, i - 1, p[i])]
    ELSE <<BItem(blob, blob)>>

\* The blob items of Bundle::export, of blobs that have the id they are given with: no
\* other is written.  A blob that was written before is passed over.
Written(blobs) ==
  LET written[i \in 0..Len(blobs)] ==
        IF i = 0 THEN <<>>
        ELSE IF \E j \in 1..i-1 : blobs[j] = blobs[i] THEN written[i-1]
        ELSE written[i-1] \o BlobItems(blobs[i])
  IN written[Len(blobs)]

\* Bundle::export
Export(records, blobs) ==
  <<Hdr>> \o [i \in DOMAIN records |-> RItem(records[i])] \o Written(blobs)
    \o <<EndItem(Len(records), Cardinality(ToSet(blobs)))>>

-----------------------------------------------------------------------------
(* Import: the state is what was handed on, the parts of a blob not complete *)
(* yet, and how many reports were made                                      *)

NoParts == [next |-> 0]     \* pending_parts is None

Fresh ==
  [records |-> <<>>, blobs |-> <<>>, pending |-> NoParts, first |-> TRUE,
   ended |-> FALSE, stopped |-> FALSE, reports |-> 0]

Report(s) == [s EXCEPT !.reports = @ + 1]

\* on_record and on_blob are called once for each id.
HandRecord(s, r) == IF r \in ToSet(s.records) THEN s ELSE [s EXCEPT !.records = Append(@, r)]
HandBlob(s, b) == IF b \in ToSet(s.blobs) THEN s ELSE [s EXCEPT !.blobs = Append(@, b)]

\* flush_parts
Flush(s) ==
  IF s.pending = NoParts THEN s
  ELSE LET t == [s EXCEPT !.pending = NoParts] IN
    IF s.pending.content = s.pending.id THEN HandBlob(t, s.pending.id) ELSE Report(t)

Pending(id, next, content) == [id |-> id, next |-> next, content |-> content]

\* A part shorter than PartSize is the final one.
Take(s, it, content) ==
  LET t == [s EXCEPT !.pending = Pending(it.id, it.index + 1, content)]
  IN IF Len(it.part) < PartSize THEN Flush(t) ELSE t

\* Seeded defect: a part of another blob ends the import of the pending one in silence.
AddPartQuietly(s, it) ==
  IF s.pending = NoParts
    THEN IF it.index = 0 THEN Take(s, it, it.part) ELSE Report(s)
  ELSE IF s.pending.id = it.id /\ s.pending.next = it.index
    THEN Take(s, it, s.pending.content \o it.part)
  ELSE [s EXCEPT !.pending = NoParts]

\* A part that does not continue the pending blob closes it, and is dropped itself.
AddPart(s, it) ==
  IF s.pending = NoParts
    THEN IF it.index = 0 THEN Take(s, it, it.part) ELSE Report(s)
  ELSE IF s.pending.id = it.id /\ s.pending.next = it.index
    THEN Take(s, it, s.pending.content \o it.part)
  ELSE Flush(Report(s))

AddBlob(s, it) == IF it.content = it.id THEN HandBlob(s, it.id) ELSE Report(s)
AddRecord(s, it) == IF it.record \in Valid THEN HandRecord(s, it.record) ELSE Report(s)

Count(s, it) ==
  LET t == [s EXCEPT !.ended = TRUE] IN
  IF it.records = Len(t.records) /\ it.blobs = Len(t.blobs) THEN t ELSE Report(t)

\* Malformed or not, a record, blob or end item closes a pending blob first.
AddMalformed(s, it) ==
  CASE it.of \in {"r", "b"} -> Report(Flush(s))
    [] it.of = "end"        -> Report([Flush(s) EXCEPT !.ended = TRUE])
    [] OTHER                -> Report(s)

\* One item by its tag.  Only record, blob and end items close a pending blob.
ByTag(s, it) ==
  CASE it.tag = "r"   -> AddRecord(Flush(s), it)
    [] it.tag = "b"   -> AddBlob(Flush(s), it)
    [] it.tag = "bp"  -> AddPart(s, it)
    [] it.tag = "end" -> Count(Flush(s), it)
    [] it.tag = "malformed" -> AddMalformed(s, it)
    [] OTHER          -> Report(s)       \* a second hdr, an unknown tag

\* The body of the loop.  What comes after the end is reported; the first item is
\* handled as any other when it is not the header.
ImportItem(s, it) ==
  IF s.stopped THEN s
  ELSE IF it = Unreadable THEN [Report(s) EXCEPT !.stopped = TRUE]
  ELSE IF s.ended \/ it = Unusable THEN Report(s)
  ELSE IF ~s.first THEN ByTag(s, it)
  ELSE LET t == [s EXCEPT !.first = FALSE]
       IN IF it.tag = "hdr" THEN t ELSE ByTag(Report(t), it)

\* import_streaming and Bundle::import: truncated when no end item was read.
Import(items) ==
  LET after[i \in 0..Len(items)] ==
        IF i = 0 THEN Fresh ELSE ImportItem(after[i-1], items[i])
      s == Flush(after[Len(items)])
  IN [records |-> s.records, blobs |-> s.blobs, reports |-> s.reports, truncated |-> ~s.ended]

===============================================================================
