------------------------------- MODULE ChunkTree -------------------------------
(***************************************************************************)
(* Hashing a blob and its chunk tree, crates/evermesh-kernel/src/blob.rs,  *)
(* and what a relay serves of it, crates/evermesh-relay/src/blobs.rs.      *)
(*                                                                         *)
(* Hashing makes a new term of what is hashed, so two hashes are equal     *)
(* when what was hashed is.  A reader is the bytes it has, the positions   *)
(* no read call goes across, and whether it ends in an error.  A loop is a *)
(* recursive function of the number of its rounds; rounds after its end    *)
(* change nothing.                                                         *)
(***************************************************************************)
EXTENDS Naturals, Sequences, SequencesExt

CONSTANTS
  ChunkSize,      \* CHUNK_SIZE
  ReadBufSize     \* READ_BUF_SIZE

Leaf(chunk)       == [leaf |-> chunk]
Node(left, right) == [left |-> left, right |-> right]

NotDone == [ok |-> FALSE]
Done(v) == [ok |-> TRUE, is |-> v]

Least(a, b) == IF a < b THEN a ELSE b
CeilDiv(n, d) == (n + d - 1) \div d

-----------------------------------------------------------------------------
(* Reading *)

Reader(bytes, cuts, broken) == [bytes |-> bytes, cuts |-> cuts, broken |-> broken]

\* Where a read call after p bytes stops, with room up to limit; at the end it reads none.
ReadCall(r, p, limit) ==
  IF p = Len(r.bytes) THEN p
  ELSE Min({limit} \cup {c \in r.cuts \cup {Len(r.bytes)} : c > p})

\* Seeded defect: one read call for a buffer.
FillOnce(r, p, cap) ==
  IF r.broken /\ p = Len(r.bytes) THEN NotDone ELSE Done(ReadCall(r, p, p + cap))

\* fill_buf, over as many reads as it takes: where the buffer ends that begins after p
\* bytes.  Nothing less than full but a failure comes of a reader that breaks.
FillBuf(r, p, cap) ==
  LET filled[i \in 0..cap] == IF i = 0 THEN p ELSE ReadCall(r, filled[i-1], p + cap)
  IN IF r.broken /\ filled[cap] < p + cap THEN NotDone ELSE Done(filled[cap])

\* One round of the loop over buffers: it ends with one that is not full, or none.
NextBuffer(r, cap, s) ==
  LET b == FillBuf(r, s.at, cap) IN
  IF ~s.more THEN s
  ELSE IF ~b.ok THEN [s EXCEPT !.ok = FALSE, !.more = FALSE]
  ELSE IF b.is = s.at THEN [s EXCEPT !.more = FALSE]
  ELSE [s EXCEPT !.chunks = Append(@, SubSeq(r.bytes, s.at + 1, b.is)), !.at = b.is,
                 !.more = (b.is = s.at + cap)]

NoBuffers == [chunks |-> <<>>, at |-> 0, more |-> TRUE, ok |-> TRUE]

Buffers(r, cap) ==
  LET after[i \in 0..Len(r.bytes) + 1] ==
        IF i = 0 THEN NoBuffers ELSE NextBuffer(r, cap, after[i-1])
  IN after[Len(r.bytes) + 1]

\* hash_stream: the id is the bytes hashed.
HashStream(r) ==
  LET b == Buffers(r, ReadBufSize) IN
  IF b.ok THEN Done([id |-> SubSeq(r.bytes, 1, b.at), size |-> b.at]) ELSE NotDone

-----------------------------------------------------------------------------
(* The tree *)

Tree(leaves, size) == [leaves |-> leaves, size |-> size]

Leaves(chunks) == [i \in DOMAIN chunks |-> Leaf(chunks[i])]

\* ChunkTree::build
Build(r) ==
  LET b == Buffers(r, ChunkSize) IN
  IF b.ok THEN Done(Tree(Leaves(b.chunks), b.at)) ELSE NotDone

\* slice::chunks
Chunks(bytes) ==
  [i \in 1..CeilDiv(Len(bytes), ChunkSize) |->
     SubSeq(bytes, (i - 1) * ChunkSize + 1, Least(i * ChunkSize, Len(bytes)))]

\* ChunkTree::from_bytes
FromBytes(bytes) == Tree(Leaves(Chunks(bytes)), Len(bytes))

\* reduce_level: an unpaired last node moves up as it is.
ReduceLevel(level) ==
  [i \in 1..CeilDiv(Len(level), 2) |->
     IF 2 * i <= Len(level) THEN Node(level[2 * i - 1], level[2 * i]) ELSE level[2 * i - 1]]

\* The levels up to the top; a level of one is its own next.
Levels(leaves) ==
  LET level[k \in 0..Len(leaves)] == IF k = 0 THEN leaves ELSE ReduceLevel(level[k-1])
  IN level

\* ChunkTree::root, none for the empty blob
Top(leaves) == Levels(leaves)[Len(leaves)][1]
Root(tree) == IF tree.leaves = <<>> THEN NotDone ELSE Done(Top(tree.leaves))

\* cur ^ 1, from zero
Sibling(i) == IF i % 2 = 0 THEN i + 1 ELSE i - 1

\* One round of prove; in a level of one there is no sibling.
Ascend(level, s) ==
  [cur |-> s.cur \div 2,
   path |-> IF Sibling(s.cur) < Len(level) THEN Append(s.path, level[Sibling(s.cur) + 1])
            ELSE s.path]

Path(leaves, index) ==
  LET level == Levels(leaves)
      at[k \in 0..Len(leaves)] ==
        IF k = 0 THEN [cur |-> index, path |-> <<>>] ELSE Ascend(level[k-1], at[k-1])
  IN at[Len(leaves)].path

\* ChunkTree::prove
Prove(tree, index) ==
  IF index >= Len(tree.leaves) THEN NotDone ELSE Done(Path(tree.leaves, index))

Join(node, sib, cur) == IF cur % 2 = 0 THEN Node(node, sib) ELSE Node(sib, node)

\* One round of verify_chunk, which fails when the proof is too short.
Climb(proof, s) ==
  LET up == [s EXCEPT !.n = CeilDiv(@, 2), !.cur = @ \div 2] IN
  IF ~s.ok THEN s
  ELSE IF Sibling(s.cur) >= s.n THEN up
  ELSE IF s.used = Len(proof) THEN [s EXCEPT !.ok = FALSE]
  ELSE [up EXCEPT !.node = Join(@, proof[s.used + 1], s.cur), !.used = @ + 1]

\* verify_chunk: the proof must be used up.
VerifyChunk(root, n, index, chunk, proof) ==
  LET at[k \in 0..n] ==
        IF k = 0 THEN [node |-> Leaf(chunk), n |-> n, cur |-> index, used |-> 0, ok |-> TRUE]
        ELSE Climb(proof, at[k-1])
  IN index < n /\ at[n].ok /\ at[n].used = Len(proof) /\ at[n].node = root

-----------------------------------------------------------------------------
(* What the relay's sidecar serves *)

\* compute_chunk_proof
ComputeChunkProof(bytes, index) ==
  IF index >= CeilDiv(Len(bytes), ChunkSize) THEN NotDone ELSE Prove(FromBytes(bytes), index)

ByteRange(first, last) == [first |-> first, last |-> last]

LastByte(last, total) == Least(last, total - 1)

\* parse_range: `bytes=first-last`, either side may be missing.
ParseRange(asked, total) ==
  LET last == IF "last" \in DOMAIN asked THEN asked.last ELSE total - 1 IN
  IF "first" \notin DOMAIN asked
    THEN IF "last" \notin DOMAIN asked \/ last = 0 \/ total = 0 THEN NotDone
         ELSE Done(ByteRange(total - Least(last, total), total - 1))
  ELSE IF asked.first >= total \/ last < asked.first THEN NotDone
  ELSE Done(ByteRange(asked.first, LastByte(last, total)))

\* serve_blob with a Range header: the status and the bytes
Serve(bytes, asked) ==
  LET r == ParseRange(asked, Len(bytes)) IN
  IF r.ok THEN [status |-> 206, body |-> SubSeq(bytes, r.is.first + 1, r.is.last + 1)]
  ELSE [status |-> 416, body |-> <<>>]

-----------------------------------------------------------------------------
(* A second tree, of section 22 of DMTAP, computed by kotva-core: it hashes *)
(* the addresses of the chunks and splits at the largest power of two.     *)

Address(chunk) == [address |-> chunk]

\* split[h].top[i] is the tree over the leaves after i, as many as 2^h or are left.
SplitTop(leaves) ==
  LET n == Len(leaves)
      split[h \in 0..n] ==
        IF h = 0 THEN [width |-> 1, top |-> [i \in 0..n-1 |-> leaves[i+1]]]
        ELSE LET half == split[h-1] IN
          [width |-> 2 * half.width,
           top |-> [i \in 0..n-1 |->
                      IF i + half.width >= n THEN half.top[i]
                      ELSE Node(half.top[i], half.top[i + half.width])]]
  IN split[n].top[0]

\* pub_manifest_for_bytes: none for the empty blob
PubManifest(bytes) ==
  LET chunks == Chunks(bytes) IN
  IF chunks = <<>> THEN NotDone
  ELSE Done([size |-> Len(bytes), chunk_size |-> ChunkSize,
             id |-> SplitTop([i \in DOMAIN chunks |-> Leaf(Address(chunks[i]))])])

===============================================================================
