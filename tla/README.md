# TLA+ models of evermesh

Evermesh publishes signed records (video manifests, comments, claims, key
rotations) through relays. A record is known by the hash of its content; relays
store and forward records, gateways follow relays and index what they receive
for people, nodes pin blobs for playback offline, and a kernel library that all of
them share encodes and checks records, blobs, bundles and identities. This directory holds TLA+ models of
the parts whose correctness depends on interleaving, ordering, failure or the exact
form of bytes, the TLC runs that check them on small instances, and TLAPS proofs of
the central properties.

    tlc -config MCRelay.cfg MCRelay        # a run of the table below
    tlapm Relay_proofs.tla                 # the proofs of a module

`PROJECT.json` lists the components, runs, mutants, theorems, hazards, and for
every definition the lines of source it models.

## Inventory

| part | state | operations | interacts with |
|---|---|---|---|
| relay store (`store.rs`, `filter.rs`) | tables `records`, `refs`, the AUTOINCREMENT counter | `insert_record`, `query`, `prune_expired`, `max_seq` | sync, gossip: blocking calls under one mutex |
| relay sync (`sync.rs`, `lib.rs`, `rate.rs`, `pow.rs`) | per connection: subscriptions, broadcast receiver; shared: broadcast channel, rate buckets | `REQ`, `CLOSE`, `PUB`, live delivery | store, gossip (through the channel), clients |
| relay gossip (`gossip.rs`) | one task per peer, a socket each | connect, pull (`REC` -> insert), push (`PUB`) | store, channel, other relays |
| relay blobs (`blobs.rs`) | files by hash | upload, ranged download, chunk proof | clients, gateways |
| kernel (`identity.rs`, `record.rs`, `codec.rs`, `blob.rs`, `bundle.rs`, `dmtap_pub.rs`, `kinds/`) | none: functions | verify a rotation chain, a record, a chunk proof; encode, parse, export, import | everything |
| gateway relay client (`relay.ts`) | cursor per relay (persisted), pending publishes and outbox (memory) | subscribe, handle frames, publish | relays, ingest |
| gateway ingest and index (`ingest.ts`, `ingest-kinds.ts`) | SQLite tables by kind, `records`, `refs` | `processRecord`, retract, supersede | relay client, policy, CSAM gate |
| gateway policy (`policy.ts`) | denylist, moderation feeds, log | reload, apply feed batch, notices | ingest, API |
| gateway upload and media (`upload.ts`, `media.ts`, `csam.ts`, `blobstore.ts`) | uploads, blobs with checked/match flags, files | pipeline, serving gate | ingest, custody |
| gateway custody and sessions (`custody.ts`, `gateway-identity.ts`, `session.ts`) | accounts with encrypted keys, sessions | register, sign, export | relay client, ingest |
| node (`main.rs`, `pinning.rs`, `gateway_client.rs`, `verify.rs`) | tables `pins`, `manifest_cache`, `budget`; a directory of blob files | pin, unpin, fetch and verify, set budget | gateways |
| front ends (`packages/ui`, `apps/*web`) | play queue, requests under way | next/previous, fetch | gateway API |

What is hard in each of them, and what makes it correct:

* **Relay.** Connections are tokio tasks that interleave at their awaits: a
  record may be inserted by one while another is between its subscription, its
  query and its EOSE. Receivers of the broadcast channel lag, sockets fill,
  peers leave, the process stops between commit, acknowledgement and
  announcement. Correct means: acknowledged records are stored; each is stored
  and announced once, under an ever larger sequence; no wanted record falls
  between backfill and live delivery without a cause the code knows of.
* **Identity.** Rotations arrive in any order, from thieves too; the answer
  depends on what was seen and when. Correct means: only keys in force move an
  identity, verifiers converge, and the recovery key prevails within the
  contest window.
* **Gateway following a relay.** Frames are handled concurrently, the cursor
  survives and the rest does not. Correct means: nothing disappears below the
  cursor without a cause, nothing above it waits for ever.
* **Gateway index.** One record from several relays at once, retractions before
  their targets, crashes between two tables. Correct means: the index is a
  function of the records, and what is retracted or denied is not shown.
* **Relays that gossip.** Both ends of a connection write in the task that reads,
  and a receiver subscribes, lags and starts again while records are accepted.
  Correct means: a record that does not reach a peer has a known cause, a cycle of
  peers announces it once, and gossip comes to rest.
* **Formats.** A record is its bytes: two encodings of one value are two ids, and two
  readers that disagree let through what the other refuses. Streams give short
  reads, files are cut off. Correct means: what is accepted has one encoding and one
  meaning, and what is damaged costs no more than itself.
* **Node.** A blob is downloaded into the file that bears its name and checked
  afterwards, while other commands pin and unpin it. Correct means: what the
  player gets is verified, and what is pinned keeps its file.
* **Publishing.** One pending entry per record, a timer per call, an outbox while the
  socket is closed. Correct means: an acceptance is the relay's, nothing is sent more
  often than it was published, and every call returns.
* **Uploads.** A pipeline of external programs and awaits, interleaved with others of
  the same bytes, that may fail or stop at any step. Correct means: what is published
  is whole and passes the gate, what is listed is not stored, and no upload hangs.
* **Accounts.** A handle is looked up, and taken two awaits later; a password is tried
  at a limited rate. Correct means: a handle keeps its identity, an account has its
  genesis record, and the limit holds in every window.
* **Blob sidecar.** Uploads of one blob rename over each other while it is read.
  Correct means: what was acknowledged stays, and what is served is the blob.

## Modules

| module | models | extends |
|---|---|---|
| `RelayStore` | the store's tables and operations, the filter's two readings | |
| `Retention` | the store under inserts, prunes and a moving clock | `RelayStore` |
| `Relay` | `/sync`: one task per connection over the store | `RelayStore` |
| `AcceptedLog` | what a relay promises, without connections; `Relay` implements it | |
| `RelayCursor` | a gateway's `RelayClient` subscription and one relay | `RelayStore` |
| `RotationChain` | `Identity::verify_chain` and a verifier that receives rotations | |
| `PolicyFeed` | a gateway's policy file, denylist and compliance feeds | |
| `GatewayIngest` | a gateway's `processRecord` and its index tables, under that policy | `PolicyFeed` |
| `RelayPublish` | the other half of `RelayClient`: publishing, its timers and its outbox | |
| `UploadPipeline` | a gateway's uploads, blob store and serving gate | |
| `Accounts` | a gateway's custodied identities and their export | |
| `BlobSidecar` | a relay's blob uploads and downloads | |
| `Federation` | relays that gossip: the peer task, the task at its other end, the channel between | |
| `Node` | the node's commands over the pin store and the blobs directory | |
| `Codec` | canonical CBOR and its JSON form | |
| `Envelope` | a record's CBOR and JSON forms, id and signature | `Codec` |
| `FrameCodec` | the relay's own CBOR reader, its frames and filters | `Codec` |
| `RecordKinds` | the tables, parsers and writers of the record kinds | |
| `ChunkTree` | stream hashing, the chunk tree, ranges and chunk proofs | |
| `Publication` | the DMTAP adapter: announces and the feed chain | `ChunkTree` |
| `Bundle` | a bundle's export and streaming import, item by item | |
| `BundleReader` | where an item of a bundle ends in its bytes | `Codec` |
| `Documents` | blobs, bundles, records of every kind, renditions and feeds, made, damaged and read | `RecordKinds`, `Publication`, `Bundle` |
| `Kernel` | with them, typed bytes, values, envelopes and frames | `Documents`, `Envelope`, `FrameCodec`, `BundleReader` |
| `Parts` | `Accounts`, `RelayPublish`, `UploadPipeline` and `BlobSidecar`, one per behaviour | `Accounts`; instances of the others |
| `Retention_proofs`, `Relay_proofs`, `RelayCursor_proofs`, `Kernel_proofs`, `GatewayIngest_proofs`, `Node_proofs`, `Federation_proofs`, `Parts_proofs` | theorems | the module they prove about; `Kernel_proofs` about `RotationChain` and `Documents` |
| other `MC*` | constants for TLC | the module they instantiate |

Operators that begin with "Seeded defect" in their comment are not part of any
specification: each is a plausible bug in the definition that follows it, and
`PROJECT.json` records which property catches it.

### RelayStore and Retention

`rows` is the `records` table with its `refs` folded into the constant `RefsOf`;
`lastSeq` is SQLite's `sqlite_sequence` and `assigned` remembers every pair it
handed out. Each public operation of `Store` holds the mutex from beginning to
end and is one step; the DELETEs of `prune_expired` commit one by one, so a failing one
or a crash leaves the prune half done (`PruneStops`). A kind's integer is clamped by `Sql` as `u64_to_sql` clamps
it, with `MaxInt` in place of 2^63 - 1: the instance has a record of kind
`MaxInt` and a filter naming a larger kind. `Store::query` and `Filter::matches`
are modelled separately because the code writes the filter twice;
`BackfillAgreesWithLive` compares them for the kinds a column can hold (above
that the store matches all clamped kinds alike, and `Filter::matches` does not).

Nothing the relay binary runs calls `prune_expired`; `Retention` is the store as
a library, and `Relay` does not prune.

### Relay

A connection is `up`, its client frames are in `inbox`, its task stands at
`task` (the `select!`, the awaited query, the awaited insert, or just before
`accepted_tx.send`) and has the frames of `todo` to write before it goes on. A
handler runs without interruption from one await to the next, so an action is
the code between two awaits:

| code | actions |
|---|---|
| `handle_socket`: subscribe, select, read error or close | `Connect`, `Idle`, `EndTask` |
| `handle_req` up to the blocking query; after it | `HandleReq`; `QueryDone`, `QueryFails` |
| `handle_pub` up to the blocking insert; after it | `RefusePub`, `AdmitPub`; `InsertDone`, `InsertFails` |
| `send_frame` (waits for room, ignores errors) | `WriteFrame` |
| `accepted_tx.send` after the OK has been written | `Announce` |
| `accepted_rx.recv`: a record, or `Lagged` | `DeliverLive`, `Lag` |
| `RateLimiter::check`, `refill_tokens` | `HasToken`, `TakeToken`, `Refill` |
| the process stops and starts | `Restart` |

`bcast` is everything ever sent to the channel and `pos` how far a receiver got;
the channel keeps the last `Capacity` of them. `missed` is a history of what the
relay decided to leave out: rows beyond the limit, rows of a failed query,
records skipped by `Lagged`. `NoSilentGap` says these are the only holes.

### RelayCursor

The relay appears as `Relay` does to one connection: a backfill in descending
order, then announced records, with lag, failed queries and restarts. The
gateway's handlers run concurrently, each standing before `ingest` or before
`setSince`. `lost` records each record that was dropped and why the model let it
be; `GapsHaveCauses` says everything at or below the cursor is indexed, refused,
in progress, on its way or left behind. `cut` holds what a broken connection or a stopped
process left undone. The next REQ asks for all above the cursor, so then only what lies
below it is lost: `ConnectionCarriesAll` says that an open connection carries everything
else, and a break by itself is no excuse there.

### RotationChain

A rotation replaces the whole state of the chain, so the state at a point of the
walk is the rotation applied last. `VerifyChain(S, obs, t)` is the function of
the source; the verifier around it receives the rotations in any order, notes
when it saw each or does not (`observed_at` answers `None`), and its clock moves
both ways. Ids are numbers because only their order is used. TLC's instance is
a contested identity: a genesis with a recovery key and a window, a thief who
rotates twice in a row and once more with the lowest id of all, the owner's
recovery rotation, a later one that replaces the recovery key, and a rotation
signed with the replaced key.

### PolicyFeed and GatewayIngest

A run of `processRecord` is one entry of `run`: `Receive` is the duplicate check,
`Refuse` and `AwaitMatch` the policy check with the awaits that follow it for a
manifest (`manifestPassesCsamGate`), `Match` a blob that is on a list, `Reject` the
checks of a supersede, a retraction or a reply, and `Index` the rest: the dispatch
on the kind (`Effect`) and `storeRecordRow` (`Store`). The code between two awaits
is synchronous, so only a crash cuts it: `StopBeforeStore` is the process stopping
after a table was written and before the record was. The run of a notice submitted
to the gateway itself goes on to `Enforce`, which is `denylistForNotice`.

`index` holds the rows of all tables keyed by record id, with the body shown, the
record it belongs to (`subject`: a channel, a commented or claimed manifest) and
the `retracted` flag; `reactions` and `profiles` are keyed otherwise and compare
`received_at`. A run reads the clock as any value, since a clock may be set back.
`withdrawn` is a history, and so is `overtaken`: the runs that were under way when another
run stored the same record. Only these and new edits may show again what was retracted
(`RetractionStands`). The instance has a manifest with its author's edit and
retraction and a stranger's retraction, two reactions of one person, two batches
of a feed, and a notice; `MaxStored` bounds the records of one behaviour. The policy file
either subscribes to the feed or blocks the person.

Two simplifications: hashes of records and of blobs are never equal, so the
denylist has no scope column; and a run at `decide` may wait as long as it likes,
though it waits for promises that are ready.

### Federation

A link `<<p, q>>` is relay p configured with peer q. `peer` is the task
`run_peer_once` at p and `socket` the `handle_socket` task at q; `up` and `down` are
the frames on the wire, at most `Room` each way. A task that has a frame to write
(`out`) does nothing else until it is written: that is what `write.send(..).await`
inside a `select!` branch does. `announced` is the broadcast channel of a relay,
with all it ever held; a receiver more than `Capacity` behind is skipped forward
(`PeerLags`, `SocketLags`). A record is stored by one step and announced by a later
one, whoever stored it: a client's task (`pending`), a peer task or a socket task
(`due`), and the connection may be lost in between.

| code | actions |
|---|---|
| `run_peer_forever`, connect, backoff | `Connect` |
| `write.send(REQ)`, then `subscribe()`; later writes | `PeerWrites` |
| `accepted_rx.recv()`: a record, or `Lagged` | `PeerPushes`, `PeerLags` |
| `ingest_from_peer`, its insert and its broadcast; the insert fails | `PeerReads`, `PeerAnnounces`; `IngestFails` |
| `handle_req`, with the rows of its query; with none when the query fails or its thread panics | `SocketServesReq`; `SocketQueryFails` |
| `handle_pub`, `send_frame`, `deliver_live` at the other end | `SocketServesPub`, `SocketRefusesPub`, `SocketWrites`, `SocketAnnounces`, `SocketDelivers`, `SocketLags` |
| a client's PUB | `Publish`, `ClientAnnounces` |
| a connection or a process ends | `Break`, `Restart` |

`unpushed` and `unpulled` are histories: the records the link will not carry, with
the reason the action that adds them stands for: the subscription came later, the
backfill's limit, a failed query (answered with an EOSE as if there were no rows), `Lagged`,
a refused or failed insert. `NothingLostSilently` says there is no other while the link
is up. `Wedged` names the state in which both ends write to full sockets.

### Node

A pin command is a task that stands at one of its awaits; commands that are not
`async` run on a thread of their own, so their statements interleave with all
others (`UnpinRow`, then `UnpinFile`). `file` maps a blob's name to the chunks under
it: `CreateFile` truncates it, `WriteChunk` writes at the writer's own offset (two
writers of one file overwrite each other), `Reject` and `UnpinFile` remove the name,
and a writer that has the file open goes on writing to a file nobody can find
(`named`). A gateway may answer anything: each chunk is `Good` or `Bad`, and a
stream ends where it wants. `Hashes` stands for the whole-file hash and `RootOf` for
what a manifest says of its chunk root. A crash keeps files and database.
`abandoned`, `contested` and `unlisted` are histories of the cases in which the
properties promise less; the text of each property names them. Commands that only
read a gateway (`fetch_catalog`, `fetch_playlist`) are left out; seeding and
eviction are not in the code (`pinning.rs`: "TODO(future)").

### RelayPublish

`calls` are the calls of `RelayClient.publish`, each waiting or with the answer it was
given; `pending` holds, per record, the call whose resolver the entry has now. The
relay is a queue of frames and answers.

| code | actions |
|---|---|
| `publish` on an open socket; on a closed one | `PublishNow`; `PublishLater` |
| the `open` event: REQ, then the outbox through `publish` | `Connect` |
| a call's timer, which deletes the entry of its record whose ever that is | `Timeout` |
| `handleFrame`, OK | `ReceiveOK` |
| the relay's `handle_pub` | `RelayAnswers` |
| the socket closes; the process stops | `Disconnect`; `Stop` |

### UploadPipeline

`task` is where each upload stands (`at`), the artifact it works on (`of`: the original,
a cover, a thumbnail, a rendition) and what its manifest will name. The code between two
awaits is one action:

| code | actions |
|---|---|
| `POST /api/upload` | `Accept` |
| `transcodeRendition`, the thumbnail; its failure | `Make`; `MakeFails` |
| `checkCsam`: passes; the original or another artifact matches | `CheckPasses`; `Reject`, `Drop` |
| `hashAndStore`: hash, `commitBlob`, `recordBlob`, `markBlobChecked` | `Store` (`CommitSegment` for a segment) |
| probing, signing a derivation | `Probe`, `Sign` |
| `packageHls`: ffmpeg writes segments, the directory is read | `OpenSegment`, `CloseSegment`, `ReadDirectory` |
| the segments are hashed and stored one by one | `HashSegment`, `CommitSegment`, `CommitFails`, `Packaged` |
| sign and index the manifest, write playlists, publish, update the row | `Publish`, `PublishFails` |
| the `catch` of an artifact; of the whole | `Skip`, `CommitFails`; `OriginalFails`, `UpdateFails`, `PublishFails` |
| `ensureServable` | `Serve` |
| the process stops, also between two statements | `Crash`, `CrashStoring`, `CrashPublishing` |

`hls` are the segment directories. A directory is named after the rendition's blob, so
uploads of the same bytes share it; `contested` remembers the renditions that two
packaged at one time, for which the properties promise less. A file that is moved while
ffmpeg has it open is completed at its new place (`Follow`).

A statement of `hashAndStore` that throws leaves what the ones before it did: a file without
a row, or a row that is not marked (`StoredPart`, `Unmarked`). An update of the upload's row
that throws between two stages ends in the pipeline's `catch` (`UpdateFails`). When the update
in the `catch` itself throws, nobody handles the promise (`api/upload.ts:85`) and Node, from
version 15 on, ends the process: that is a `Crash`. `ensureServable` also asks the policy;
a refusal changes nothing and is no step of the model.

### Accounts

A registration is `Register` (the handle is looked up, a key made, the password hashed),
`Hashed` (the INSERT, which fails when the handle has been taken since) and `Indexed` or
`IndexFails` (the genesis record). `Ensure` is `GatewayIdentityService.ensure`, which runs
before the server listens. `Export` counts and writes down the attempt, `Verified` is the
answer. `torn` remembers the accounts whose registration failed or was stopped after
their row.

### BlobSidecar

`Put`, `Chunk`, `BodyEnds`, `Exists` and `Persist` are the awaits of
`receive_and_store_blob`; `Get` and `ReadFile` those of `serve_blob`, which reads the length
first. `ClientLeaves` drops a handler wherever it waits, except that a rename given to
the blocking pool is still done (`persist_alone`). Chunk proofs and ranges are in
`ChunkTree`.

### The kernel's formats

The modules from `Codec` to `BundleReader` are functions, translated one by one; `Documents`
and `Kernel` give them a state, one document on its way from a writer to a reader. `Documents`
has those whose form is a loop, over chunks, items, fields or entries, and no RECURSIVE operator,
so that it can be proved about; `Kernel` adds those that nest. A document
starts as typed bytes, a composed value, a draft of a record, a frame, a blob
that a reader reads piece by piece, an exported bundle, a record of some kind, a
rendition, or a feed. Actions compose it, encode or sign it, and damage it: a byte
changed, lost or added, an item of a bundle spoiled or lost, a field of a body
dropped or replaced. The invariants then ask every reader at once.

`Codec` works on bytes: heads, widths, lengths, order and depth are exactly those
of `codec.rs`, with integers as digit strings base 256, so that the 64-bit limits
are real. Its JSON form is over tokens (a string is bytes with its prefix, a number
its digits); JSON's own lexing is left out. `FrameCodec` is the relay's second CBOR
implementation, read from `frames.rs` and not from the kernel. In `Envelope` an id
is the canonical encoding of the record without its signature (the digest itself is
left out), a signature is a checksum of that, and ids and hashes inside a record have
`HashSize` bytes, one in the instance. In
`ChunkTree` a hash is a term, so two hashes are equal only if what is hashed is.
`FillBuf` is the loop over short reads. A loop of the code is a recursive function of
the number of its rounds, and a round after the loop's end changes nothing. `RecordKinds` has one table per kind that says
which keys it has, what each may hold and which are required, and the checks between
fields; a text is a name and a length. `Bundle` imports an item at a time, as
`import_streaming` does.

## Runs

| run | states | what it shows |
|---|---|---|
| `retention` | 67,409 | sequences never reused, exact pruning, filters agree |
| `relay` | 768,819 | acknowledged is stored; no silent gap; `Relay` implements `AcceptedLog`, so a record is announced at most once |
| `relay_live` | 56,720 | under fairness owed records are delivered |
| `chain` | 373,248 | only key holders rotate, convergence, theft recovery |
| `chain_recovery` | - | finding 1 |
| `cursor` | 37,554 | causes for gaps, an open connection carries all else, nothing waits for ever |
| `cursor_gap` | - | finding 2 |
| `ingest` | 756,294 | rows are the author's, the last reaction counts, a crash loses no row, retractions stand, feed batches are applied once |
| `kernel` | 140,933 | one encoding per value, readers agree but for named limits, blobs verify, bundles give all that is whole, kinds are rewritten faithfully |
| `node` | 723,384 | the player gets verified bytes, a pin keeps its file and is listed |
| `federation` | 171,806 | what gossip leaves out has a cause, cycles are harmless, gossip comes to rest |
| `parts` | 267,610 | accounts are whole and nobody else's, the export rate holds; acceptances are true, publishes arrive and return; what is published is playable, nothing listed is stored but as a segment, uploads end; the sidecar keeps and serves what it acknowledged |

Bounds. The relay runs have two connections (a race needs two; a third adds only
another copy of one), two good records and a forgery, buffers and channel of one
frame, so that a full socket and a lagging receiver are reached at once, and
`MaxSeq` equal to the number of records, which no behaviour exceeds. The
subscriber's filters have a limit of one and an id condition. The retention run
hands out five sequences over three records, so records leave and come back, and
has windows of 0, 1 and 2 days around a clock of 4. The cursor runs have two
records, the smallest backfill with an order, and two breaks. The chain run has
a window of 1 and a clock of 0..3, so each rotation can be before, at and after
finality. The ingest run has two calls under way at a time, so that a record can
overlap itself or its retraction, and clock values 0 and 1, and stores at most
`MaxStored` records in a behaviour, which is enough for an edit, a retraction and a
late second copy. The kernel run types up to four bytes out of an alphabet that has a
head of every major type and width, wraps a value once, damages a document once or
(bundles, kinds, renditions) twice, cuts parts, chunks and read buffers at two or
three bytes so that every alignment occurs, and reads blobs of up to nine bytes, five
chunks, which is the first odd level above the leaves. Lengths that only differ from
these by repetition are not tried. The bundle reader's 64 MiB are `MaxString`, four bytes,
so that strings of that length and above it occur. The node run has two pin commands at a time over
two manifests that share a medium, one with a thumbnail, blobs of two chunks and a
crash; `MaxPins` of 3 was checked once (17.5 million states). The federation run
has one link, which is a cycle already because what is pushed comes back, two
records, sockets of one frame, a channel of one record and two breaks, failed calls and
queries counted among them; three
records were checked once. Deadlock is checked except in the cursor, node, kernel,
federation and parts runs, where the bounds on records, breaks, commands and documents
end the behaviour.

The run `parts` checks four modules that share no state; `active` says which of them
a behaviour belongs to, and the others stand still, so the states are the sum and not
the product of theirs: 66,210 of accounts (two registrations of one handle and the
gateway's own, two exports, a limit of one in a window of 2 on a clock of 0..2, a stop),
5,274 of publishing (two publishes of two records, so that one record can be published
twice or two records once, a break or stop), 11,467 of one upload (a film, a song or a
listed file, with no cover, a good or a listed one, a failing statement or a crash anywhere;
`OnlyUpload` says which), 123,315 of two uploads of one film (`OnlyFile`) with one rendition of
two segments, one of them listed, and a crash, and 61,344 of the
sidecar (two uploads of up to one chunk of two kinds, a chunk too many, a download, a
stop). Three publishes (183,494 states), two uploads with a cover (432,227), bodies of
two chunks (415,000) were checked once, each alone, and so were two uploads that leave anything
stored and unmarked (221,849), where the run leaves that to what `Halves` names, the segments:
checking liveness takes the time.

Fairness. In `relay_live`, tokio schedules every task, the blocking store call
returns (with or without a result), and `select!` picks at random among its ready
branches, which is strong fairness of each branch. The client keeps reading its
socket or disconnects: a socket nobody reads blocks its task, in the code as in
the model. Nothing else is fair: clients need not send, disconnect or publish,
and the process need not restart. In `cursor`, the relay's task, the gateway's
event loop and the reconnect timer are weakly fair; what breaks is not. In
`federation` each of the two tasks of a link and each client's announcement is
weakly fair: tokio runs a task that can run, and `run_peer_forever` reconnects for
the life of the process. Breaks are bounded and not fair, so `GossipSettles` speaks of
what happens when nothing breaks any more, and its second case (`Wedged`) is a state
that only a break ends: neither side has a write timeout. In `parts` the reconnect timer
and each call's own timer fire, the relay answers, the event loop reads, and each
upload's next step is taken: programs end, matcher calls and reads return. Nobody has to
publish or upload, and nothing has to break.

## Findings

1. `chain_recovery`: `verify_chain` recomputes finality from the clock. A thief's
   signing rotation that lost to the owner's recovery rotation inside the window
   becomes final when the window has passed and displaces it, though the verifier
   has held the recovery rotation all along. `spec/002-identity.md` section 4.1
   defines finality this way, and section 4, rule 2a says that "a thief holding a
   stolen signing key cannot outrun the recovery-key holder". The property that
   does hold is `TheftRecoverable`: the recovery key prevails while the window
   runs.
2. `cursor_gap`: the gateway sets its cursor to the largest sequence it has
   handled, and the relay's backfill is newest first. A connection that breaks
   inside a backfill leaves the older rest below the cursor, and no later
   subscription asks for it. `spec/006-relay.md` section 2 speaks of a client
   "that has seen up to `seq = N`".

Met while modelling, and kept in the models as the code has them, without a run:

* `ingest.ts:172`: the duplicate check of `processRecord` comes before its awaits and is
  not repeated, and the upsert clears `retracted`. A manifest delivered by two relays
  whose second copy is still being matched when the first has been stored and retracted
  is shown again. `OnlyTheAuthorChanges` holds all the same: the row is the author's; and
  `RetractionStands` says that this is the only way back but a new edit.
* `relay.ts:162`: `publish` "resolves once this relay answers OK or the socket is
  down/times out" (`relay.ts:150`). Of two calls for one record the second takes the
  pending entry, so the first ends in a timeout although the OK came, and its timer
  deletes the second's entry.
* `upload.ts:279`: two uploads of the same bytes package into one directory. One may hash a
  whole segment that the other then opens and truncates, and move the truncated file
  under the whole one's id. A blob is known by its bytes, so an original, a thumbnail or
  another rendition's segment with the same bytes is spoiled with it: `StoreIsSound` and
  `PublishedIsPlayable` except every blob that is a segment of a `contested` rendition
  (`Torn`). The proof found the second half: as first written, `PublishedIsPlayable`
  asked more of such a blob than the code gives.
* `upload.ts:283` stores the segments of a rendition, and `hashAndStore` marks each as checked
  and clear (`upload.ts:122`, "just cleared above by the caller"), though the matcher was asked
  about the whole rendition only. `CSAM.md` says that "`checkBlob` MUST be called on every blob
  before it is served", at upload time "before the blob is accepted into the content-addressed
  store". A segment on the matcher's list is stored and served: the instance has one
  (`part`), and `StoreIsSound` excepts it by `Unasked` - what is listed is in the store only
  as a segment of a stored rendition - and holds of an original, a cover, a thumbnail and a
  rendition. With that exception left out TLC shows the violation.
* `custody.ts:135`: the user's row is written before the genesis record is indexed, and
  nothing repairs an account whose second step did not happen, the gateway's own
  included; `custody.ts:11` says that an export "always returns the genesis record".
  `AccountsHold` excepts these accounts by `torn`.
* `gossip.rs:99`: two tasks that write to each other's full socket wait for ever
  (`Wedged` is reachable). `spec/006-relay.md:152` says a relay forwards "each locally
  accepted record to each peer".
* `gossip.rs:74`: records accepted while a peer is disconnected, and between the `REQ`
  and `subscribe()`, are not pushed, and a refused push is not repeated: `unpushed`.
* `main.rs:260` of the node says that a lookup "must never resolve to bytes that failed
  this check". A blob is downloaded into the file of that name, so it resolves to
  unchecked bytes while the download runs, and after one that broke; a thumbnail
  whose download broke is there and is therefore never fetched again; and pinning a
  pinned blob a second time from a gateway that serves other bytes removes its
  file while the row stays. These are `Fetching`, `abandoned` and `contested`.
* `pinning.rs:184` says `pinned` is "True when this entry's media blob is currently
  pinned", and the query joins on `manifest_id`: of two manifests that share a medium
  only the one pinned last is marked.
* `bundle.rs`: a parted blob whose length is a multiple of the part size has no shorter
  last part, and a second parted blob right after it is lost; `export` writes the
  number of records it was given, duplicates included, so that the import of such a
  bundle reports a mismatch; and `read_item` allows one level of nesting less than
  the codec and no string longer than 64 MiB, which the codec takes at any length: a record
  with such a body can be signed and exported, and not imported again.
  `SalvageIsComplete` and `ReadersHaveOneMeaning` state what does hold.
* `sync.rs:138`: a query that fails or whose thread panics is answered with no rows and an
  EOSE, so a peer takes the backfill for complete and does not ask for those rows until it
  reconnects.
* `store.rs:268`: `prune_expired` is no transaction; one that fails half way leaves the rows
  of later DELETEs for the next.
* `ingest.ts:222`: the handler of a supersede gives `indexManifest` the refs of the
  supersede record, whose only ref is the manifest, and the `videos` upsert takes
  `channel_id` from them: an edited video leaves its channel.

## Proofs

All proofs hold for every value of the constants that satisfies the named
assumptions of the modules: `StoreAssumption` (kinds, windows, limits and the
integers in filters are natural numbers, and the counter's bound is one a column
can hold), `RetentionAssumption` (the clock's bound is natural),
`RelayAssumption` (sockets and channel hold at least one frame; subscription ids
are finitely many; clients send frames), `CursorAssumption` (the channel holds a
frame; no sequence is the mark of "no subscription"), `PolicyAssumption` (feeds have
names and sequences, and none is called "notice"), `IngestAssumption` (the refs
that `validateKind` demands of each kind are there), `NodeAssumption` (a manifest has a
medium, a blob at least a chunk), `AccountsAssumption` (the gateway's own account has no
handle; window, limit and clock are natural), `FederationAssumption` (no relay is its own
peer; sockets and channel hold at least one frame; records are not frames),
`RotationAssumption` (finitely many rotations, known by their ids), `OutsidersAssumption`
and `TheftAssumption` (what the holders of keys in force can put on a chain brings in no
outsider's key, and what they can put there without the stolen key none of the thief's),
`SizeAssumption` (chunks, parts, the threshold and the read buffer are not empty),
`ExportsAssumption` (what is exported is given in an order, a blob is bytes), `SamplesAssumption`
(a record has a kind, refs and a body of the codec's values: a list, a map and a flag are
nothing but that), `RenditionsAssumption` (what is signed is media of a rendition),
`SidecarAssumption` (the size limit is natural) and `UploadAssumption` (what uploads are
made of has contents; the renditions of a video are cut into finitely many segments, which
the matcher's list may hold as anything else). TLC evaluates them on every run.

| theorem | states | argument |
|---|---|---|
| `Retention_proofs!OneRow` | `OneRowPerRecord` | `TableInv`: every row's sequence is at most `lastSeq`, so a fresh one is new |
| `Retention_proofs!SequencesIncrease` | `SeqStrictlyIncreasing` | type correctness: the counter survives the rows it numbered |
| `Retention_proofs!PruningExact` | `PruneIsExact` | the two `DELETE` statements partition the rows by override; one stopped before its last has left rows of later statements only; needs kinds no larger than `MaxInt`, because clamped kinds collide |
| `Retention_proofs!FiltersAgree` | `BackfillAgreesWithLive` | clamping is the identity on what a column holds |
| `Relay_proofs!TypeCorrect` | `TypeOK` | one step per action |
| `Relay_proofs!AnnouncementUnique` | `AnnouncedOnce` | `LogInv`, below |
| `Relay_proofs!RelayImplementsLog` | `ImplementsLog` | refinement, below |
| `Relay_proofs!AcknowledgedIsStored` | `OkMeansStored` | `AckInv`, below |
| `Relay_proofs!NoGap` | `NoSilentGap` | `GapInv`, below |
| `RelayCursor_proofs!TypeCorrect` | `TypeOK` | together with `AnnouncedStored`, below |
| `RelayCursor_proofs!CursorStored` | `CursorIsStored` | `TravelInv`, below |
| `RelayCursor_proofs!GapsExplained` | `GapsHaveCauses` | `ResumeInv`, below |
| `RelayCursor_proofs!NothingWaits` | `ConnectionCarriesAll` | `ResumeInv`, below: what a break leaves above the cursor is asked for again |
| `GatewayIngest_proofs!TypeCorrect` | `TypeOK` | part of `IInv`, below; with it, one row per key |
| `GatewayIngest_proofs!StoredHasRow` | `StoredIsIndexed` | the record is written last, and no step removes an id from `index` |
| `GatewayIngest_proofs!LastCounts` | `LastReactionCounts` | `IInv`, below |
| `GatewayIngest_proofs!LargestSeqKept` | `LastSeqIsLargest` | the upsert takes the larger |
| `GatewayIngest_proofs!AuthorsRows` | `OnlyTheAuthorChanges` | `EffectFacts`: what a record that passed every check may touch |
| `GatewayIngest_proofs!BatchOnce` | `BatchAppliedOnce` | `feed_batches` is read and written in the same step |
| `GatewayIngest_proofs!RetractionsStand` | `RetractionStands` | with it, that a run whose record is stored was overtaken, and that what is withdrawn is stored |
| `Node_proofs!PlayableVerified` | `PlayableIsVerified` | `FileInv`, below |
| `Node_proofs!PinnedKeepsFile` | `PinKeepsItsFile` | with it, that a command about to record a pin has seen the whole file |
| `Node_proofs!PinnedIsListed` | `PinIsListed` | `EveryPinAccounted`: the command that recorded a pin stays at its manifest until the library row is written or given up |
| `Federation_proofs!CyclesHarmless` | `CyclesAreHarmless` | `Once`, below |
| `Federation_proofs!LossAccounted` | `NothingLostSilently` | `LossInv`, below |
| `Kernel_proofs!TypeCorrect` | `TypeOK` | the walk stays in a set its steps do not leave, below |
| `Kernel_proofs!OnlyKeyHolders` | `OnlyKeyHoldersRotate` | the same, for the rotations that key holders signed |
| `Kernel_proofs!VerifiersConverge` | `Converges` | when every window is over, the next step from a rotation does not depend on when records came, so two walks are one function |
| `Kernel_proofs!TheftIsRecoverable` | `TheftRecoverable` | the same again: while the window runs, the step from the genesis is not by its signing key, so the walk stays in what needs no stolen key |
| `Kernel_proofs!DerivationsBind` | `DerivationBindsMedia` | the statement is a list of fixed length with a null for what is absent, and `RenditionKeys`: no dimension that fits is a null |
| `Kernel_proofs!SalvageComplete` | `SalvageIsComplete` | `BundleInv` and `Sane`, below |
| `Kernel_proofs!PublicationsHold` | `PublicationHolds` | `SameTop` and `FeedInv`, below |
| `Kernel_proofs!BlobsVerified` | `BlobsVerify` | `Buffered`, `Ascent` and `Climbs`, below |
| `Kernel_proofs!RewritesAreFaithful` | `RewriteIsFaithful` | `TableStays` over the tables of all kinds, below |
| `Parts_proofs!PublishIsSound` | `PublishHolds` | `PubInv`, below |
| `Parts_proofs!UploadsKeepTheStoreSound` | `StoreIsSound` | `UpInv`, below |
| `Parts_proofs!PublishedCanBePlayed` | `PublishedIsPlayable` | `UpInv`, below |
| `Parts_proofs!SidecarIsSound` | `SidecarHolds` | `SideInv`, below |
| `Parts_proofs!TypeCorrect` | `TypeOK` | one step per action of `Accounts` |
| `Parts_proofs!AccountsHeld` | `AccountsHold` | from `HandleKept` and `AccountsWhole`, by `Owned`, below |
| `Parts_proofs!RateHeld` | `ExportRate` | `Logged`, below |

The last three are of `Accounts!Spec`, the four before them of `PartsSpec`, whose steps are
those of the modules: the bounds `OnlyUpload` and `OnlyFile` are constants like any other,
and no proof uses them.

The inductive invariants, and why the properties alone are not inductive:

* `LogInv` adds to `AnnouncedOnce` that a record has one row, a sequence one row,
  and none exceeds `lastSeq`. Without it an insert could number its row with a
  sequence already announced. `StepShape` sorts the steps of the relay into fresh
  inserts, announcements and steps that touch neither table nor channel, so the
  argument is made three times and not once per action. Each of the three maps to
  a step or a stutter of `AcceptedLog`, which is the refinement proof.
* `AckInv` adds to `OkMeansStored` that a task that awaits an insert was admitted
  by `admit_pub`, so what it stores is no forgery. `AcksOrigin` says where an OK
  frame comes from: it was already travelling, or the step is the insert's end.
* `GapInv` adds to `NoSilentGap` three facts about handlers (`HandlerInv`). A closed
  connection has no subscriptions, so none comes back to life with a hole in it. The
  query being answered has the filter its subscription has now, so what the query
  found is what the subscription wants. A handler that awaits the store has written
  everything it had to write, so the answer it gets displaces nothing. The rest is
  about frames: a row that a subscription expects is in the socket, in `todo`, or in
  the channel at or after the receiver's position, and each step moves it from one to
  the next, or the connection ends, or the receiver lags and its gap is known.
  The case that matters is a row inserted while a query runs: the subscription was entered
  before, so the announcement reaches it.
* `AnnouncedStored` (what is announced is a row) is needed for the type of the
  frames alone. `TravelInv` says that each handler works on a stored row, so
  the cursor it sets is one.
* `ResumeInv` is the heart of the cursor's correctness. A row is `Covered` when it
  is received, waits to be delivered, was lost or was cut off; the invariant says that every
  row is covered while the socket is open, and that one that is *not* covered lies above
  the cursor and above every handler that may still move it (`Ahead`). A handler may then
  raise the cursor without passing an uncovered row. That holds
  because a connection asks from the cursor at the time of `REQ`, and subscribes
  to announcements before its backfill is read, so that an active subscription covers
  every row, new ones included (`FreshRow`). The record at the cursor itself is settled, which
  is why a reconnection (`ConnectCovers`) may forgive only what lies strictly below it.
  `NothingWaits` follows: what a break cut off is asked for again, or the cursor had passed it.

* `IInv` of the ingest says that each stored reaction is counted at its own
  `received_at` or later, or that one of the author's to that target was taken back
  (`CountedLast`), and that a reaction's row is about its record's target and author
  (`RowOfReaction`). `LastReactionCounts` alone is not inductive: it is true of a
  state whose row has vanished, where an earlier reaction would be counted next.
  `EffectFacts` and `EffectReactions` treat the dispatch on a kind once, for the
  step that stores the record and for the one a crash cuts short.
* `StandsInv` says that a run whose record is already stored was overtaken, that a retracted
  row's record is stored and that what is withdrawn is stored. The duplicate check alone
  does not give `RetractionStands`: it is asked before the awaits, so the case it misses has to
  be known by its history.

* `FileInv` of the node adds to the two properties about files that a blob nobody
  contests is in at most one command's hands, that nobody unlinks it and no row names
  it while it is, and that a command about to record its pin has seen the whole file.
  Without this a second writer could spoil a file between its check and its row, which
  is exactly the case `contested` stands for.
* `Once` of the federation adds to `CyclesAreHarmless` who owes an announcement: what
  a client's task, a peer task or a socket task is about to announce is stored, has
  not been announced, and is owed by one task alone. Insert and duplicate check are
  one transaction (`InsertAdds`), so of several tasks that bring a record one owes it.

* `LossInv` adds to `NothingLostSilently` that no receiver stands beyond the end of
  its channel. The property is split by link and by direction (`PushAccounted`,
  `PullAccounted`), and the steps by what they do to a relay: one that goes on running
  stores only what is due to be announced, and what was due stays due or is appended
  to the channel (`Runs`). A step of one link leaves the other links' cursors alone,
  so it can only add to what is ahead of them.

* The theorems of `RotationChain` need no invariant but the types: `VerifyChain` is a
  function of what is held. What they need is induction along its walk, a recursive function over
  Nat. `SetInduction` supplies that: a set of numbers that has 0 and with n also n + 1 is Nat,
  because otherwise the complement would have a least member. `WalkStays` is the
  lemma the rest uses: a set that holds the genesis and whatever may be chosen after a
  member holds the end of the walk. Three of the theorems name such a set: the rotations whose
  path is held, those that key holders signed, those that need no stolen key.

* The theorems of `Documents` are of `DocSpec`: `Kernel` starts these documents as it does and
  takes the same actions on them, and none of its other actions makes one or touches one. `Shaped`
  says that a document stays of its kind, so each kind has an invariant of its own. What the
  properties ask is then asked of the readers, whose loops need an invariant each;
  that a loop's function exists is a lemma (`ImportLoop`, `LevelLoop`, ...), because
  no library theorem about recursive functions can be instantiated.
* `BundleInv` says what damage leaves of an export (`Kept`): each item is one the exporter can
  have written or a spoiled one, the header is nowhere but first and the end nowhere but last,
  and the parts of a blob can be numbered as they were written, upwards, no part above the
  number it shows (`Numbers`). The last is what makes the property true: when all parts of a
  blob have been read in a run, no part of it can come again and make the importer drop it.
  `Sane` is the invariant of the importer's loop, and `Does` what one item does to it: nothing
  handed on is lost, and a blob that is handed on or pending and whole stays so (`Delivered`).
  An import that ended without a report counted as many records and blobs as the exporter wrote,
  and none twice, so it has them all (`AllCounted`).
* `FeedInv` is the chain of `prev` links and sequence numbers. `SameTop` is that the reduction by
  levels and the split at the largest power of two below the length give one root: by
  induction over the levels, node `c` of level `k` is the top of the 2^k leaves from `c` 2^k on, or
  of those there are.
* `Buffered` says what is read after so many buffers, however a reader's calls cut them.
  `Ascent` describes the path a proof is made of, level by level, and `Climbs` the verifier with any
  chunk and any proof: a verifier that has not failed is at the node the path is at and
  has used as many hashes. It ends at the root; a join is injective, so going down again level
  by level each hash used is the path's and the leaf is the chunk's (`Verifies`).
* `RewritesAreFaithful` needs of a record only that its lists and flags are values of the codec
  (`KindInv`). `FieldOk` is what the tables of all kinds have in common (`RegistryOk` goes through them):
  a field is left out when it is written only where that reads the same. The
  rules between fields and refs are taken one kind at a time (`RulesStay`).

* `PubInv` adds to `PublishHolds` that the pending entry of a record is a call for that
  record (so no answer is taken for another's), that an OK on its way is the relay's
  word. A timer, a break and a second call of the record only remove or replace an entry,
  so a late answer finds none or one of its own record.
* `UpInv` says, by the stage a task is at, what it may have in hand (`Works`: nothing is
  made of a file before it passed, and nothing but a segment is stored that did not), that all it
  has named is stored and clear (`Named`), how far its rendition's directory is written and
  read (`Writing`), and that two tasks with one directory contest it (`Alone`). The
  two properties are not inductive without these: between `ReadDirectory` and the last
  `CommitSegment` the playlist is right only because the files not yet moved are
  whole and in order. Every step leaves what other tasks have named as good as it was
  (`Grows`): a file once in place is replaced by nothing, torn segments apart, and a row
  once marked stays marked. The steps that fail share the lemmas of those that succeed: what
  they leave is a part of it (`Stored`, `SegmentMoves`). TLC checked `UpInv` on the instance of `parts` before it was proved.
* `SideInv` adds to `SidecarHolds` that every file is the blob of its name, at the
  awaits too: between the length and the bytes of a download, and between the hash and the
  rename of an upload that its client has left.
* `Owned` of the accounts adds to `AnsweredOwnsHandle` that a registration that is
  indexing has its handle too: no step but the INSERT writes the users table, and that
  needs a free handle.
* `Logged` says that what `export_attempts` holds of an account is the history `begun`.
  `OneMore` is the step: a try is admitted when fewer than the limit are later than now
  less the window, and the tries of any window that holds the new one are among those.

The type invariants, `AnnouncedOnce`, `OneRowPerRecord`, `CursorIsStored` and
`LastSeqIsLargest` are proved and no longer run: TLC found them true of the instances
above before they were proved, and the first two follow from `ImplementsLog` for the relay.

Only model-checked:

* `EncodingIsBijective` and `ReadersHaveOneMeaning`, the two invariants of `Kernel` that are not
  in `Documents`. They are about `Codec`, `FrameCodec` and `BundleReader`, RECURSIVE operators
  that go down into values nested to any depth: the SMT backend of tlapm does not work in a
  module that reaches one, and what they compute is by induction on the value, over theorems
  that take an operator as a parameter, which no installed prover instantiates. The
  induction over Nat that `Kernel_proofs` makes by hand reaches a loop or a walk, not a
  parser over trees of bytes.
* Liveness, with the fairness it rests on (`EventuallyDelivered`, `EventuallyPassed`,
  `GossipSettles`, `ReachesTheRelay`, `EveryCallReturns`, `EveryUploadSettles`): tlapm
  does not reason about ENABLED, so it cannot use WF or SF.

## Not modelled

`PROJECT.json` gives the reason for each part. In short:

* Of uploads, the temporary files that a failed or stopped upload leaves behind, what
  ffmpeg and the matcher do inside, byte ranges and the text of playlists, and the policy's
  part of `ensureServable`.
* Of accounts, key wrapping, password hashing and sessions, which are one row each,
  written and deleted by single statements.
* The HTTP handlers that query the index, configuration, the `/info` document: single
  statements and layout.
* Front ends, the bindings for WebAssembly and TypeScript and the
  conformance tools.
* Cryptography and hashing: signatures and digests are terms or checksums that name
  what they cover. The text of SQL, and JSON's lexing.
* Between modules that are modelled: pruning together with gossip, which brings pruned
  records back; `RelayCursor` feeding `GatewayIngest`, where a retraction that comes
  before its target is refused (`ingest.ts:203`) and a backfill is newest first; a feed's
  `remove` that lifts an entry a notice made (`policy.ts:220`).
