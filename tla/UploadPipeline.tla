---------------------------- MODULE UploadPipeline ----------------------------
(***************************************************************************)
(* The upload pipeline of the gateway (upload.ts), the blob store it fills *)
(* (blobstore.ts) and the gate of what is served from it (media.ts).       *)
(*                                                                         *)
(* An upload runs in the background, interleaved with others at its        *)
(* awaits: external programs, matcher calls and the hashing of files.      *)
(* What lies between two awaits is one action, which only a crash cuts.    *)
(* Every file an upload makes has a name of its own, except the segments   *)
(* of a rendition: their directory is named after the rendition's blob,    *)
(* and ffmpeg opens a segment, truncating what is there, and completes it. *)
(* A file that is moved while ffmpeg has it open is completed where it is. *)
(*                                                                         *)
(* A file's content is a whole member of Contents or the first part of     *)
(* one; a blob's id is its content.  ffmpeg is deterministic.              *)
(***************************************************************************)
EXTENDS Naturals, Sequences, SequencesExt, FiniteSets

CONSTANTS
  Uploads,
  Contents,
  None,
  Files,        \* what the file part of an upload may hold
  Covers,       \* what its coverArt part may, or None for no such part
  Video,        \* contents with a video stream
  ThumbOf,      \* video -> a frame of it
  Targets,      \* RENDITION_TARGETS: names, in order
  AudioTargets, \* RENDITION_TARGETS_AUDIO
  RenditionOf,  \* content, target -> the rendition of it
  SegmentsOf,   \* rendition of a video -> its segments, the init segment first
  Matches,      \* contents on the matcher's list
  Ffmpeg,       \* config.ffmpegPath is set
  MaxCrashes    \* bound: crashes

VARIABLES
  status,       \* uploads table: the status of an upload's row
  task,         \* what each upload is at
  hls,          \* segment directories: rendition, number -> content, or Absent
  store,        \* the blob store: id -> content under its path, or Absent
  rows,         \* blobs table: id -> its row, or None
  indexed,      \* manifests that processRecord indexed: upload -> manifest, or None
  playlists,    \* hls tables: upload, target -> the blobs of its segments, or <<>>
  relayed,      \* uploads whose manifest was given to the relays
  contested,    \* history: renditions that two uploads packaged at one time
  crashes

vars == <<status, task, hls, store, rows, indexed, playlists, relayed, contested, crashes>>

Whole(c) == [of |-> c, whole |-> TRUE]
Cut(c)   == [of |-> c, whole |-> FALSE]
Content  == [of : Contents, whole : BOOLEAN]
Blobs    == Content
Absent   == [of |-> None, whole |-> FALSE]

Renditions == DOMAIN SegmentsOf
NoFile == <<"nowhere">>

Nothing == [a \in {} |-> None]
With(f, a, b) == [x \in DOMAIN f \cup {a} |-> IF x = a THEN b ELSE f[x]]

\* A task: its stage, its parts, the artifact it works on, whether a video stream is
\* assumed, the blobs its manifest will name, the renditions it has packaged; the
\* segment it is at, the file ffmpeg has open, the segments it found, the id of the
\* one it hashed and the blobs of those before.
Idle == [at |-> "none", file |-> None, cover |-> None, of |-> "original", video |-> TRUE,
         names |-> Nothing, packaged |-> Nothing,
         seg |-> 0, writes |-> NoFile, found |-> <<>>, hashed |-> Absent, blobs |-> <<>>]

Init ==
  /\ status = [u \in Uploads |-> "none"]
  /\ task = [u \in Uploads |-> Idle]
  /\ hls = [r \in Renditions |-> [k \in DOMAIN SegmentsOf[r] |-> Absent]]
  /\ store = [b \in Blobs |-> Absent] /\ rows = [b \in Blobs |-> None]
  /\ indexed = [u \in Uploads |-> None]
  /\ playlists = [u \in Uploads |-> Nothing]
  /\ relayed = {} /\ contested = {} /\ crashes = 0

At(u, stage) == task[u].at = stage
Moves(u, t) == task' = [task EXCEPT ![u] = t]

-----------------------------------------------------------------------------
(* What an upload makes *)

\* The artifacts after the original, once it is known whether it is a video: a
\* frame is taken only when there is no cover by then.
Plan(t) ==
  (IF t.cover = None THEN <<>> ELSE <<"cover">>)
    \o (IF Ffmpeg /\ t.video THEN <<"thumb">> ELSE <<>>)
    \o (IF ~Ffmpeg THEN <<>> ELSE IF t.video THEN Targets ELSE AudioTargets)

\* The task t, done with what it works on.
Onward(t) ==
  LET p == Plan(t)
      i == IF t.of = "original" THEN 1 ELSE SelectInSeq(p, LAMBDA a : a = t.of) + 1
      j == IF i <= Len(p) /\ p[i] = "thumb" /\ "cover" \in DOMAIN t.names THEN i + 1 ELSE i
      bare == [t EXCEPT !.seg = 0, !.writes = NoFile, !.found = <<>>, !.hashed = Absent,
                        !.blobs = <<>>]
  IN IF j > Len(p) THEN [bare EXCEPT !.at = "index"]
     ELSE [bare EXCEPT !.of = p[j], !.at = IF p[j] = "cover" THEN "check" ELSE "make"]

Made(t) ==
  CASE t.of = "original" -> t.file
    [] t.of = "cover"    -> t.cover
    [] t.of = "thumb"    -> ThumbOf[t.file]
    [] OTHER             -> RenditionOf[t.file][t.of]

-----------------------------------------------------------------------------
(* The row of an upload *)

\* POST /api/upload: the parts are on disk when the row is created.
Accept(u, file, cover) ==
  /\ status[u] = "none"
  /\ status' = [status EXCEPT ![u] = "processing"]
  /\ Moves(u, [Idle EXCEPT !.at = "check", !.file = file, !.cover = cover])
  /\ UNCHANGED <<hls, store, rows, indexed, playlists, relayed, contested, crashes>>

\* runUploadPipeline's catch, what has been done is kept.  Should its own update of the
\* row throw, nobody handles the promise (api/upload.ts) and the process ends: a Crash.
Failed(u) ==
  /\ status' = [status EXCEPT ![u] = "failed"]
  /\ Moves(u, [Idle EXCEPT !.at = "over"])

\* commitBlob: the file is moved unless the blob has one.
Commit(b, content) == store' = IF store[b] = Absent THEN [store EXCEPT ![b] = content] ELSE store

\* What recordBlob and markBlobChecked leave when one of them is not reached or throws: the
\* blob has no row, or one that is not marked, unless it had one before.
Unmarked(b) == {rows, [rows EXCEPT ![b] = IF @ = None THEN "unchecked" ELSE @]}

\* What a statement of hashAndStore that throws, or a crash, leaves of an artifact.
StoredPart(u) ==
  LET b == Whole(Made(task[u])) IN
  \/ UNCHANGED <<store, rows>>
  \/ At(u, "store") /\ Commit(b, b) /\ rows' \in Unmarked(b)

\* The original is too large, or its matcher call or a statement of hashAndStore throws.
OriginalFails(u) ==
  /\ task[u].of = "original" /\ task[u].at \in {"check", "store"}
  /\ StoredPart(u)
  /\ Failed(u)
  /\ UNCHANGED <<hls, indexed, playlists, relayed, contested, crashes>>

\* What is in hand is about to be begun, right after an update of the row's progress:
\* one follows the original, the probing and every rendition, none a cover.
Reported(t) ==
  \/ t.at = "probe"
  \/ t.of = "cover" /\ t.at = "check"
  \/ t.at = "make" /\ (t.of = "thumb" => t.cover = None)

\* That update throws.
UpdateFails(u) ==
  /\ Reported(task[u])
  /\ Failed(u)
  /\ UNCHANGED <<hls, store, rows, indexed, playlists, relayed, contested, crashes>>

-----------------------------------------------------------------------------
(* One artifact: made, checked, hashed and stored *)

\* ffmpeg writes a thumbnail or a rendition, which is probed.
Make(u) ==
  /\ At(u, "make")
  /\ Moves(u, [task[u] EXCEPT !.at = "check"])
  /\ UNCHANGED <<status, hls, store, rows, indexed, playlists, relayed, contested, crashes>>

\* A rendition taller than the original is not made; nor is one when ffmpeg fails,
\* which may leave a part of its file.
MakeFails(u) ==
  /\ At(u, "make")
  /\ Moves(u, Onward(task[u]))
  /\ UNCHANGED <<status, hls, store, rows, indexed, playlists, relayed, contested, crashes>>

\* Any later step of a cover, a thumbnail or a rendition throws: it is done without,
\* but for a rendition that has its place in the manifest already.
Skip(u) ==
  /\ task[u].of # "original"
  /\ task[u].at \in {"check", "store", "sign", "package", "hash"}
  /\ StoredPart(u)
  /\ Moves(u, Onward(task[u]))
  /\ UNCHANGED <<status, hls, indexed, playlists, relayed, contested, crashes>>

\* Seeded defect: only the original is checked.
ChecksOriginal(t) == t.of = "original" /\ t.file \in Matches

\* checkCsam does not let it pass.
Matched(t) == Made(t) \in Matches

CheckPasses(u) ==
  /\ At(u, "check") /\ ~Matched(task[u])
  /\ Moves(u, [task[u] EXCEPT !.at = "store"])
  /\ UNCHANGED <<status, hls, store, rows, indexed, playlists, relayed, contested, crashes>>

\* Seeded defect: the row is left as it was.
RejectSilently(u) ==
  /\ At(u, "check") /\ Matched(task[u]) /\ task[u].of = "original"
  /\ Moves(u, [Idle EXCEPT !.at = "over"])
  /\ UNCHANGED <<status, hls, store, rows, indexed, playlists, relayed, contested, crashes>>

\* The original matches: it is removed, and a cover is left behind.
Reject(u) ==
  /\ At(u, "check") /\ Matched(task[u]) /\ task[u].of = "original"
  /\ status' = [status EXCEPT ![u] = "failed"]
  /\ Moves(u, [Idle EXCEPT !.at = "over"])
  /\ UNCHANGED <<hls, store, rows, indexed, playlists, relayed, contested, crashes>>

\* Another artifact does: it is removed and done without.
Drop(u) ==
  /\ At(u, "check") /\ Matched(task[u]) /\ task[u].of # "original"
  /\ Moves(u, Onward(task[u]))
  /\ UNCHANGED <<status, hls, store, rows, indexed, playlists, relayed, contested, crashes>>

\* Seeded defect: a blob that has a file is taken to have a row.
RecordIfMoved(b) == rows' = IF store[b] = Absent THEN [rows EXCEPT ![b] = "clear"] ELSE rows

\* recordBlob and markBlobChecked.
Record(b) == rows' = [rows EXCEPT ![b] = "clear"]

\* hashAndStore: the file is hashed, moved and recorded.
Store(u) ==
  LET t == task[u]
      b == Whole(Made(t)) IN
  /\ At(u, "store")
  /\ Commit(b, b) /\ Record(b)
  /\ Moves(u,
       IF t.of = "original" THEN [t EXCEPT !.at = "probe", !.names = With(Nothing, "original", b)]
       ELSE IF t.of \in {"cover", "thumb"} THEN Onward([t EXCEPT !.names = With(@, t.of, b)])
       ELSE [t EXCEPT !.at = "sign"])
  /\ UNCHANGED <<status, hls, indexed, playlists, relayed, contested, crashes>>

\* ffprobe tells whether there is a video stream; without an answer there is one.
Probe(u) ==
  /\ At(u, "probe")
  /\ \E known \in {Ffmpeg, FALSE} :
       Moves(u, Onward([task[u] EXCEPT !.video = known => task[u].file \in Video]))
  /\ UNCHANGED <<status, hls, store, rows, indexed, playlists, relayed, contested, crashes>>

-----------------------------------------------------------------------------
(* The segments of a rendition *)

\* Uploads other than u that have the rendition's directory in hand.
Rivals(u, r) ==
  {v \in Uploads \ {u} : task[v].at \in {"package", "hash", "commit"} /\ Made(task[v]) = r}

\* The derivation is signed and the rendition listed; a video's is packaged.
Sign(u) ==
  LET t == [task[u] EXCEPT !.names = With(@, task[u].of, Whole(Made(task[u])))] IN
  /\ At(u, "sign")
  /\ Moves(u, IF t.video THEN [t EXCEPT !.at = "package"] ELSE Onward(t))
  /\ contested' = IF t.video /\ Rivals(u, Made(task[u])) # {}
                    THEN contested \cup {Made(task[u])} ELSE contested
  /\ UNCHANGED <<status, hls, store, rows, indexed, playlists, relayed, crashes>>

\* ffmpeg opens the next segment under its name.
OpenSegment(u) ==
  LET t == task[u]
      r == Made(task[u])
      k == t.seg + 1 IN
  /\ At(u, "package") /\ t.writes = NoFile /\ t.seg < Len(SegmentsOf[r])
  /\ hls' = [hls EXCEPT ![r][k] = Cut(SegmentsOf[r][k])]
  /\ Moves(u, [t EXCEPT !.seg = k, !.writes = <<"segment", r, k>>])
  /\ UNCHANGED <<status, store, rows, indexed, playlists, relayed, contested, crashes>>

\* ... and completes it, wherever the file is now.
CloseSegment(u) ==
  LET t == task[u]
      whole == Whole(SegmentsOf[Made(task[u])][t.seg]) IN
  /\ At(u, "package") /\ t.writes # NoFile
  /\ IF t.writes[1] = "segment"
       THEN hls' = [hls EXCEPT ![t.writes[2]][t.writes[3]] = whole] /\ UNCHANGED store
       ELSE store' = [store EXCEPT ![t.writes[2]] = whole] /\ UNCHANGED hls
  /\ Moves(u, [t EXCEPT !.writes = NoFile])
  /\ UNCHANGED <<status, rows, indexed, playlists, relayed, contested, crashes>>

\* What readdir finds, sorted; the init segment is taken to be there.
Listing(r) ==
  LET there == {k \in DOMAIN SegmentsOf[r] : k = 1 \/ hls[r][k] # Absent}
  IN [i \in 1..Cardinality(there) |->
        CHOOSE k \in there : Cardinality({j \in there : j < k}) = i - 1]

\* Seeded defect: the directory is read as soon as the last segment is there.
ReadsEarly(u) == task[u].seg = Len(SegmentsOf[Made(task[u])])

\* ffmpeg has ended.
FfmpegEnded(u) == task[u].seg = Len(SegmentsOf[Made(task[u])]) /\ task[u].writes = NoFile

ReadDirectory(u) ==
  /\ At(u, "package") /\ FfmpegEnded(u)
  /\ Moves(u, [task[u] EXCEPT !.at = "hash", !.found = Listing(Made(task[u])), !.writes = NoFile])
  /\ UNCHANGED <<status, hls, store, rows, indexed, playlists, relayed, contested, crashes>>

\* The next segment's file is read and hashed; if it is gone, Skip.
HashSegment(u) ==
  LET t == task[u]
      x == hls[Made(task[u])][Head(t.found)] IN
  /\ At(u, "hash") /\ t.found # <<>> /\ x # Absent
  /\ Moves(u, [t EXCEPT !.at = "commit", !.hashed = x])
  /\ UNCHANGED <<status, hls, store, rows, indexed, playlists, relayed, contested, crashes>>

\* Tasks whose ffmpeg has segment k of r open have it open as blob b.
Follow(r, k, b) ==
  [v \in Uploads |-> IF task[v].writes = <<"segment", r, k>>
                       THEN [task[v] EXCEPT !.writes = <<"blob", b>>] ELSE task[v]]

\* commitBlob of the segment in hand: what is under its name now is moved, unless the
\* blob has a file.  The task goes on as t.
MoveSegment(u, t) ==
  LET b == task[u].hashed
      r == Made(task[u])
      k == Head(task[u].found)
      moved == store[b] = Absent IN
  /\ moved => hls[r][k] # Absent
  /\ Commit(b, hls[r][k])
  /\ hls' = IF moved THEN [hls EXCEPT ![r][k] = Absent] ELSE hls
  /\ task' = [(IF moved THEN Follow(r, k, b) ELSE task) EXCEPT ![u] = t]

\* The rest of hashAndStore.  No segment is checked before it is marked.
CommitSegment(u) ==
  LET t == task[u] IN
  /\ At(u, "commit")
  /\ MoveSegment(u, [t EXCEPT !.at = "hash", !.found = Tail(@), !.blobs = Append(@, t.hashed),
                              !.hashed = Absent])
  /\ Record(t.hashed)
  /\ UNCHANGED <<status, indexed, playlists, relayed, contested, crashes>>

\* A statement of it throws: the move, as when the name is gone, or one after it.
CommitFails(u) ==
  LET t == task[u] IN
  /\ At(u, "commit")
  /\ \/ Moves(u, Onward(t)) /\ UNCHANGED <<hls, store, rows>>
     \/ MoveSegment(u, Onward(t)) /\ rows' \in Unmarked(t.hashed)
  /\ UNCHANGED <<status, indexed, playlists, relayed, contested, crashes>>

Packaged(u) ==
  LET t == task[u] IN
  /\ At(u, "hash") /\ t.found = <<>>
  /\ Moves(u, Onward([t EXCEPT !.packaged = With(@, t.of, t.blobs)]))
  /\ UNCHANGED <<status, hls, store, rows, indexed, playlists, relayed, contested, crashes>>

-----------------------------------------------------------------------------
(* The manifest *)

\* It is signed and indexed, its playlists are written, the relays get it, and the
\* row says so.
Publish(u) ==
  /\ At(u, "index")
  /\ indexed' = [indexed EXCEPT ![u] = task[u].names]
  /\ playlists' = [playlists EXCEPT ![u] = task[u].packaged]
  /\ relayed' = relayed \cup {u}
  /\ status' = [status EXCEPT ![u] = "published"]
  /\ Moves(u, [Idle EXCEPT !.at = "over"])
  /\ UNCHANGED <<hls, store, rows, contested, crashes>>

\* What a statement that throws, or a crash, leaves of the above.
PublishedPart(u) ==
  \/ UNCHANGED <<indexed, playlists, relayed>>
  \/ /\ indexed' = [indexed EXCEPT ![u] = task[u].names]
     /\ \/ UNCHANGED <<playlists, relayed>>
        \/ /\ playlists' = [playlists EXCEPT ![u] = task[u].packaged]
           /\ relayed' \in {relayed, relayed \cup {u}}

\* Signing throws, processRecord refuses or throws, or a later statement does.
PublishFails(u) ==
  /\ At(u, "index")
  /\ PublishedPart(u)
  /\ Failed(u)
  /\ UNCHANGED <<hls, store, rows, contested, crashes>>

Step(u) ==
  \/ OriginalFails(u) \/ UpdateFails(u) \/ Make(u) \/ MakeFails(u) \/ Skip(u)
  \/ CheckPasses(u) \/ Reject(u) \/ Drop(u) \/ Store(u) \/ Probe(u)
  \/ Sign(u) \/ OpenSegment(u) \/ CloseSegment(u) \/ ReadDirectory(u)
  \/ HashSegment(u) \/ CommitSegment(u) \/ CommitFails(u) \/ Packaged(u)
  \/ Publish(u) \/ PublishFails(u)

-----------------------------------------------------------------------------
(* Serving, and crashes *)

\* ensureServable, of a blob whose row is not marked, when the policy does not refuse it:
\* its file is checked.  One that is marked is served or not as it says.
Serve(b) ==
  /\ rows[b] = "unchecked"
  /\ rows' = [rows EXCEPT ![b] =
               IF store[b].whole /\ store[b].of \in Matches THEN "match" ELSE "clear"]
  /\ UNCHANGED <<status, task, hls, store, indexed, playlists, relayed, contested, crashes>>

\* The process stops, and the programs it runs with it.
Stops ==
  /\ crashes < MaxCrashes
  /\ crashes' = crashes + 1
  /\ task' = [u \in Uploads |-> IF task[u].at \in {"none", "over", "dead"} THEN task[u]
                                ELSE [Idle EXCEPT !.at = "dead"]]
  /\ UNCHANGED <<status, contested>>

Crash == Stops /\ UNCHANGED <<hls, store, rows, indexed, playlists, relayed>>

\* ... between two statements of hashAndStore, of an artifact or of a segment.
CrashStoring(u) ==
  LET b == task[u].hashed
      r == Made(task[u])
      k == Head(task[u].found) IN
  /\ Stops
  /\ \/ At(u, "store") /\ StoredPart(u) /\ UNCHANGED hls
     \/ /\ At(u, "commit") /\ store[b] = Absent /\ hls[r][k] # Absent
        /\ Commit(b, hls[r][k]) /\ rows' \in Unmarked(b)
        /\ hls' = [hls EXCEPT ![r][k] = Absent]
  /\ UNCHANGED <<indexed, playlists, relayed>>

\* ... and between two of those that publish.
CrashPublishing(u) ==
  /\ Stops /\ At(u, "index")
  /\ PublishedPart(u)
  /\ UNCHANGED <<hls, store, rows>>

Next ==
  \/ \E u \in Uploads : Step(u) \/ \E file \in Files, cover \in Covers : Accept(u, file, cover)
  \/ \E b \in Blobs : Serve(b)
  \/ Crash
  \/ \E u \in Uploads : CrashStoring(u) \/ CrashPublishing(u)

Spec == Init /\ [][Next]_vars

\* Programs end, matcher calls and reads return.
Fairness == \A u \in Uploads : WF_vars(Step(u))

FairSpec == Spec /\ Fairness

-----------------------------------------------------------------------------
(* Properties *)

\* Two uploads packaged a rendition at one time that has this file for a segment.
Torn(b) == \E r \in contested : b.of \in ToSet(SegmentsOf[r])

\* A segment of a rendition that is in the store: nobody asks the matcher about it
\* (upload.ts, packageHls' segments go straight to hashAndStore).
Unasked(b) == \E r \in Renditions : b.of \in ToSet(SegmentsOf[r]) /\ store[Whole(r)] # Absent

\* After any failure, retry or crash, what stands under a blob's path is that blob
\* (hashAndStore, packageHls), but for the segments of a rendition that two uploads
\* packaged at one time, and a row of the table has its file.  What the matcher has on
\* its list gets there, and is marked as if it had been let pass, only as a segment of a
\* rendition: an original, a cover, a thumbnail and a rendition never do (checkCsam,
\* ensureServable).
StoreIsSound ==
  \A b \in Blobs :
    /\ store[b] \in {Absent, b} \/ Torn(b)
    /\ rows[b] # None => store[b] # Absent
    /\ b.of \in Matches => (store[b] = Absent /\ rows[b] # "clear") \/ Unasked(b)

\* What a published upload's manifest names can be played: it is indexed, the relays
\* have it, every blob it names has its content under its name and passes the gate,
\* and the playlists name every segment, in order and whole, and those not on the
\* matcher's list pass the gate as well; whatever other uploads and a crash left of the
\* same files, but for what two uploads packaged at one time.
PublishedIsPlayable ==
  \A u \in Uploads : status[u] = "published" =>
    /\ u \in relayed /\ indexed[u] # None
    /\ \A a \in DOMAIN indexed[u] :
         LET b == indexed[u][a] IN (store[b] = b \/ Torn(b)) /\ rows[b] = "clear"
    /\ \A a \in DOMAIN playlists[u] :
         LET r == indexed[u][a].of IN
         \/ r \in contested
         \/ /\ playlists[u][a] = [k \in DOMAIN SegmentsOf[r] |-> Whole(SegmentsOf[r][k])]
            /\ \A b \in ToSet(playlists[u][a]) :
                 (store[b] = b \/ Torn(b)) /\ (rows[b] = "clear" \/ b.of \in Matches)

\* An upload is published or failed in the end, whatever fails on the way, unless the
\* process stops: no step leaves its row at "processing" for ever.
EveryUploadSettles ==
  \A u \in Uploads : status[u] = "processing" ~> status[u] # "processing" \/ task[u].at = "dead"

=============================================================================
