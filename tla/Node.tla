--------------------------------- MODULE Node ---------------------------------
(***************************************************************************)
(* The desktop node (crates/evermesh-node): the commands of main.rs over   *)
(* the pin store of pinning.rs and the directory of downloaded blobs.      *)
(*                                                                         *)
(* Commands run as tasks that interleave at their awaits; the synchronous  *)
(* ones run on a thread of their own, beside them.  A blob is downloaded   *)
(* into the file that bears its content address, created (and truncated)   *)
(* when the gateway answers, and checked afterwards.  A file that is       *)
(* removed while a task still writes to it keeps existing for that task    *)
(* only.  A crash ends the tasks and keeps the files and the database.     *)
(*                                                                         *)
(* A gateway may serve anything: a manifest is one whose record verified,  *)
(* and a blob's bytes are Chunks chunks, each Good (what the content       *)
(* address stands for) or Bad.                                             *)
(***************************************************************************)
EXTENDS Naturals, Sequences, FiniteSets

CONSTANTS
  Tasks,        \* pin commands that run at one time
  Manifests,    \* manifests whose record verifies
  Blobs,
  MediaOf,      \* manifest -> its original.blob
  ThumbOf,      \* manifest -> its thumbnail, or None
  RootOf,       \* manifest -> its chunk_root: "right" or "wrong" for the blob, or None
  Budgets,      \* budgets the user may configure
  None,
  Chunks,       \* how many chunks a whole blob has
  MaxPins,      \* bound: pin commands started
  MaxCrashes    \* bound: crashes

ASSUME NodeAssumption ==
  /\ MediaOf \in [Manifests -> Blobs]
  /\ ThumbOf \in [Manifests -> Blobs \cup {None}]
  /\ RootOf \in [Manifests -> {"right", "wrong", None}]
  /\ None \notin Blobs \cup Manifests \cup Budgets
  /\ Chunks \in Nat \ {0} /\ MaxPins \in Nat /\ MaxCrashes \in Nat

VARIABLES
  pins,         \* pins table: blob -> manifest_id of its row, or None
  library,      \* manifest_cache: the manifests that have a row
  budget,       \* budget table: its only row, or None
  file,         \* blobs directory: blob -> the chunks under its name, or Absent
  task,         \* the pin commands that run
  unlinking,    \* the blob whose file unpin_blob is about to remove, or None
  started, crashes,   \* bounds
  abandoned,    \* history: blobs whose download was given up without a check
  contested,    \* history: blobs that two operations had in hand at once
  unlisted      \* history: manifests whose library row was not written

vars == <<pins, library, budget, file, task, unlinking, started, crashes,
          abandoned, contested, unlisted>>
databaseVars == <<pins, library, budget>>
boundVars == <<started, crashes>>

Good == "good"
Bad == "bad"
Hole == "hole"
Absent == <<"absent">>
Whole == [i \in 1..Chunks |-> Good]
Contents == {Absent} \cup UNION {[1..n -> {Good, Bad, Hole}] : n \in 0..Chunks}

Stages == {"idle", "request", "write", "hash", "root", "reject", "row", "library"}

\* A pin_manifest command: the await it stands at, its manifest, whether it is
\* the media or the thumbnail that it fetches, how much of it was written, and
\* whether the file it writes to still has a name.
Command == [at : Stages, of : Manifests \cup {None}, for : {"media", "thumb"},
            written : 0..Chunks, named : BOOLEAN]
Idle == [at |-> "idle", of |-> None, for |-> "media", written |-> 0, named |-> FALSE]

Init ==
  /\ pins = [b \in Blobs |-> None] /\ library = {} /\ budget = None
  /\ file = [b \in Blobs |-> Absent]
  /\ task = [t \in Tasks |-> Idle] /\ unlinking = None
  /\ started = 0 /\ crashes = 0
  /\ abandoned = {} /\ contested = {} /\ unlisted = {}

TypeOK ==
  /\ pins \in [Blobs -> Manifests \cup {None}]
  /\ library \subseteq Manifests /\ budget \in Budgets \cup {None}
  /\ file \in [Blobs -> Contents]
  /\ task \in [Tasks -> Command] /\ unlinking \in Blobs \cup {None}
  /\ started \in 0..MaxPins /\ crashes \in 0..MaxCrashes
  /\ abandoned \subseteq Blobs /\ contested \subseteq Blobs
  /\ unlisted \subseteq Manifests

BlobOf(c) == IF c.for = "media" THEN MediaOf[c.of] ELSE ThumbOf[c.of]

\* Tasks that write blob b or have written it and not yet accepted or refused it.
Fetching(b) == {t \in Tasks : task[t].at \in {"write", "hash", "root", "reject"}
                                /\ BlobOf(task[t]) = b}

\* The same, and those that are about to record the pin.
InHand(b) == Fetching(b) \cup {t \in Tasks : task[t].at = "row" /\ BlobOf(task[t]) = b}

\* local_media_path: is_file, whatever it holds.
LocalMediaPath(b) == file[b] # Absent

\* list_cached_manifests: the rows with their flag `pinned`, a join over manifest_id.
ListCachedManifests ==
  [m \in library |-> \E b \in Blobs : pins[b] = m]

-----------------------------------------------------------------------------
(* pin_manifest *)

\* The record came, verified and parsed; an answer that fails ends the command.
FetchManifest(t, m) ==
  /\ task[t].at = "idle" /\ started < MaxPins
  /\ started' = started + 1
  /\ task' = [task EXCEPT ![t] = [Idle EXCEPT !.at = "request", !.of = m]]
  /\ UNCHANGED <<databaseVars, file, unlinking, crashes, abandoned, contested, unlisted>>

\* What follows a download that failed: the command fails with its media, and
\* does without its thumbnail.
GivenUp(c) ==
  IF c.for = "media" THEN Idle ELSE [Idle EXCEPT !.at = "library", !.of = c.of]

RequestFails(t) ==
  /\ task[t].at = "request"
  /\ task' = [task EXCEPT ![t] = GivenUp(task[t])]
  /\ UNCHANGED <<databaseVars, file, unlinking, boundVars, abandoned, contested, unlisted>>

\* File::create truncates the file if there is one; who else writes to it goes on.
CreateFile(t) ==
  LET b == BlobOf(task[t]) IN
  /\ task[t].at = "request"
  /\ file' = [file EXCEPT ![b] = <<>>]
  /\ task' = [task EXCEPT ![t].at = "write", ![t].written = 0, ![t].named = TRUE]
  /\ abandoned' = abandoned \ {b}
  /\ contested' = IF pins[b] # None \/ unlinking = b \/ InHand(b) # {}
                    THEN contested \cup {b} ELSE contested \ {b}
  /\ UNCHANGED <<databaseVars, unlinking, boundVars, unlisted>>

\* A write at offset n leaves a hole if the file is shorter than that.
WriteAt(f, n, chunk) ==
  [i \in 1..(IF n > Len(f) THEN n ELSE Len(f)) |->
     IF i = n THEN chunk ELSE IF i \in DOMAIN f THEN f[i] ELSE Hole]

WriteChunk(t, chunk) ==
  LET b == BlobOf(task[t]) IN
  /\ task[t].at = "write" /\ task[t].written < Chunks
  /\ task' = [task EXCEPT ![t].written = @ + 1]
  /\ file' = IF task[t].named
               THEN [file EXCEPT ![b] = WriteAt(@, task[t].written + 1, chunk)]
               ELSE file
  /\ UNCHANGED <<databaseVars, unlinking, boundVars, abandoned, contested, unlisted>>

\* The stream fails: `chunk?` returns and what was written stays.
StreamFails(t) ==
  LET b == BlobOf(task[t]) IN
  /\ task[t].at = "write"
  /\ task' = [task EXCEPT ![t] = GivenUp(task[t])]
  /\ abandoned' = abandoned \cup {b}
  /\ UNCHANGED <<databaseVars, file, unlinking, boundVars, contested, unlisted>>

\* The stream ends, where the gateway wants it to.
StreamEnds(t) ==
  /\ task[t].at = "write"
  /\ task' = [task EXCEPT ![t].at = "hash", ![t].written = 0, ![t].named = FALSE]
  /\ UNCHANGED <<databaseVars, file, unlinking, boundVars, abandoned, contested, unlisted>>

\* After a check that passed: a pin is recorded, a thumbnail just stays.
Accepted(c) == IF c.for = "media" THEN [c EXCEPT !.at = "row"] ELSE GivenUp(c)

\* Seeded defect: the length of the file is checked in place of its bytes.
HashesByLength(f) == f # Absent /\ Len(f) = Chunks

\* verify_downloaded_blob, first half: the whole file's hash.
Hashes(f) == f = Whole

RehashFile(t) ==
  LET c == task[t]
      verdict == IF ~Hashes(file[BlobOf(c)]) THEN [c EXCEPT !.at = "reject"]
                 ELSE IF c.for = "media" /\ RootOf[c.of] # None
                        THEN [c EXCEPT !.at = "root"]
                 ELSE Accepted(c) IN
  /\ c.at = "hash"
  /\ task' = [task EXCEPT ![t] = verdict]
  /\ UNCHANGED <<databaseVars, file, unlinking, boundVars, abandoned, contested, unlisted>>

\* Second half: the file is read once more for its chunk root.
CheckRoot(t) ==
  LET c == task[t] IN
  /\ c.at = "root"
  /\ task' = [task EXCEPT ![t] =
       IF Hashes(file[BlobOf(c)]) /\ RootOf[c.of] = "right"
         THEN Accepted(c) ELSE [c EXCEPT !.at = "reject"]]
  /\ UNCHANGED <<databaseVars, file, unlinking, boundVars, abandoned, contested, unlisted>>

\* remove_file(b): whoever has the file open writes to a file without a name.
Nameless(b) == [t \in Tasks |->
  IF task[t].at = "write" /\ BlobOf(task[t]) = b
    THEN [task[t] EXCEPT !.named = FALSE] ELSE task[t]]

\* Seeded defect: a file that failed its check is left where it is.
RejectQuietly(t) ==
  /\ task[t].at = "reject"
  /\ task' = [task EXCEPT ![t] = GivenUp(task[t])]
  /\ UNCHANGED <<databaseVars, file, unlinking, boundVars, abandoned, contested, unlisted>>

\* The check failed and the task runs again: the name is removed, whatever it
\* stands for by now.
Reject(t) ==
  LET b == BlobOf(task[t]) IN
  /\ task[t].at = "reject"
  /\ file' = [file EXCEPT ![b] = Absent]
  /\ task' = [Nameless(b) EXCEPT ![t] = GivenUp(task[t])]
  /\ abandoned' = abandoned \ {b}
  /\ UNCHANGED <<databaseVars, unlinking, boundVars, contested, unlisted>>

\* PinStore::pin, an upsert; then the thumbnail, if its file is not there.
RecordPin(t) ==
  LET c == task[t]
      wanted == ThumbOf[c.of] # None /\ ~LocalMediaPath(ThumbOf[c.of]) IN
  /\ c.at = "row"
  /\ pins' = [pins EXCEPT ![MediaOf[c.of]] = c.of]
  /\ task' = [task EXCEPT ![t] =
       IF wanted THEN [Idle EXCEPT !.at = "request", !.of = c.of, !.for = "thumb"]
       ELSE [Idle EXCEPT !.at = "library", !.of = c.of]]
  /\ UNCHANGED <<library, budget, file, unlinking, boundVars, abandoned, contested, unlisted>>

RecordPinFails(t) ==
  /\ task[t].at = "row"
  /\ task' = [task EXCEPT ![t] = Idle]
  /\ UNCHANGED <<databaseVars, file, unlinking, boundVars, abandoned, contested, unlisted>>

\* Seeded defect: the extra request for the gateway's view decides over the row.
CacheIfReachable(t) ==
  /\ task[t].at = "library"
  /\ task' = [task EXCEPT ![t] = Idle]
  /\ library' \in {library, library \cup {task[t].of}}
  /\ UNCHANGED <<pins, budget, file, unlinking, boundVars, abandoned, contested, unlisted>>

\* get_video answered or not: the manifest's own body takes its place.
CacheManifest(t) ==
  /\ task[t].at = "library"
  /\ task' = [task EXCEPT ![t] = Idle]
  /\ library' = library \cup {task[t].of}
  /\ UNCHANGED <<pins, budget, file, unlinking, boundVars, abandoned, contested, unlisted>>

\* A busy database; the result is ignored.
CacheFails(t) ==
  /\ task[t].at = "library"
  /\ task' = [task EXCEPT ![t] = Idle]
  /\ unlisted' = unlisted \cup {task[t].of}
  /\ UNCHANGED <<databaseVars, file, unlinking, boundVars, abandoned, contested>>

PinStep(t) ==
  \/ \E m \in Manifests : FetchManifest(t, m)
  \/ RequestFails(t)
  \/ CreateFile(t)
  \/ \E chunk \in {Good, Bad} : WriteChunk(t, chunk)
  \/ StreamFails(t)
  \/ StreamEnds(t)
  \/ RehashFile(t)
  \/ CheckRoot(t)
  \/ Reject(t)
  \/ RecordPin(t)
  \/ RecordPinFails(t)
  \/ CacheManifest(t)
  \/ CacheFails(t)

-----------------------------------------------------------------------------
(* The other commands *)

\* fetch_and_verify_manifest: its requests change nothing, a verified answer is cached.
FetchAndVerify(m) ==
  /\ library' = library \cup {m}
  /\ UNCHANGED <<pins, budget, file, task, unlinking, boundVars, abandoned, contested, unlisted>>

SetBudget(new) ==
  /\ budget' = new
  /\ UNCHANGED <<pins, library, file, task, unlinking, boundVars, abandoned, contested, unlisted>>

\* unpin_blob: the row first ...
UnpinRow(b) ==
  /\ unlinking = None
  /\ pins' = [pins EXCEPT ![b] = None]
  /\ unlinking' = b
  /\ contested' = IF InHand(b) # {} THEN contested \cup {b} ELSE contested
  /\ UNCHANGED <<library, budget, file, task, boundVars, abandoned, unlisted>>

\* ... then the file, whether or not there was a row.
UnpinFile ==
  /\ unlinking # None
  /\ file' = [file EXCEPT ![unlinking] = Absent]
  /\ task' = Nameless(unlinking)
  /\ abandoned' = abandoned \ {unlinking}
  /\ unlinking' = None
  /\ UNCHANGED <<databaseVars, boundVars, contested, unlisted>>

Crash ==
  /\ crashes < MaxCrashes
  /\ crashes' = crashes + 1
  /\ abandoned' = abandoned \cup {b \in Blobs : Fetching(b) # {}}
  /\ unlisted' = unlisted \cup {task[t].of : t \in {u \in Tasks : task[u].at # "idle"}}
  /\ task' = [t \in Tasks |-> Idle]
  /\ unlinking' = None
  /\ UNCHANGED <<databaseVars, file, started, contested>>

Next ==
  \/ \E t \in Tasks : PinStep(t)
  \/ \E m \in Manifests : FetchAndVerify(m)
  \/ \E new \in Budgets : SetBudget(new)
  \/ \E b \in Blobs : UnpinRow(b)
  \/ UnpinFile
  \/ Crash

Spec == Init /\ [][Next]_vars

-----------------------------------------------------------------------------
(* Properties *)

\* What local_media_path hands to the player is the content its name stands
\* for, except while a download into that file is still unchecked, or after
\* one was given up by a broken stream or a crash.  Two downloads of one blob,
\* a retry after a refusal and an unpin in between make no other exception.
PlayableIsVerified ==
  \A b \in Blobs : LocalMediaPath(b) =>
    file[b] = Whole \/ Fetching(b) # {} \/ b \in abandoned

\* A blob with a pin row has its whole file, offline and after a crash, unless
\* a second operation had the blob in hand: another download of it, begun
\* before the first was recorded or over the pinned file, or an unpin.
PinKeepsItsFile ==
  \A b \in Blobs : pins[b] # None => file[b] = Whole \/ b \in contested

\* A manifest that is pinned is in the library, marked as pinned, as soon as
\* its command is over, unless the row was not written or the process stopped.
PinIsListed ==
  \A b \in Blobs : LET m == pins[b] IN
    m # None =>
      \/ m \in DOMAIN ListCachedManifests /\ ListCachedManifests[m]
      \/ \E t \in Tasks : task[t].of = m
      \/ m \in unlisted

=============================================================================
