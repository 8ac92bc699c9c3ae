----------------------------- MODULE BlobSidecar -----------------------------
(***************************************************************************)
(* The blob sidecar of the relay: PUT, GET and HEAD of blobs by any number *)
(* of clients at once (crates/evermesh-relay/src/blobs.rs).                *)
(*                                                                         *)
(* A body is streamed into a file of its own under the blob directory and  *)
(* hashed on the way; what it is renamed to is the hash of what came.  A   *)
(* client that goes away takes its handler with it wherever that waits,    *)
(* but not a rename that has been handed to the pool of blocking threads.  *)
(*                                                                         *)
(* A chunk is a model value, a content a sequence of them, and a blob's id *)
(* its content.  A temporary file's name is the upload's own.              *)
(***************************************************************************)
EXTENDS Naturals, Sequences, SequencesExt

CONSTANTS
  Puts, Gets,
  Chunks,
  None,
  MaxBytes,    \* config.blob.max_bytes, in chunks
  MaxCrashes   \* bound: stops of the process

Blobs == SeqOf(Chunks, MaxBytes)

VARIABLES
  put,      \* where an upload is, what it declared, what came, what it was told
  files,    \* id -> the content under its path, or None
  get,      \* where a download is, of which id, the length it announced, its body
  crashes

vars == <<put, files, get, crashes>>

NoPut == [at |-> "none", expected |-> None, body |-> <<>>, told |-> "nothing"]
NoGet == [at |-> "none", id |-> <<>>, length |-> 0, body |-> None]

Init ==
  /\ put = [p \in Puts |-> NoPut] /\ get = [g \in Gets |-> NoGet]
  /\ files = [b \in Blobs |-> None] /\ crashes = 0

Tell(p, answer) == put' = [put EXCEPT ![p].at = "over", ![p].told = answer]

-----------------------------------------------------------------------------
(* PUT /blob: receive_and_store_blob *)

\* The id a client declares is whatever it likes, or none.
Put(p) ==
  /\ put[p].at = "none"
  /\ \E expected \in Blobs \cup {None} :
       put' = [put EXCEPT ![p] = [NoPut EXCEPT !.at = "body", !.expected = expected]]
  /\ UNCHANGED <<files, get, crashes>>

\* A chunk of the body is counted, hashed and written, unless it is one too many.
Chunk(p) ==
  /\ put[p].at = "body"
  /\ \E c \in Chunks :
       IF Len(put[p].body) + 1 > MaxBytes THEN Tell(p, "too_large")
       ELSE put' = [put EXCEPT ![p].body = Append(@, c)]
  /\ UNCHANGED <<files, get, crashes>>

\* Seeded defect: an id that is declared and there already is taken at its word.
MismatchIfNew(p) ==
  put[p].expected # None /\ put[p].expected # put[p].body /\ files[put[p].expected] = None

Mismatch(p) == put[p].expected # None /\ put[p].expected # put[p].body

\* The body has ended and its hash is known.
BodyEnds(p) ==
  /\ put[p].at = "body"
  /\ IF Mismatch(p) THEN Tell(p, "mismatch") ELSE put' = [put EXCEPT ![p].at = "exists"]
  /\ UNCHANGED <<files, get, crashes>>

\* try_exists: another upload has produced the blob.  An error counts as no.
Exists(p) ==
  /\ put[p].at = "exists"
  /\ \/ files[put[p].body] # None /\ Tell(p, "created")
     \/ put' = [put EXCEPT ![p].at = "persist"]
  /\ UNCHANGED <<files, get, crashes>>

\* Seeded defect: the file is copied to its path, which a reader may see half done.
PersistByCopy(p) ==
  LET b == put[p].body IN
  /\ put[p].at \in {"persist", "persist_alone"}
  /\ \/ /\ files[b] # b
        /\ files' = [files EXCEPT ![b] = SubSeq(b, 1, Len(b) - 1)] /\ UNCHANGED put
     \/ /\ files' = [files EXCEPT ![b] = b]
        /\ Tell(p, IF put[p].at = "persist" THEN "created" ELSE "nothing")
  /\ UNCHANGED <<get, crashes>>

\* persist: the file is renamed, over another upload's if that came first.
Persist(p) ==
  LET b == put[p].body IN
  /\ put[p].at \in {"persist", "persist_alone"}
  /\ files' = [files EXCEPT ![b] = b]
  /\ Tell(p, IF put[p].at = "persist" THEN "created" ELSE "nothing")
  /\ UNCHANGED <<get, crashes>>

\* The body breaks off or the file system refuses.
PutFails(p) ==
  /\ put[p].at \in {"body", "exists", "persist"}
  /\ Tell(p, "error")
  /\ UNCHANGED <<files, get, crashes>>

ClientLeaves(p) ==
  /\ put[p].at \in {"body", "exists", "persist"}
  /\ put' = [put EXCEPT ![p].at = IF @ = "persist" THEN "persist_alone" ELSE "over"]
  /\ UNCHANGED <<files, get, crashes>>

-----------------------------------------------------------------------------
(* GET /blob/{id}: serve_blob *)

\* The length is read ...
Get(g) ==
  /\ get[g].at = "none"
  /\ \E b \in Blobs :
       get' = [get EXCEPT ![g] = [NoGet EXCEPT !.id = b,
                 !.at = IF files[b] = None THEN "not_found" ELSE "read",
                 !.length = IF files[b] = None THEN 0 ELSE Len(files[b])]]
  /\ UNCHANGED <<put, files, crashes>>

\* ... and then so many bytes; fewer are an error.  A range is cut from these.
ReadFile(g) ==
  LET x == files[get[g].id] IN
  /\ get[g].at = "read"
  /\ get' = [get EXCEPT ![g].at = IF x # None /\ Len(x) >= get[g].length THEN "ok" ELSE "error",
                        ![g].body = IF x # None THEN SubSeq(x, 1, get[g].length) ELSE None]
  /\ UNCHANGED <<put, files, crashes>>

\* The process stops.  What is left of an upload is a temporary file of no name.
Crash ==
  /\ crashes < MaxCrashes
  /\ crashes' = crashes + 1
  /\ put' = [p \in Puts |-> IF put[p].at = "none" THEN put[p] ELSE [put[p] EXCEPT !.at = "over"]]
  /\ get' = [g \in Gets |-> IF get[g].at = "read" THEN [get[g] EXCEPT !.at = "error"] ELSE get[g]]
  /\ UNCHANGED files

Next ==
  \/ \E p \in Puts :
       Put(p) \/ Chunk(p) \/ BodyEnds(p) \/ Exists(p) \/ Persist(p) \/ PutFails(p) \/ ClientLeaves(p)
  \/ \E g \in Gets : Get(g) \/ ReadFile(g)
  \/ Crash

Spec == Init /\ [][Next]_vars

-----------------------------------------------------------------------------
(* Properties *)

\* A client that is told its blob was created can count on it: the blob is the bytes
\* it sent, the one it declared if it declared one, and it stays in the store,
\* whatever other uploads of it, failures and restarts do.  What is served under an id
\* is the blob of that id, all of it, although the length is read before the bytes and
\* an upload may put a file in place in between.
SidecarHolds ==
  /\ \A p \in Puts : put[p].told = "created" =>
       files[put[p].body] = put[p].body /\ put[p].expected \in {None, put[p].body}
  /\ \A g \in Gets : get[g].at = "ok" => get[g].body = get[g].id

=============================================================================
