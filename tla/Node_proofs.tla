----------------------------- MODULE Node_proofs -----------------------------
(***************************************************************************)
(* Proofs about Node.  Typed says what a command's record means at each    *)
(* stage; AloneUnlessContested is the reason a pin keeps its file: outside *)
(* `contested` a blob has one task at most, and none once it is pinned or  *)
(* about to be removed.                                                    *)
(***************************************************************************)
EXTENDS Node, SequenceTheorems, TLAPS

USE NodeAssumption

\* A command that runs has a manifest; what it fetches and writes has a name.
Meaningful(c) ==
  /\ c.at # "idle" => c.of \in Manifests
  /\ c.at \in {"root", "row"} => c.for = "media"
  /\ c.at \notin {"idle", "library"} => BlobOf(c) \in Blobs

Writing(c) == c.at = "write" /\ c.named

TasksTyped ==
  /\ task \in [Tasks -> Command]
  /\ \A t \in Tasks : Meaningful(task[t])
  /\ \A t \in Tasks : Writing(task[t]) => file[BlobOf(task[t])] # Absent

Typed == TypeOK /\ TasksTyped

LEMMA EmptyFile == <<>> \in Contents /\ <<>> # Absent
<1>1. <<>> \in [1..0 -> {Good, Bad, Hole}]
  OBVIOUS
<1>2. 0 \in 0..Chunks
  OBVIOUS
<1>3. <<>> # <<"absent">>
  OBVIOUS
<1> QED
  BY <1>1, <1>2, <1>3 DEF Contents, Absent

LEMMA WriteTyped ==
  ASSUME NEW f \in Contents, f # Absent, NEW n \in 1..Chunks, NEW chunk \in {Good, Bad}
  PROVE  WriteAt(f, n, chunk) \in Contents /\ WriteAt(f, n, chunk) # Absent
<1> DEFINE S == {Good, Bad, Hole}
<1>1. PICK m \in 0..Chunks : f \in [1..m -> S]
  BY DEF Contents
<1>2. Len(f) = m
  BY <1>1
<1> DEFINE k == IF n > m THEN n ELSE m
<1>3. k \in 0..Chunks /\ n \in 1..k
  OBVIOUS
<1>4. WriteAt(f, n, chunk) \in [1..k -> S]
  BY <1>1, <1>2, <1>3 DEF WriteAt
<1>5. WriteAt(f, n, chunk) # Absent
  <2>1. WriteAt(f, n, chunk)[n] = chunk /\ n \in 1..k
    BY <1>2, <1>3 DEF WriteAt
  <2>2. CASE k = 1
    BY <2>1, <2>2 DEF Absent, Good, Bad
  <2>3. CASE k # 1
    <3>1. DOMAIN WriteAt(f, n, chunk) = 1..k /\ DOMAIN Absent = 1..1
      BY <1>4 DEF Absent
    <3>2. 1..k # 1..1
      BY <2>3, <1>3
    <3> QED
      BY <3>1, <3>2
  <2> QED
    BY <2>2, <2>3
<1> QED
  BY <1>3, <1>4, <1>5 DEF Contents

\* The records the actions build, field by field.
LEMMA Begun ==
  ASSUME NEW m \in Manifests, Idle \in Command
  PROVE  /\ LET d == [Idle EXCEPT !.at = "request", !.of = m] IN
              d \in Command /\ d.at = "request" /\ d.of = m /\ d.for = "media" /\ d.named = FALSE
         /\ LET d == [Idle EXCEPT !.at = "library", !.of = m] IN
              d \in Command /\ d.at = "library" /\ d.of = m /\ d.for = "media" /\ d.named = FALSE
         /\ LET d == [Idle EXCEPT !.at = "request", !.of = m, !.for = "thumb"] IN
              d \in Command /\ d.at = "request" /\ d.of = m /\ d.for = "thumb" /\ d.named = FALSE
<1>1. PICK c \in Command : c = Idle
  OBVIOUS
<1>2. c.for = "media" /\ c.named = FALSE
  BY <1>1 DEF Idle
<1>3. "request" \in Stages /\ "library" \in Stages
  BY DEF Stages
<1>4. LET d == [c EXCEPT !.at = "request", !.of = m] IN
        d \in Command /\ d.at = "request" /\ d.of = m /\ d.for = "media" /\ d.named = FALSE
  BY <1>2, <1>3 DEF Command
<1>5. LET d == [c EXCEPT !.at = "library", !.of = m] IN
        d \in Command /\ d.at = "library" /\ d.of = m /\ d.for = "media" /\ d.named = FALSE
  BY <1>2, <1>3 DEF Command
<1>6. LET d == [c EXCEPT !.at = "request", !.of = m, !.for = "thumb"] IN
        d \in Command /\ d.at = "request" /\ d.of = m /\ d.for = "thumb" /\ d.named = FALSE
  BY <1>2, <1>3 DEF Command
<1> QED
  BY <1>1, <1>4, <1>5, <1>6

LEMMA Moved ==
  ASSUME NEW c \in Command
  PROVE  /\ LET d == [c EXCEPT !.at = "write", !.written = 0, !.named = TRUE] IN
              d \in Command /\ d.at = "write" /\ d.of = c.of /\ d.for = c.for
         /\ LET d == [c EXCEPT !.at = "hash", !.written = 0, !.named = FALSE] IN
              d \in Command /\ d.at = "hash" /\ d.of = c.of /\ d.for = c.for
<1>1. 0 \in 0..Chunks /\ "write" \in Stages /\ "hash" \in Stages
  BY DEF Stages
<1>2. LET d == [c EXCEPT !.at = "write", !.written = 0, !.named = TRUE] IN
        d \in Command /\ d.at = "write" /\ d.of = c.of /\ d.for = c.for
  BY <1>1 DEF Command
<1>3. LET d == [c EXCEPT !.at = "hash", !.written = 0, !.named = FALSE] IN
        d \in Command /\ d.at = "hash" /\ d.of = c.of /\ d.for = c.for
  BY <1>1 DEF Command
<1> QED
  BY <1>2, <1>3

LEMMA LibraryNext ==
  ASSUME NEW c \in Command, c.for = "thumb", c.of \in Manifests, Idle \in Command
  PROVE  GivenUp(c) \in Command /\ GivenUp(c).at = "library" /\ GivenUp(c).of = c.of
<1>1. PICK m \in Manifests : m = c.of
  OBVIOUS
<1> DEFINE d == [Idle EXCEPT !.at = "library", !.of = m]
<1>2. GivenUp(c) = d
  BY <1>1 DEF GivenUp
<1>3. d \in Command /\ d.at = "library" /\ d.of = m
  BY Begun
<1> HIDE DEF d
<1> QED
  BY <1>1, <1>2, <1>3

LEMMA CommandsTyped ==
  /\ Idle \in Command /\ Meaningful(Idle) /\ ~Writing(Idle)
  /\ \A c \in Command : c.at # "idle" /\ Meaningful(c) =>
       /\ GivenUp(c) \in Command /\ Meaningful(GivenUp(c)) /\ ~Writing(GivenUp(c))
       /\ Accepted(c) \in Command /\ Meaningful(Accepted(c)) /\ ~Writing(Accepted(c))
       /\ \A at \in {"write", "hash", "reject"} : c.at # "library" =>
            /\ [c EXCEPT !.at = at] \in Command
            /\ Meaningful([c EXCEPT !.at = at])
       /\ c.at # "library" /\ c.for = "media" =>
            /\ [c EXCEPT !.at = "root"] \in Command
            /\ Meaningful([c EXCEPT !.at = "root"])
<1> USE DEF Meaningful, Writing, Idle, Command, Stages, BlobOf
<1>1. Idle \in Command /\ Meaningful(Idle) /\ ~Writing(Idle)
  OBVIOUS
<1>2. ASSUME NEW c \in Command, c.at # "idle", Meaningful(c)
      PROVE  GivenUp(c) \in Command /\ Meaningful(GivenUp(c)) /\ ~Writing(GivenUp(c))
  <2>1. CASE c.for = "media"
    BY <1>1, <2>1 DEF GivenUp
  <2>2. CASE c.for = "thumb"
    BY <1>1, <1>2, <2>2, LibraryNext
  <2> QED
    BY <2>1, <2>2
<1>3. ASSUME NEW c \in Command, c.at # "idle", Meaningful(c)
      PROVE  Accepted(c) \in Command /\ Meaningful(Accepted(c)) /\ ~Writing(Accepted(c))
  BY <1>3, <1>2 DEF Accepted, GivenUp
<1>4. ASSUME NEW c \in Command, c.at # "idle", Meaningful(c), c.at # "library",
             NEW at \in {"write", "hash", "reject"}
      PROVE  [c EXCEPT !.at = at] \in Command /\ Meaningful([c EXCEPT !.at = at])
  BY <1>4
<1>5. ASSUME NEW c \in Command, c.at # "idle", Meaningful(c), c.at # "library", c.for = "media"
      PROVE  [c EXCEPT !.at = "root"] \in Command /\ Meaningful([c EXCEPT !.at = "root"])
  BY <1>5
<1> QED
  BY <1>1, <1>2, <1>3, <1>4, <1>5

\* One command moves on; no file disappears.
LEMMA OneCommand ==
  ASSUME TasksTyped, NEW t \in Tasks, NEW c \in Command, Meaningful(c),
         task' = [task EXCEPT ![t] = c],
         \A b \in Blobs : file[b] # Absent => file'[b] # Absent,
         Writing(c) => file'[BlobOf(c)] # Absent
  PROVE  TasksTyped'
<1>1. task' \in [Tasks -> Command] /\ task'[t] = c /\ \A u \in Tasks \ {t} : task'[u] = task[u]
  BY DEF TasksTyped
<1>2. \A u \in Tasks : Writing(task[u]) => BlobOf(task[u]) \in Blobs
  BY DEF TasksTyped, Meaningful, Writing
<1> QED
  BY <1>1, <1>2 DEF TasksTyped

\* A file is removed: those who write to it lose its name.
LEMMA FileRemoved ==
  ASSUME Typed, NEW b \in Blobs, file' = [file EXCEPT ![b] = Absent]
  PROVE  /\ file' \in [Blobs -> Contents]
         /\ Nameless(b) \in [Tasks -> Command]
         /\ \A t \in Tasks :
              /\ Meaningful(Nameless(b)[t])
              /\ Writing(Nameless(b)[t]) => file'[BlobOf(Nameless(b)[t])] # Absent
<1>1. file' \in [Blobs -> Contents]
  BY DEF Typed, TypeOK, Contents
<1>2. ASSUME NEW t \in Tasks
      PROVE  /\ Nameless(b)[t] \in Command /\ Meaningful(Nameless(b)[t])
             /\ Writing(Nameless(b)[t]) => file'[BlobOf(Nameless(b)[t])] # Absent
  <2>1. task[t] \in Command /\ Meaningful(task[t])
    BY DEF Typed, TasksTyped
  <2>2. CASE task[t].at = "write" /\ BlobOf(task[t]) = b
    <3>1. Nameless(b)[t] = [task[t] EXCEPT !.named = FALSE]
      BY <2>2 DEF Nameless
    <3> QED
      BY <3>1, <2>1 DEF Command, Meaningful, Writing, BlobOf
  <2>3. CASE ~(task[t].at = "write" /\ BlobOf(task[t]) = b)
    <3>1. Nameless(b)[t] = task[t]
      BY <2>3 DEF Nameless
    <3>2. Writing(task[t]) => BlobOf(task[t]) # b /\ BlobOf(task[t]) \in Blobs
      BY <2>3, <2>1 DEF Writing, Meaningful
    <3> QED
      BY <3>1, <3>2, <2>1 DEF Typed, TypeOK, TasksTyped
  <2> QED
    BY <2>2, <2>3
<1>3. Nameless(b) \in [Tasks -> Command]
  BY <1>2 DEF Nameless
<1> QED
  BY <1>1, <1>2, <1>3

LEMMA TypedStep ==
  ASSUME Typed, Next
  PROVE  Typed'
<1> USE DEF Typed, databaseVars, boundVars
<1>0. ASSUME NEW t \in Tasks
      PROVE  task[t] \in Command /\ Meaningful(task[t])
  BY DEF TasksTyped
<1>1. ASSUME NEW t \in Tasks, NEW m \in Manifests, FetchManifest(t, m) PROVE Typed'
  <2> DEFINE c == [Idle EXCEPT !.at = "request", !.of = m]
  <2>1. c \in Command /\ c.at = "request" /\ c.of = m /\ c.for = "media" /\ c.named = FALSE
    BY CommandsTyped, Begun
  <2> HIDE DEF c
  <2>2. Meaningful(c) /\ ~Writing(c)
    BY <2>1 DEF Meaningful, BlobOf, Writing
  <2>3. task' = [task EXCEPT ![t] = c]
    BY <1>1 DEF FetchManifest, c
  <2>4. TasksTyped'
    BY <1>1, <2>1, <2>2, <2>3, OneCommand DEF FetchManifest
  <2> QED
    BY <1>1, <2>4 DEF FetchManifest, TypeOK, TasksTyped
<1>2. ASSUME NEW t \in Tasks, RequestFails(t) \/ StreamFails(t) PROVE Typed'
  <2>1. task' = [task EXCEPT ![t] = GivenUp(task[t])] /\ task[t].at # "idle"
        /\ BlobOf(task[t]) \in Blobs
    BY <1>0, <1>2 DEF RequestFails, StreamFails, Meaningful
  <2>2. TasksTyped'
    BY <1>0, <1>2, <2>1, CommandsTyped, OneCommand DEF RequestFails, StreamFails
  <2> QED
    BY <1>2, <2>1, <2>2 DEF RequestFails, StreamFails, TypeOK, TasksTyped
<1>3. ASSUME NEW t \in Tasks, CreateFile(t) PROVE Typed'
  <2> DEFINE b == BlobOf(task[t])
             c == [task[t] EXCEPT !.at = "write", !.written = 0, !.named = TRUE]
  <2>1. b \in Blobs /\ c \in Command /\ Meaningful(c) /\ BlobOf(c) = b
    <3>1. task[t] \in Command /\ task[t].of \in Manifests /\ b \in Blobs
      BY <1>0, <1>3 DEF CreateFile, Meaningful
    <3>2. c \in Command /\ c.at = "write" /\ c.of = task[t].of /\ c.for = task[t].for
      BY <3>1, Moved
    <3> HIDE DEF c
    <3>3. BlobOf(c) = b
      BY <3>2 DEF BlobOf
    <3> QED
      BY <3>1, <3>2, <3>3 DEF Meaningful
  <2>2. task' = [task EXCEPT ![t] = c] /\ file' = [file EXCEPT ![b] = <<>>]
    BY <1>3, <1>0 DEF CreateFile, TasksTyped, Command
  <2>3. file' \in [Blobs -> Contents] /\ file'[b] # Absent
        /\ \A x \in Blobs : file[x] # Absent => file'[x] # Absent
    BY <2>1, <2>2, EmptyFile DEF TypeOK
  <2> HIDE DEF c
  <2>4. TasksTyped'
    BY <2>1, <2>2, <2>3, OneCommand
  <2> QED
    BY <1>3, <2>1, <2>3, <2>4 DEF CreateFile, TypeOK, TasksTyped
<1>4. ASSUME NEW t \in Tasks, NEW chunk \in {Good, Bad}, WriteChunk(t, chunk) PROVE Typed'
  <2> DEFINE b == BlobOf(task[t])
             c == [task[t] EXCEPT !.written = @ + 1]
  <2>1. b \in Blobs /\ c \in Command /\ Meaningful(c) /\ BlobOf(c) = b
        /\ Writing(c) = Writing(task[t]) /\ task[t].written + 1 \in 1..Chunks
    BY <1>0, <1>4 DEF WriteChunk, Meaningful, Command, Stages, BlobOf, Writing
  <2>2. task' = [task EXCEPT ![t] = c]
    BY <1>4, <1>0 DEF WriteChunk, TasksTyped, Command
  <2>3. file' \in [Blobs -> Contents] /\ \A x \in Blobs : file[x] # Absent => file'[x] # Absent
    <3>1. CASE task[t].named
      <4>1. file[b] \in Contents /\ file[b] # Absent
        BY <1>4, <2>1, <3>1 DEF WriteChunk, TypeOK, TasksTyped, Writing
      <4>2. file' = [file EXCEPT ![b] = WriteAt(file[b], task[t].written + 1, chunk)]
        BY <1>4, <3>1, <2>1 DEF WriteChunk, TypeOK
      <4> QED
        BY <4>1, <4>2, <2>1, WriteTyped DEF TypeOK
    <3>2. CASE ~task[t].named
      BY <1>4, <3>2 DEF WriteChunk, TypeOK
    <3> QED
      BY <3>1, <3>2
  <2>4. Writing(c) => file'[BlobOf(c)] # Absent
    BY <2>1, <2>3 DEF TasksTyped
  <2> HIDE DEF c
  <2>5. TasksTyped'
    BY <2>1, <2>2, <2>3, <2>4, OneCommand
  <2> QED
    BY <1>4, <2>3, <2>5 DEF WriteChunk, TypeOK, TasksTyped
<1>5. ASSUME NEW t \in Tasks, StreamEnds(t) PROVE Typed'
  <2> DEFINE c == [task[t] EXCEPT !.at = "hash", !.written = 0, !.named = FALSE]
  <2>1. c \in Command /\ Meaningful(c) /\ ~Writing(c) /\ task' = [task EXCEPT ![t] = c]
    <3>1. task[t] \in Command /\ task[t].of \in Manifests /\ BlobOf(task[t]) \in Blobs
      BY <1>0, <1>5 DEF StreamEnds, Meaningful
    <3>2. /\ c \in Command /\ c.at = "hash" /\ c.of = task[t].of /\ c.for = task[t].for
      BY <3>1, Moved
    <3>3. task' = [task EXCEPT ![t] = c]
      BY <1>5, <3>1 DEF StreamEnds, TasksTyped, Command
    <3> HIDE DEF c
    <3>4. BlobOf(c) = BlobOf(task[t])
      BY <3>2 DEF BlobOf
    <3> QED
      BY <3>1, <3>2, <3>3, <3>4 DEF Meaningful, Writing
  <2> HIDE DEF c
  <2>2. TasksTyped'
    BY <1>5, <2>1, OneCommand DEF StreamEnds
  <2> QED
    BY <1>5, <2>2 DEF StreamEnds, TypeOK, TasksTyped
<1>6. ASSUME NEW t \in Tasks, RehashFile(t) \/ CheckRoot(t) PROVE Typed'
  <2>1. PICK c \in Command : Meaningful(c) /\ ~Writing(c) /\ task' = [task EXCEPT ![t] = c]
    <3>1. task[t].at \in {"hash", "root"}
      BY <1>6 DEF RehashFile, CheckRoot
    <3>2. ~Writing([task[t] EXCEPT !.at = "reject"]) /\ ~Writing([task[t] EXCEPT !.at = "root"])
      BY <1>0 DEF Writing, Command
    <3>3. \E c \in {Accepted(task[t]), [task[t] EXCEPT !.at = "reject"]} \cup
                   {x \in {[task[t] EXCEPT !.at = "root"]} : task[t].for = "media"} :
            task' = [task EXCEPT ![t] = c]
      BY <1>6 DEF RehashFile, CheckRoot
    <3> QED
      BY <1>0, <3>1, <3>2, <3>3, CommandsTyped
  <2>2. TasksTyped'
    BY <1>6, <2>1, OneCommand DEF RehashFile, CheckRoot
  <2> QED
    BY <1>6, <2>2 DEF RehashFile, CheckRoot, TypeOK, TasksTyped
<1>7. ASSUME NEW t \in Tasks, Reject(t) PROVE Typed'
  <2> DEFINE b == BlobOf(task[t])
             c == GivenUp(task[t])
  <2>1. b \in Blobs /\ c \in Command /\ Meaningful(c) /\ ~Writing(c)
    BY <1>0, <1>7, CommandsTyped DEF Reject, Meaningful
  <2>2. file' = [file EXCEPT ![b] = Absent] /\ task' = [Nameless(b) EXCEPT ![t] = c]
    BY <1>7 DEF Reject
  <2> HIDE DEF b, c
  <2>3. TasksTyped' /\ file' \in [Blobs -> Contents]
    BY <2>1, <2>2, FileRemoved DEF TasksTyped
  <2> QED
    BY <1>7, <2>3 DEF Reject, TypeOK, TasksTyped
<1>8. ASSUME NEW t \in Tasks, RecordPin(t) PROVE Typed'
  <2>1. task[t].of \in Manifests
    BY <1>0, <1>8 DEF RecordPin, Meaningful
  <2>2. PICK c \in Command : Meaningful(c) /\ ~Writing(c) /\ task' = [task EXCEPT ![t] = c]
    <3> DEFINE m == task[t].of
               x == [Idle EXCEPT !.at = "request", !.of = m, !.for = "thumb"]
               y == [Idle EXCEPT !.at = "library", !.of = m]
    <3>1. ThumbOf[m] # None => x \in Command /\ Meaningful(x) /\ ~Writing(x)
      <4>1. x \in Command /\ x.at = "request" /\ x.of = m /\ x.for = "thumb" /\ x.named = FALSE
        BY <2>1, CommandsTyped, Begun
      <4> HIDE DEF x
      <4> QED
        BY <2>1, <4>1 DEF Meaningful, BlobOf, Writing
    <3>2. y \in Command /\ Meaningful(y) /\ ~Writing(y)
      <4>1. y \in Command /\ y.at = "library" /\ y.of = m /\ y.for = "media" /\ y.named = FALSE
        BY <2>1, CommandsTyped, Begun
      <4> HIDE DEF y
      <4> QED
        BY <2>1, <4>1 DEF Meaningful, BlobOf, Writing
    <3>3. \/ ThumbOf[m] # None /\ task' = [task EXCEPT ![t] = x]
          \/ task' = [task EXCEPT ![t] = y]
      BY <1>8 DEF RecordPin
    <3> QED
      BY <3>1, <3>2, <3>3
  <2>3. TasksTyped'
    BY <1>8, <2>2, OneCommand DEF RecordPin
  <2> QED
    BY <1>8, <2>1, <2>3 DEF RecordPin, TypeOK, TasksTyped
<1>9. ASSUME NEW t \in Tasks, RecordPinFails(t) \/ CacheManifest(t) \/ CacheFails(t)
       PROVE Typed'
  <2>1. task' = [task EXCEPT ![t] = Idle] /\ file' = file /\ task[t].of \in Manifests
    BY <1>0, <1>9 DEF RecordPinFails, CacheManifest, CacheFails, Meaningful
  <2>2. TasksTyped'
    BY <2>1, CommandsTyped, OneCommand
  <2> QED
    BY <1>9, <2>1, <2>2 DEF RecordPinFails, CacheManifest, CacheFails, TypeOK, TasksTyped
<1>10. ASSUME (\E m \in Manifests : FetchAndVerify(m)) \/ (\E new \in Budgets : SetBudget(new))
               \/ (\E b \in Blobs : UnpinRow(b))
       PROVE Typed'
  BY <1>10 DEF FetchAndVerify, SetBudget, UnpinRow, TypeOK, TasksTyped
<1>11. ASSUME UnpinFile PROVE Typed'
  <2>1. unlinking \in Blobs
    BY <1>11 DEF UnpinFile, TypeOK
  <2>2. file' \in [Blobs -> Contents] /\ TasksTyped'
    BY <1>11, <2>1, FileRemoved DEF UnpinFile, TasksTyped
  <2> QED
    BY <1>11, <2>2 DEF UnpinFile, TypeOK, TasksTyped
<1>12. ASSUME Crash PROVE Typed'
  <2>1. TasksTyped'
    BY <1>12, CommandsTyped DEF Crash, TasksTyped
  <2>2. \A t \in Tasks : task[t].at # "idle" => task[t].of \in Manifests
    BY <1>0 DEF Meaningful
  <2> QED
    BY <1>12, <2>1, <2>2 DEF Crash, TypeOK, TasksTyped
<1> QED
  BY <1>1, <1>2, <1>3, <1>4, <1>5, <1>6, <1>7, <1>8, <1>9, <1>10, <1>11, <1>12
     DEF Next, PinStep

LEMMA TypedInvariant == Spec => []Typed
<1>1. Init => Typed
  BY CommandsTyped DEF Init, Typed, TypeOK, TasksTyped, Contents
<1>2. Typed /\ UNCHANGED vars => Typed'
  BY DEF Typed, TypeOK, TasksTyped, vars
<1> QED
  BY <1>1, <1>2, TypedStep, PTL DEF Spec

-----------------------------------------------------------------------------

Fetches(c) == c.at \in {"write", "hash", "root", "reject"}
Hands(c) == Fetches(c) \/ c.at = "row"

AloneUnlessContested ==
  \A b \in Blobs : b \notin contested =>
    /\ \A t, u \in Tasks : Hands(task[t]) /\ BlobOf(task[t]) = b
                             /\ Hands(task[u]) /\ BlobOf(task[u]) = b => t = u
    /\ \A t \in Tasks : Hands(task[t]) /\ BlobOf(task[t]) = b =>
         pins[b] = None /\ unlinking # b
    /\ unlinking = b => pins[b] = None
    /\ pins[b] # None => file[b] = Whole
    /\ \A t \in Tasks : task[t].at = "row" /\ BlobOf(task[t]) = b => file[b] = Whole

Playable ==
  \A b \in Blobs : file[b] # Absent =>
    \/ file[b] = Whole
    \/ \E t \in Tasks : Fetches(task[t]) /\ BlobOf(task[t]) = b
    \/ b \in abandoned

FileInv == AloneUnlessContested /\ Playable

\* A command moves on and the files stay: it may keep its blob or let it go, with
\* the whole file or with the blob counted as abandoned.
LEMMA CommandMoves ==
  ASSUME FileInv, Typed, NEW t \in Tasks, NEW c,
         task' = [task EXCEPT ![t] = c],
         UNCHANGED <<pins, file, unlinking, contested>>, abandoned \subseteq abandoned',
         Hands(c) => Hands(task[t]) /\ BlobOf(c) = BlobOf(task[t]),
         c.at = "row" => file[BlobOf(c)] = Whole,
         Fetches(task[t]) => \/ Fetches(c) /\ BlobOf(c) = BlobOf(task[t])
                             \/ file[BlobOf(task[t])] = Whole
                             \/ BlobOf(task[t]) \in abandoned'
  PROVE  FileInv'
<1>1. task'[t] = c /\ \A u \in Tasks \ {t} : task'[u] = task[u]
  BY DEF Typed, TasksTyped
<1>2. AloneUnlessContested'
  <2> SUFFICES ASSUME NEW b \in Blobs, b \notin contested
               PROVE  /\ \A x, u \in Tasks : Hands(task'[x]) /\ BlobOf(task'[x]) = b
                           /\ Hands(task'[u]) /\ BlobOf(task'[u]) = b => x = u
                      /\ \A x \in Tasks : Hands(task'[x]) /\ BlobOf(task'[x]) = b =>
                           pins[b] = None /\ unlinking # b
                      /\ unlinking = b => pins[b] = None
                      /\ pins[b] # None => file[b] = Whole
                      /\ \A x \in Tasks : task'[x].at = "row" /\ BlobOf(task'[x]) = b =>
                           file[b] = Whole
    BY DEF AloneUnlessContested
  <2>1. \A x \in Tasks : Hands(task'[x]) /\ BlobOf(task'[x]) = b =>
          Hands(task[x]) /\ BlobOf(task[x]) = b
    BY <1>1
  <2>2. \A x \in Tasks : task'[x].at = "row" /\ BlobOf(task'[x]) = b => file[b] = Whole
    BY <1>1 DEF FileInv, AloneUnlessContested
  <2> QED
    BY <2>1, <2>2 DEF FileInv, AloneUnlessContested
<1>3. Playable'
  <2> SUFFICES ASSUME NEW b \in Blobs, file[b] # Absent, file[b] # Whole, b \notin abandoned'
               PROVE  \E u \in Tasks : Fetches(task'[u]) /\ BlobOf(task'[u]) = b
    BY DEF Playable
  <2>1. PICK u \in Tasks : Fetches(task[u]) /\ BlobOf(task[u]) = b
    BY DEF FileInv, Playable
  <2> QED
    BY <1>1, <2>1
<1> QED
  BY <1>2, <1>3 DEF FileInv

\* A file is removed: nobody has it in hand outside `contested` but the remover.
LEMMA FileGone ==
  ASSUME FileInv, Typed, NEW b \in Blobs, file' = [file EXCEPT ![b] = Absent],
         abandoned' = abandoned \ {b}, UNCHANGED <<pins, contested>>,
         unlinking' \in {unlinking, None},
         \A u \in Tasks : Hands(task'[u]) => task'[u].at = task[u].at
                                              /\ BlobOf(task'[u]) = BlobOf(task[u]),
         \A u \in Tasks : Fetches(task[u]) /\ BlobOf(task[u]) # b =>
           Fetches(task'[u]) /\ BlobOf(task'[u]) = BlobOf(task[u]),
         b \notin contested => pins[b] = None
           /\ \A u \in Tasks : ~(task[u].at = "row" /\ BlobOf(task[u]) = b)
  PROVE  FileInv'
<1>0. file'[b] = Absent /\ \A x \in Blobs \ {b} : file'[x] = file[x]
  BY DEF Typed, TypeOK
<1>1. AloneUnlessContested'
  <2> SUFFICES ASSUME NEW x \in Blobs, x \notin contested
               PROVE  /\ \A t, u \in Tasks : Hands(task'[t]) /\ BlobOf(task'[t]) = x
                           /\ Hands(task'[u]) /\ BlobOf(task'[u]) = x => t = u
                      /\ \A t \in Tasks : Hands(task'[t]) /\ BlobOf(task'[t]) = x =>
                           pins[x] = None /\ unlinking' # x
                      /\ unlinking' = x => pins[x] = None
                      /\ pins[x] # None => file'[x] = Whole
                      /\ \A t \in Tasks : task'[t].at = "row" /\ BlobOf(task'[t]) = x =>
                           file'[x] = Whole
    BY DEF AloneUnlessContested
  <2>1. \A t \in Tasks : Hands(task'[t]) /\ BlobOf(task'[t]) = x =>
          Hands(task[t]) /\ BlobOf(task[t]) = x
    BY DEF Hands, Fetches
  <2>2. \A t \in Tasks : task'[t].at = "row" => task[t].at = "row" /\ BlobOf(task'[t]) = BlobOf(task[t])
    BY DEF Hands
  <2>3. unlinking' = x => unlinking = x
    OBVIOUS
  <2> QED
    BY <1>0, <2>1, <2>2, <2>3 DEF FileInv, AloneUnlessContested
<1>2. Playable'
  BY <1>0 DEF FileInv, Playable
<1> QED
  BY <1>1, <1>2 DEF FileInv

\* A command that lets go of its download has nothing in hand.
LEMMA LetsGo ==
  ASSUME NEW c \in Command, c.at # "idle", Meaningful(c)
  PROVE  /\ ~Hands(Idle) /\ ~Hands(GivenUp(c))
         /\ \A m \in Manifests : ~Hands([Idle EXCEPT !.at = "request", !.of = m])
         /\ ~Hands([Idle EXCEPT !.at = "request", !.of = c.of, !.for = "thumb"])
         /\ ~Hands([Idle EXCEPT !.at = "library", !.of = c.of])
<1> USE DEF Hands, Fetches
<1>1. ~Hands(Idle)
  BY DEF Idle
<1>2. \A m \in Manifests : ~Hands([Idle EXCEPT !.at = "request", !.of = m])
  BY CommandsTyped, Begun
<1>3. PICK m \in Manifests : m = c.of
  BY DEF Meaningful
<1>4. /\ ~Hands([Idle EXCEPT !.at = "request", !.of = m, !.for = "thumb"])
      /\ ~Hands([Idle EXCEPT !.at = "library", !.of = m])
  BY CommandsTyped, Begun
<1>5. CASE c.for = "media"
  BY <1>1, <1>2, <1>3, <1>4, <1>5 DEF GivenUp
<1>6. CASE c.for = "thumb"
  BY <1>1, <1>2, <1>3, <1>4, <1>6, CommandsTyped, LibraryNext DEF Command
<1> QED
  BY <1>5, <1>6 DEF Command

\* What a check leads to.
LEMMA Checked ==
  ASSUME NEW c \in Command, c.at \in {"hash", "root"}, Meaningful(c)
  PROVE  /\ \A at \in {"root", "reject"} :
              Fetches([c EXCEPT !.at = at]) /\ BlobOf([c EXCEPT !.at = at]) = BlobOf(c)
              /\ [c EXCEPT !.at = at].at # "row"
         /\ \/ Accepted(c).at = "row" /\ BlobOf(Accepted(c)) = BlobOf(c)
            \/ ~Hands(Accepted(c))
<1>1. \A at \in {"root", "reject"} :
        Fetches([c EXCEPT !.at = at]) /\ BlobOf([c EXCEPT !.at = at]) = BlobOf(c)
        /\ [c EXCEPT !.at = at].at # "row"
  BY DEF Command, Fetches, BlobOf
<1>2. CASE c.for = "media"
  <2>1. Accepted(c).at = "row" /\ BlobOf(Accepted(c)) = BlobOf(c)
    BY <1>2 DEF Accepted, Command, BlobOf
  <2> QED
    BY <1>1, <2>1
<1>3. CASE c.for # "media"
  <2>1. ~Hands(Accepted(c))
    BY <1>3, LetsGo DEF Accepted
  <2> QED
    BY <1>1, <2>1
<1> QED
  BY <1>2, <1>3

LEMMA FileInvStep ==
  ASSUME FileInv, Typed, Next
  PROVE  FileInv'
<1> USE DEF databaseVars, boundVars
<1>0. ASSUME NEW t \in Tasks
      PROVE  task[t] \in Command /\ Meaningful(task[t])
  BY DEF Typed, TasksTyped
<1>00. \A t \in Tasks : Hands(task[t]) => BlobOf(task[t]) \in Blobs
  BY <1>0 DEF Hands, Fetches, Meaningful
<1>1. ASSUME NEW t \in Tasks, NEW m \in Manifests, FetchManifest(t, m) PROVE FileInv'
  <2> DEFINE c == [Idle EXCEPT !.at = "request", !.of = m]
  <2>1. ~Hands(c) /\ ~Fetches(task[t])
    <3>1. c.at = "request"
      BY CommandsTyped, Begun
    <3> HIDE DEF c
    <3> QED
      BY <1>1, <3>1 DEF FetchManifest, Hands, Fetches
  <2>2. task' = [task EXCEPT ![t] = c]
    BY <1>1 DEF FetchManifest
  <2> HIDE DEF c
  <2>3. c.at # "row" /\ UNCHANGED <<pins, file, unlinking, contested, abandoned>>
    BY <1>1, <2>1 DEF FetchManifest, Hands
  <2> QED
    BY <2>1, <2>2, <2>3, CommandMoves
<1>2. ASSUME NEW t \in Tasks, RequestFails(t) \/ StreamFails(t) PROVE FileInv'
  <2> DEFINE c == GivenUp(task[t])
  <2>1. task[t].at # "idle" /\ task' = [task EXCEPT ![t] = c]
        /\ UNCHANGED <<pins, file, unlinking, contested>> /\ abandoned \subseteq abandoned'
        /\ (Fetches(task[t]) => BlobOf(task[t]) \in abandoned')
    BY <1>2 DEF RequestFails, StreamFails, Fetches
  <2>2. ~Hands(c)
    BY <1>0, <2>1, LetsGo
  <2> HIDE DEF c
  <2> QED
    BY <2>1, <2>2, CommandMoves DEF Hands
<1>3. ASSUME NEW t \in Tasks, StreamEnds(t) PROVE FileInv'
  <2> DEFINE c == [task[t] EXCEPT !.at = "hash", !.written = 0, !.named = FALSE]
  <2>1. task' = [task EXCEPT ![t] = c]
    BY <1>3, <1>0 DEF StreamEnds, Typed, TasksTyped, Command
  <2>2. c.at = "hash" /\ c.of = task[t].of /\ c.for = task[t].for
    BY <1>0, Moved
  <2>3. Fetches(task[t]) /\ UNCHANGED <<pins, file, unlinking, contested, abandoned>>
    BY <1>3 DEF StreamEnds, Fetches
  <2> HIDE DEF c
  <2>4. BlobOf(c) = BlobOf(task[t]) /\ Fetches(c)
    BY <2>2 DEF BlobOf, Fetches
  <2> QED
    BY <2>1, <2>2, <2>3, <2>4, CommandMoves DEF Hands
<1>4. ASSUME NEW t \in Tasks, RehashFile(t) \/ CheckRoot(t) PROVE FileInv'
  <2>1. task[t].at \in {"hash", "root"} /\ Fetches(task[t])
        /\ UNCHANGED <<pins, file, unlinking, contested, abandoned>>
    BY <1>4 DEF RehashFile, CheckRoot, Fetches
  <2>2. PICK c : /\ task' = [task EXCEPT ![t] = c]
                 /\ \/ c = Accepted(task[t]) /\ file[BlobOf(task[t])] = Whole
                    \/ \E at \in {"root", "reject"} : c = [task[t] EXCEPT !.at = at]
    BY <1>4 DEF RehashFile, CheckRoot, Hashes
  <2>3. CASE c = Accepted(task[t]) /\ file[BlobOf(task[t])] = Whole
    BY <1>0, <2>1, <2>2, <2>3, Checked, CommandMoves DEF Hands
  <2>4. CASE \E at \in {"root", "reject"} : c = [task[t] EXCEPT !.at = at]
    BY <1>0, <2>1, <2>2, <2>4, Checked, CommandMoves DEF Hands
  <2> QED
    BY <2>2, <2>3, <2>4
<1>5. ASSUME NEW t \in Tasks, RecordPinFails(t) \/ CacheManifest(t) \/ CacheFails(t)
      PROVE  FileInv'
  <2>1. task' = [task EXCEPT ![t] = Idle] /\ ~Fetches(task[t])
        /\ UNCHANGED <<pins, file, unlinking, contested, abandoned>>
    BY <1>5 DEF RecordPinFails, CacheManifest, CacheFails, Fetches
  <2>2. ~Hands(Idle)
    BY DEF Idle, Hands, Fetches
  <2> QED
    BY <2>1, <2>2, CommandMoves DEF Hands
<1>6. ASSUME NEW t \in Tasks, CreateFile(t) PROVE FileInv'
  <2> DEFINE b == BlobOf(task[t])
             c == [task[t] EXCEPT !.at = "write", !.written = 0, !.named = TRUE]
  <2>1. b \in Blobs /\ task[t].at = "request"
    BY <1>0, <1>6 DEF CreateFile, Meaningful
  <2>2. c.at = "write" /\ c.of = task[t].of /\ c.for = task[t].for
    BY <1>0, Moved
  <2>3. task'[t] = c /\ \A u \in Tasks \ {t} : task'[u] = task[u]
    BY <1>6, <1>0 DEF CreateFile, Typed, TasksTyped, Command
  <2> HIDE DEF c
  <2>4. BlobOf(task'[t]) = b /\ Fetches(task'[t]) /\ task'[t].at # "row"
    BY <2>2, <2>3 DEF BlobOf, Fetches
  <2>5. \A u \in Tasks : InHand(b) = {} => ~(Hands(task[u]) /\ BlobOf(task[u]) = b)
    BY DEF InHand, Fetching, Hands, Fetches
  <2>6. /\ \A x \in Blobs \ {b} : file'[x] = file[x]
        /\ abandoned' = abandoned \ {b} /\ UNCHANGED <<pins, unlinking>>
        /\ \/ contested' = contested \cup {b}
           \/ contested' = contested \ {b} /\ pins[b] = None /\ unlinking # b /\ InHand(b) = {}
    BY <1>6, <2>1 DEF CreateFile, Typed, TypeOK
  <2> HIDE DEF b
  <2>7. AloneUnlessContested'
    <3> SUFFICES ASSUME NEW x \in Blobs, x \notin contested'
                 PROVE  /\ \A v, u \in Tasks : Hands(task'[v]) /\ BlobOf(task'[v]) = x
                             /\ Hands(task'[u]) /\ BlobOf(task'[u]) = x => v = u
                        /\ \A v \in Tasks : Hands(task'[v]) /\ BlobOf(task'[v]) = x =>
                             pins'[x] = None /\ unlinking' # x
                        /\ unlinking' = x => pins'[x] = None
                        /\ pins'[x] # None => file'[x] = Whole
                        /\ \A v \in Tasks : task'[v].at = "row" /\ BlobOf(task'[v]) = x =>
                             file'[x] = Whole
      BY DEF AloneUnlessContested
    <3>1. CASE x = b
      <4>1. \A u \in Tasks \ {t} : ~(Hands(task'[u]) /\ BlobOf(task'[u]) = b)
        BY <2>3, <2>5, <2>6, <3>1
      <4> QED
        BY <2>4, <2>6, <3>1, <4>1 DEF Hands
    <3>2. CASE x # b
      <4>1. x \notin contested
        BY <2>6, <3>2
      <4>2. \A u \in Tasks : Hands(task'[u]) /\ BlobOf(task'[u]) = x => task'[u] = task[u]
        BY <2>3, <2>4, <3>2
      <4>3. \A u \in Tasks : task'[u].at = "row" /\ BlobOf(task'[u]) = x => task'[u] = task[u]
        BY <2>3, <2>4, <3>2
      <4> QED
        BY <2>6, <3>2, <4>1, <4>2, <4>3 DEF FileInv, AloneUnlessContested
    <3> QED
      BY <3>1, <3>2
  <2>8. Playable'
    <3> SUFFICES ASSUME NEW x \in Blobs, file'[x] # Absent, file'[x] # Whole, x \notin abandoned'
                 PROVE  \E u \in Tasks : Fetches(task'[u]) /\ BlobOf(task'[u]) = x
      BY DEF Playable
    <3>1. CASE x = b
      BY <2>4, <3>1
    <3>2. CASE x # b
      <4>1. PICK u \in Tasks : Fetches(task[u]) /\ BlobOf(task[u]) = x
        BY <2>6, <3>2 DEF FileInv, Playable
      <4>2. u # t
        BY <2>1, <4>1 DEF Fetches
      <4> QED
        BY <2>3, <4>1, <4>2
    <3> QED
      BY <3>1, <3>2
  <2> QED
    BY <2>7, <2>8 DEF FileInv
<1>7. ASSUME NEW t \in Tasks, NEW chunk \in {Good, Bad}, WriteChunk(t, chunk) PROVE FileInv'
  <2> DEFINE b == BlobOf(task[t])
  <2>1. b \in Blobs /\ Fetches(task[t]) /\ Hands(task[t]) /\ task[t].at = "write"
    BY <1>0, <1>7 DEF WriteChunk, Meaningful, Hands, Fetches
  <2>2. /\ \A u \in Tasks : task'[u].at = task[u].at /\ BlobOf(task'[u]) = BlobOf(task[u])
        /\ \A x \in Blobs \ {b} : file'[x] = file[x]
        /\ UNCHANGED <<pins, unlinking, contested, abandoned>>
    BY <1>7, <1>0 DEF WriteChunk, Typed, TypeOK, TasksTyped, Command, BlobOf
  <2> HIDE DEF b
  <2>3. \A u \in Tasks : (Hands(task'[u]) <=> Hands(task[u])) /\ (Fetches(task'[u]) <=> Fetches(task[u]))
    BY <2>2 DEF Hands, Fetches
  <2>4. AloneUnlessContested'
    <3> SUFFICES ASSUME NEW x \in Blobs, x \notin contested'
                 PROVE  /\ \A v, u \in Tasks : Hands(task'[v]) /\ BlobOf(task'[v]) = x
                             /\ Hands(task'[u]) /\ BlobOf(task'[u]) = x => v = u
                        /\ \A v \in Tasks : Hands(task'[v]) /\ BlobOf(task'[v]) = x =>
                             pins'[x] = None /\ unlinking' # x
                        /\ unlinking' = x => pins'[x] = None
                        /\ pins'[x] # None => file'[x] = Whole
                        /\ \A v \in Tasks : task'[v].at = "row" /\ BlobOf(task'[v]) = x =>
                             file'[x] = Whole
      BY DEF AloneUnlessContested
    <3>1. /\ \A v, u \in Tasks : Hands(task[v]) /\ BlobOf(task[v]) = x
               /\ Hands(task[u]) /\ BlobOf(task[u]) = x => v = u
          /\ \A v \in Tasks : Hands(task[v]) /\ BlobOf(task[v]) = x =>
               pins[x] = None /\ unlinking # x
          /\ unlinking = x => pins[x] = None
          /\ pins[x] # None => file[x] = Whole
          /\ \A v \in Tasks : task[v].at = "row" /\ BlobOf(task[v]) = x => file[x] = Whole
      BY <2>2 DEF FileInv, AloneUnlessContested
    <3>2. CASE x = b
      <4>1. BlobOf(task[t]) = x
        BY <3>2 DEF b
      <4>2. \A v \in Tasks : ~(task'[v].at = "row" /\ BlobOf(task'[v]) = x)
        BY <2>1, <2>2, <3>1, <4>1 DEF Hands
      <4> QED
        BY <2>1, <2>2, <2>3, <3>1, <4>1, <4>2
    <3>3. CASE x # b
      BY <2>2, <2>3, <3>1, <3>3
    <3> QED
      BY <3>2, <3>3
  <2>5. Playable'
    <3> SUFFICES ASSUME NEW x \in Blobs, file'[x] # Absent, file'[x] # Whole, x \notin abandoned'
                 PROVE  \E u \in Tasks : Fetches(task'[u]) /\ BlobOf(task'[u]) = x
      BY DEF Playable
    <3>1. CASE x = b
      BY <2>1, <2>2, <2>3, <3>1 DEF b
    <3>2. CASE x # b
      BY <2>2, <2>3, <3>2 DEF FileInv, Playable
    <3> QED
      BY <3>1, <3>2
  <2> QED
    BY <2>4, <2>5 DEF FileInv
<1>8. ASSUME NEW t \in Tasks, Reject(t) PROVE FileInv'
  <2> DEFINE b == BlobOf(task[t])
             c == GivenUp(task[t])
  <2>1. b \in Blobs /\ Fetches(task[t]) /\ task[t].at = "reject" /\ ~Hands(c)
    BY <1>0, <1>8, LetsGo DEF Reject, Meaningful, Fetches
  <2>2. /\ file' = [file EXCEPT ![b] = Absent] /\ task' = [Nameless(b) EXCEPT ![t] = c]
        /\ abandoned' = abandoned \ {b} /\ UNCHANGED <<pins, contested, unlinking>>
    BY <1>8 DEF Reject
  <2> HIDE DEF c
  <2>3. task'[t] = c /\ \A u \in Tasks \ {t} : task'[u] = Nameless(b)[u]
    BY <2>2 DEF Nameless
  <2>4. \A u \in Tasks : Nameless(b)[u].at = task[u].at /\ BlobOf(Nameless(b)[u]) = BlobOf(task[u])
    BY <1>0 DEF Nameless, Command, BlobOf
  <2>5. b \notin contested => pins[b] = None
          /\ \A u \in Tasks : ~(task[u].at = "row" /\ BlobOf(task[u]) = b)
    <3>1. Hands(task[t]) /\ BlobOf(task[t]) = b
      BY <2>1 DEF Hands, b
    <3> QED
      BY <2>1, <3>1 DEF FileInv, AloneUnlessContested, Hands
  <2>6. \A u \in Tasks : Hands(task'[u]) => task'[u].at = task[u].at
                           /\ BlobOf(task'[u]) = BlobOf(task[u])
    BY <2>1, <2>3, <2>4
  <2>7. \A u \in Tasks : Fetches(task[u]) /\ BlobOf(task[u]) # b =>
          Fetches(task'[u]) /\ BlobOf(task'[u]) = BlobOf(task[u])
    BY <2>3, <2>4 DEF Fetches
  <2> HIDE DEF b
  <2> QED
    BY <2>1, <2>2, <2>5, <2>6, <2>7, FileGone
<1>9. ASSUME NEW t \in Tasks, RecordPin(t) PROVE FileInv'
  <2> DEFINE b == BlobOf(task[t])
  <2>1. b \in Blobs /\ b = MediaOf[task[t].of] /\ task[t].at = "row" /\ Hands(task[t])
    BY <1>0, <1>9 DEF RecordPin, Meaningful, BlobOf, Hands
  <2>2. PICK c : ~Hands(c) /\ task' = [task EXCEPT ![t] = c]
    BY <1>0, <1>9, <2>1, LetsGo DEF RecordPin
  <2>3. task'[t] = c /\ \A u \in Tasks \ {t} : task'[u] = task[u]
    BY <2>2 DEF Typed, TasksTyped
  <2>4. pins' = [pins EXCEPT ![b] = task[t].of]
        /\ UNCHANGED <<file, unlinking, contested, abandoned>>
    BY <1>9, <2>1 DEF RecordPin
  <2>5. \A x \in Blobs \ {b} : pins'[x] = pins[x]
    BY <2>4 DEF Typed, TypeOK
  <2>6. ~Hands(task'[t]) /\ ~Fetches(task'[t]) /\ task'[t].at # "row"
    BY <2>2, <2>3 DEF Hands
  <2>7. AloneUnlessContested'
    <3> SUFFICES ASSUME NEW x \in Blobs, x \notin contested
                 PROVE  /\ \A v, u \in Tasks : Hands(task'[v]) /\ BlobOf(task'[v]) = x
                             /\ Hands(task'[u]) /\ BlobOf(task'[u]) = x => v = u
                        /\ \A v \in Tasks : Hands(task'[v]) /\ BlobOf(task'[v]) = x =>
                             pins'[x] = None /\ unlinking # x
                        /\ unlinking = x => pins'[x] = None
                        /\ pins'[x] # None => file[x] = Whole
                        /\ \A v \in Tasks : task'[v].at = "row" /\ BlobOf(task'[v]) = x =>
                             file[x] = Whole
      BY <2>4 DEF AloneUnlessContested
    <3>1. /\ \A v, u \in Tasks : Hands(task[v]) /\ BlobOf(task[v]) = x
               /\ Hands(task[u]) /\ BlobOf(task[u]) = x => v = u
          /\ \A v \in Tasks : Hands(task[v]) /\ BlobOf(task[v]) = x =>
               pins[x] = None /\ unlinking # x
          /\ unlinking = x => pins[x] = None
          /\ pins[x] # None => file[x] = Whole
          /\ \A v \in Tasks : task[v].at = "row" /\ BlobOf(task[v]) = x => file[x] = Whole
      BY DEF FileInv, AloneUnlessContested
    <3>2. \A v \in Tasks : Hands(task'[v]) => v # t /\ task'[v] = task[v]
      BY <2>3, <2>6
    <3>3. \A v \in Tasks : task'[v].at = "row" => v # t /\ task'[v] = task[v]
      BY <2>3, <2>6
    <3>4. CASE x = b
      <4>1. unlinking # x /\ file[x] = Whole
        BY <2>1, <3>1, <3>4
      <4>2. \A v \in Tasks : ~(Hands(task'[v]) /\ BlobOf(task'[v]) = x)
        BY <2>1, <3>1, <3>2, <3>4
      <4> QED
        BY <3>4, <4>1, <4>2
    <3>5. CASE x # b
      BY <2>5, <3>1, <3>2, <3>3, <3>5
    <3> QED
      BY <3>4, <3>5
  <2>8. Playable'
    <3>1. \A u \in Tasks : Fetches(task[u]) => task'[u] = task[u]
      BY <2>1, <2>3 DEF Fetches
    <3> QED
      BY <2>4, <3>1 DEF FileInv, Playable
  <2> QED
    BY <2>7, <2>8 DEF FileInv
<1>10. ASSUME (\E m \in Manifests : FetchAndVerify(m)) \/ (\E new \in Budgets : SetBudget(new))
       PROVE  FileInv'
  BY <1>10 DEF FetchAndVerify, SetBudget, FileInv, AloneUnlessContested, Playable
<1>11. ASSUME NEW b \in Blobs, UnpinRow(b) PROVE FileInv'
  <2>1. pins'[b] = None /\ \A x \in Blobs \ {b} : pins'[x] = pins[x]
    BY <1>11 DEF UnpinRow, Typed, TypeOK
  <2>2. /\ unlinking = None /\ unlinking' = b /\ UNCHANGED <<file, task, abandoned>>
        /\ contested \subseteq contested'
        /\ b \notin contested' =>
             \A u \in Tasks : ~(Hands(task[u]) /\ BlobOf(task[u]) = b)
    BY <1>11 DEF UnpinRow, InHand, Fetching, Hands, Fetches
  <2>3. AloneUnlessContested'
    <3> SUFFICES ASSUME NEW x \in Blobs, x \notin contested'
                 PROVE  /\ \A v, u \in Tasks : Hands(task[v]) /\ BlobOf(task[v]) = x
                             /\ Hands(task[u]) /\ BlobOf(task[u]) = x => v = u
                        /\ \A v \in Tasks : Hands(task[v]) /\ BlobOf(task[v]) = x =>
                             pins'[x] = None /\ b # x
                        /\ b = x => pins'[x] = None
                        /\ pins'[x] # None => file[x] = Whole
                        /\ \A v \in Tasks : task[v].at = "row" /\ BlobOf(task[v]) = x =>
                             file[x] = Whole
      BY <2>2 DEF AloneUnlessContested
    <3>1. /\ \A v, u \in Tasks : Hands(task[v]) /\ BlobOf(task[v]) = x
               /\ Hands(task[u]) /\ BlobOf(task[u]) = x => v = u
          /\ \A v \in Tasks : Hands(task[v]) /\ BlobOf(task[v]) = x => pins[x] = None
          /\ pins[x] # None => file[x] = Whole
          /\ \A v \in Tasks : task[v].at = "row" /\ BlobOf(task[v]) = x => file[x] = Whole
      BY <2>2 DEF FileInv, AloneUnlessContested
    <3> QED
      BY <2>1, <2>2, <3>1
  <2> QED
    BY <2>2, <2>3 DEF FileInv, Playable
<1>12. ASSUME UnpinFile PROVE FileInv'
  <2> DEFINE b == unlinking
  <2>1. b \in Blobs /\ unlinking' = None
    BY <1>12 DEF UnpinFile, Typed, TypeOK
  <2>2. /\ file' = [file EXCEPT ![b] = Absent] /\ task' = Nameless(b)
        /\ abandoned' = abandoned \ {b} /\ UNCHANGED <<pins, contested>>
    BY <1>12 DEF UnpinFile
  <2>3. \A u \in Tasks : task'[u].at = task[u].at /\ BlobOf(task'[u]) = BlobOf(task[u])
    BY <1>0, <2>2 DEF Nameless, Command, BlobOf
  <2>4. b \notin contested => pins[b] = None
          /\ \A u \in Tasks : ~(task[u].at = "row" /\ BlobOf(task[u]) = b)
    BY <2>1 DEF FileInv, AloneUnlessContested, Hands
  <2>5. \A u \in Tasks : Fetches(task[u]) /\ BlobOf(task[u]) # b =>
          Fetches(task'[u]) /\ BlobOf(task'[u]) = BlobOf(task[u])
    BY <2>3 DEF Fetches
  <2> QED
    BY <2>1, <2>2, <2>3, <2>4, <2>5, FileGone
<1>13. ASSUME Crash PROVE FileInv'
  <2>1. \A t \in Tasks : task'[t] = Idle
    BY <1>13 DEF Crash
  <2>2. \A t \in Tasks : ~Hands(task'[t]) /\ ~Fetches(task'[t]) /\ task'[t].at # "row"
    BY <2>1 DEF Idle, Hands, Fetches
  <2>3. /\ unlinking' = None /\ UNCHANGED <<pins, file, contested>>
        /\ abandoned' = abandoned \cup {b \in Blobs : Fetching(b) # {}}
    BY <1>13 DEF Crash
  <2>4. \A b \in Blobs, t \in Tasks : Fetches(task[t]) /\ BlobOf(task[t]) = b => b \in abandoned'
    BY <2>3 DEF Fetching, Fetches
  <2>5. AloneUnlessContested'
    BY <2>2, <2>3 DEF FileInv, AloneUnlessContested
  <2>6. Playable'
    BY <2>3, <2>4 DEF FileInv, Playable
  <2> QED
    BY <2>5, <2>6 DEF FileInv
<1> QED
  BY <1>1, <1>2, <1>3, <1>4, <1>5, <1>6, <1>7, <1>8, <1>9, <1>10, <1>11, <1>12, <1>13
     DEF Next, PinStep

LEMMA FileInvariant == Spec => []FileInv
<1>1. Init => FileInv
  BY DEF Init, FileInv, AloneUnlessContested, Playable, Idle, Hands, Fetches
<1>2. FileInv /\ UNCHANGED vars => FileInv'
  BY DEF FileInv, AloneUnlessContested, Playable, vars
<1> QED
  BY <1>1, <1>2, FileInvStep, TypedInvariant, PTL DEF Spec

-----------------------------------------------------------------------------

\* Every variable of the node keeps its type: no download writes past the blob,
\* whatever overlaps, and no command is left with half a state (pin_manifest).
THEOREM TypeCorrect == Spec => []TypeOK
<1>1. Typed => TypeOK
  BY DEF Typed
<1> QED
  BY <1>1, TypedInvariant, PTL

\* What local_media_path hands to the player is verified content, except while a
\* download into that file is unchecked or after one was given up.
THEOREM PlayableVerified == Spec => []PlayableIsVerified
<1>1. FileInv => PlayableIsVerified
  BY DEF FileInv, Playable, PlayableIsVerified, LocalMediaPath, Fetching, Fetches
<1> QED
  BY <1>1, FileInvariant, PTL

\* A pinned blob has its whole file unless two operations had it in hand at once
\* (pin_manifest, unpin_blob).
THEOREM PinnedKeepsFile == Spec => []PinKeepsItsFile
<1>1. FileInv => PinKeepsItsFile
  BY DEF FileInv, AloneUnlessContested, PinKeepsItsFile
<1> QED
  BY <1>1, FileInvariant, PTL


-----------------------------------------------------------------------------

\* A command past the row it recorded: it fetches the thumbnail or is about to
\* write the library row.
PastTheRow(c, m) == c.of = m /\ c.at # "idle" /\ (c.for = "thumb" \/ c.at = "library")

Accounted(m) == m \in library \/ m \in unlisted \/ \E t \in Tasks : PastTheRow(task[t], m)

EveryPinAccounted == \A b \in Blobs : pins[b] # None => Accounted(pins[b])

\* A thumbnail given up leaves its command at the library row.
LEMMA ThumbGivenUp ==
  ASSUME NEW c \in Command, c.at # "idle", Meaningful(c), c.for = "thumb"
  PROVE  GivenUp(c).of = c.of /\ GivenUp(c).at = "library"
BY LibraryNext, CommandsTyped DEF Meaningful

\* One command moves on: past its row it stays there until it is listed.
LEMMA CommandKeepsAccounts ==
  ASSUME Typed, NEW t \in Tasks, NEW c, task' = [task EXCEPT ![t] = c],
         library \subseteq library', unlisted \subseteq unlisted',
         \A m \in Manifests : PastTheRow(task[t], m) =>
           PastTheRow(c, m) \/ m \in library' \/ m \in unlisted'
  PROVE  \A m \in Manifests : Accounted(m) => Accounted(m)'
<1>1. task'[t] = c /\ \A u \in Tasks \ {t} : task'[u] = task[u]
  BY DEF Typed, TasksTyped
<1> QED
  BY <1>1 DEF Accounted

LEMMA AccountsStep ==
  ASSUME EveryPinAccounted, Typed, Next
  PROVE  EveryPinAccounted'
<1> USE DEF databaseVars, boundVars
<1>0. ASSUME NEW t \in Tasks
      PROVE  task[t] \in Command /\ Meaningful(task[t])
  BY DEF Typed, TasksTyped
<1>a. \A b \in Blobs : pins[b] # None => pins[b] \in Manifests
  BY DEF Typed, TypeOK
<1>1. ASSUME NEW t \in Tasks, NEW m \in Manifests, FetchManifest(t, m) PROVE EveryPinAccounted'
  <2> DEFINE c == [Idle EXCEPT !.at = "request", !.of = m]
  <2>1. task' = [task EXCEPT ![t] = c] /\ UNCHANGED <<pins, library, unlisted>>
    BY <1>1 DEF FetchManifest
  <2>2. \A n \in Manifests : ~PastTheRow(task[t], n)
    BY <1>1 DEF FetchManifest, PastTheRow
  <2> HIDE DEF c
  <2> QED
    BY <1>a, <2>1, <2>2, CommandKeepsAccounts DEF EveryPinAccounted
<1>2. ASSUME NEW t \in Tasks, RequestFails(t) \/ StreamFails(t) PROVE EveryPinAccounted'
  <2> DEFINE c == GivenUp(task[t])
  <2>1. task' = [task EXCEPT ![t] = c] /\ UNCHANGED <<pins, library, unlisted>>
        /\ task[t].at \in {"request", "write"}
    BY <1>2 DEF RequestFails, StreamFails
  <2>2. \A m \in Manifests : PastTheRow(task[t], m) => PastTheRow(c, m)
    BY <1>0, <2>1, ThumbGivenUp DEF PastTheRow
  <2> HIDE DEF c
  <2> QED
    BY <1>a, <2>1, <2>2, CommandKeepsAccounts DEF EveryPinAccounted
<1>3. ASSUME NEW t \in Tasks,
             CreateFile(t) \/ (\E chunk \in {Good, Bad} : WriteChunk(t, chunk)) \/ StreamEnds(t)
      PROVE  EveryPinAccounted'
  <2>1. PICK c : task' = [task EXCEPT ![t] = c] /\ c.of = task[t].of /\ c.for = task[t].for
                 /\ c.at # "idle"
    <3>1. CASE CreateFile(t)
      <4> DEFINE x == [task[t] EXCEPT !.at = "write", !.written = 0, !.named = TRUE]
      <4>1. task' = [task EXCEPT ![t] = x]
        BY <3>1 DEF CreateFile, Typed, TasksTyped
      <4>2. x.of = task[t].of /\ x.for = task[t].for /\ x.at # "idle"
        BY <1>0, Moved
      <4> HIDE DEF x
      <4> QED
        BY <4>1, <4>2
    <3>2. CASE \E chunk \in {Good, Bad} : WriteChunk(t, chunk)
      <4> DEFINE x == [task[t] EXCEPT !.written = @ + 1]
      <4>1. task' = [task EXCEPT ![t] = x]
        BY <3>2 DEF WriteChunk, Typed, TasksTyped
      <4>2. x.of = task[t].of /\ x.for = task[t].for /\ x.at # "idle"
        BY <1>0, <3>2 DEF WriteChunk, Command
      <4> HIDE DEF x
      <4> QED
        BY <4>1, <4>2
    <3>3. CASE StreamEnds(t)
      <4> DEFINE x == [task[t] EXCEPT !.at = "hash", !.written = 0, !.named = FALSE]
      <4>1. task' = [task EXCEPT ![t] = x]
        BY <3>3 DEF StreamEnds, Typed, TasksTyped
      <4>2. x.of = task[t].of /\ x.for = task[t].for /\ x.at # "idle"
        BY <1>0, Moved
      <4> HIDE DEF x
      <4> QED
        BY <4>1, <4>2
    <3> QED
      BY <1>3, <3>1, <3>2, <3>3
  <2>2. task[t].at # "library" /\ UNCHANGED <<pins, library, unlisted>>
    BY <1>3 DEF CreateFile, WriteChunk, StreamEnds
  <2>3. \A m \in Manifests : PastTheRow(task[t], m) => PastTheRow(c, m)
    BY <2>1, <2>2 DEF PastTheRow
  <2> QED
    BY <1>a, <2>1, <2>2, <2>3, CommandKeepsAccounts DEF EveryPinAccounted
<1>4. ASSUME NEW t \in Tasks, RehashFile(t) \/ CheckRoot(t) PROVE EveryPinAccounted'
  <2>1. PICK c : /\ task' = [task EXCEPT ![t] = c]
                 /\ \/ c = Accepted(task[t])
                    \/ \E at \in {"root", "reject"} : c = [task[t] EXCEPT !.at = at]
    BY <1>4 DEF RehashFile, CheckRoot
  <2>2. task[t].at \in {"hash", "root"} /\ UNCHANGED <<pins, library, unlisted>>
    BY <1>4 DEF RehashFile, CheckRoot
  <2>3. \A m \in Manifests : PastTheRow(task[t], m) => PastTheRow(c, m)
    <3>1. CASE c = Accepted(task[t])
      BY <1>0, <2>2, <3>1, ThumbGivenUp DEF PastTheRow, Accepted
    <3>2. CASE \E at \in {"root", "reject"} : c = [task[t] EXCEPT !.at = at]
      BY <1>0, <2>2, <3>2 DEF PastTheRow, Command
    <3> QED
      BY <2>1, <3>1, <3>2
  <2> QED
    BY <1>a, <2>1, <2>2, <2>3, CommandKeepsAccounts DEF EveryPinAccounted
<1>5. ASSUME NEW t \in Tasks, RecordPinFails(t) PROVE EveryPinAccounted'
  <2>1. task' = [task EXCEPT ![t] = Idle] /\ UNCHANGED <<pins, library, unlisted>>
    BY <1>5 DEF RecordPinFails
  <2>2. \A m \in Manifests : ~PastTheRow(task[t], m)
    BY <1>0, <1>5 DEF RecordPinFails, PastTheRow, Meaningful
  <2> QED
    BY <1>a, <2>1, <2>2, CommandKeepsAccounts DEF EveryPinAccounted
<1>6. ASSUME NEW t \in Tasks, CacheManifest(t) \/ CacheFails(t) PROVE EveryPinAccounted'
  <2>1. task' = [task EXCEPT ![t] = Idle] /\ UNCHANGED pins
        /\ library \subseteq library' /\ unlisted \subseteq unlisted'
        /\ (task[t].of \in library' \/ task[t].of \in unlisted')
    BY <1>6 DEF CacheManifest, CacheFails
  <2>2. \A m \in Manifests : PastTheRow(task[t], m) => m \in library' \/ m \in unlisted'
    BY <2>1 DEF PastTheRow
  <2> QED
    BY <1>a, <2>1, <2>2, CommandKeepsAccounts DEF EveryPinAccounted
<1>7. ASSUME NEW t \in Tasks, Reject(t) PROVE EveryPinAccounted'
  <2> DEFINE c == GivenUp(task[t])
  <2>1. task' = [Nameless(BlobOf(task[t])) EXCEPT ![t] = c]
        /\ UNCHANGED <<pins, library, unlisted>> /\ task[t].at = "reject"
    BY <1>7 DEF Reject
  <2>2. \A m \in Manifests : PastTheRow(task[t], m) => PastTheRow(c, m)
    BY <1>0, <2>1, ThumbGivenUp DEF PastTheRow
  <2> HIDE DEF c
  <2>3. \A u \in Tasks, m \in Manifests : PastTheRow(task[u], m) => PastTheRow(task'[u], m)
    <3>1. \A u \in Tasks, m \in Manifests :
            PastTheRow(task[u], m) => PastTheRow(Nameless(BlobOf(task[t]))[u], m)
      BY <1>0 DEF Nameless, PastTheRow, Command
    <3>2. task'[t] = c /\ \A u \in Tasks \ {t} : task'[u] = Nameless(BlobOf(task[t]))[u]
      BY <2>1 DEF Nameless
    <3> QED
      BY <2>2, <3>1, <3>2
  <2> QED
    BY <1>a, <2>1, <2>3 DEF EveryPinAccounted, Accounted
<1>8. ASSUME NEW t \in Tasks, RecordPin(t) PROVE EveryPinAccounted'
  <2>1. PICK m \in Manifests : m = task[t].of /\ task[t].for = "media" /\ task[t].at = "row"
    BY <1>0, <1>8 DEF RecordPin, Meaningful
  <2>2. PICK c : task' = [task EXCEPT ![t] = c] /\ PastTheRow(c, m)
    <3> DEFINE x == [Idle EXCEPT !.at = "request", !.of = m, !.for = "thumb"]
               y == [Idle EXCEPT !.at = "library", !.of = m]
    <3>1. x.at = "request" /\ x.of = m /\ x.for = "thumb" /\ y.at = "library" /\ y.of = m
      <4>1. Idle \in Command
        BY CommandsTyped
      <4> QED
        BY <4>1, Begun
    <3>2. task' = [task EXCEPT ![t] = x] \/ task' = [task EXCEPT ![t] = y]
      BY <1>8, <2>1 DEF RecordPin
    <3> HIDE DEF x, y
    <3> QED
      BY <3>1, <3>2 DEF PastTheRow
  <2>3. \A n \in Manifests : ~PastTheRow(task[t], n)
    BY <2>1 DEF PastTheRow
  <2>4. UNCHANGED <<library, unlisted>>
        /\ \A b \in Blobs : pins'[b] = pins[b] \/ pins'[b] = m
    BY <1>8, <2>1 DEF RecordPin, Typed, TypeOK
  <2>5. Accounted(m)'
    BY <2>2 DEF Accounted, Typed, TasksTyped
  <2>6. \A n \in Manifests : Accounted(n) => Accounted(n)'
    BY <2>2, <2>3, <2>4, CommandKeepsAccounts
  <2> QED
    BY <1>a, <2>4, <2>5, <2>6 DEF EveryPinAccounted
<1>9. ASSUME (\E m \in Manifests : FetchAndVerify(m)) \/ (\E new \in Budgets : SetBudget(new))
              \/ (\E b \in Blobs : UnpinRow(b))
      PROVE  EveryPinAccounted'
  <2>1. UNCHANGED <<task, unlisted>> /\ library \subseteq library'
        /\ \A b \in Blobs : pins'[b] = pins[b] \/ pins'[b] = None
    BY <1>9 DEF FetchAndVerify, SetBudget, UnpinRow, Typed, TypeOK
  <2> QED
    BY <2>1 DEF EveryPinAccounted, Accounted
<1>10. ASSUME UnpinFile PROVE EveryPinAccounted'
  <2>1. UNCHANGED <<pins, library, unlisted>> /\ task' = Nameless(unlinking)
    BY <1>10 DEF UnpinFile
  <2>2. \A u \in Tasks, m \in Manifests : PastTheRow(task[u], m) => PastTheRow(task'[u], m)
    BY <1>0, <2>1 DEF Nameless, PastTheRow, Command
  <2> QED
    BY <1>a, <2>1, <2>2 DEF EveryPinAccounted, Accounted
<1>11. ASSUME Crash PROVE EveryPinAccounted'
  <2>1. UNCHANGED <<pins, library>> /\ unlisted \subseteq unlisted'
        /\ \A t \in Tasks : task[t].at # "idle" => task[t].of \in unlisted'
    BY <1>11 DEF Crash
  <2> QED
    BY <1>a, <2>1 DEF EveryPinAccounted, Accounted, PastTheRow
<1> QED
  BY <1>1, <1>2, <1>3, <1>4, <1>5, <1>6, <1>7, <1>8, <1>9, <1>10, <1>11 DEF Next, PinStep

\* A manifest that is pinned is in the library and marked there, as soon as its
\* command is over, unless the row was not written or the process stopped.
THEOREM PinnedIsListed == Spec => []PinIsListed
<1>1. Init => EveryPinAccounted
  BY DEF Init, EveryPinAccounted
<1>2. EveryPinAccounted /\ UNCHANGED vars => EveryPinAccounted'
  BY DEF EveryPinAccounted, Accounted, vars
<1>3. EveryPinAccounted => PinIsListed
  BY DEF EveryPinAccounted, Accounted, PastTheRow, PinIsListed, ListCachedManifests
<1> QED
  BY <1>1, <1>2, <1>3, AccountsStep, TypedInvariant, PTL DEF Spec

=============================================================================
