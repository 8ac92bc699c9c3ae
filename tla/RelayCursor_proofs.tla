------------------------- MODULE RelayCursor_proofs -------------------------
(***************************************************************************)
(* Theorems about the gateway's cursor, for any records, any number of     *)
(* breaks and any limit and capacity: the cursor stays within what the     *)
(* relay stored, an open connection carries everything that has not been   *)
(* lost, and what is missing below the cursor has a cause.                 *)
(***************************************************************************)
EXTENDS RelayCursor, FiniteSetTheorems, SequenceTheorems, TLAPS

-----------------------------------------------------------------------------
(* The store, as in Relay_proofs *)

\* A query returns finitely many rows, so its result is a list of rows.
LEMMA QueryFinite ==
  ASSUME IsFiniteSet(rows), NEW f
  PROVE  /\ QueryRows(f) \subseteq rows
         /\ IsFiniteSet(QueryRows(f))
         /\ Cardinality(QueryRows(f)) \in Nat
<1>1. QueryRows(f) \subseteq rows  BY DEF QueryRows, Selected
<1>2. IsFiniteSet(QueryRows(f))  BY <1>1, FS_Subset
<1>3. QED  BY <1>1, <1>2, FS_CardinalityType

\* A descending list of finitely many rows names each of them.
LEMMA DescendingCovers ==
  ASSUME NEW S, IsFiniteSet(S), S \subseteq Row, NEW q \in Descending(S)
  PROVE  /\ q \in Seq(S)
         /\ \A x \in S : \E i \in 1..Len(q) : q[i] = x
<1> DEFINE n == Cardinality(S)
<1>1. n \in Nat
  BY FS_CardinalityType
<1>2. q \in [1..n -> S] /\ \A i, j \in 1..n : i < j => q[i].seq > q[j].seq
  BY DEF Descending
<1>3. q \in Seq(S) /\ Len(q) = n
  BY <1>1, <1>2
<1>4. \A i, j \in 1..n : q[i] = q[j] => i = j
  <2> SUFFICES ASSUME NEW i \in 1..n, NEW j \in 1..n, q[i] = q[j], i # j
               PROVE  FALSE
    OBVIOUS
  <2>1. q[i].seq \in Nat /\ q[j].seq \in Nat
    BY <1>2 DEF Row
  <2>2. i < j \/ j < i
    BY <1>1
  <2>3. QED  BY <1>2, <2>1, <2>2
<1>5. q \in Injection(1..n, S)
  BY <1>2, <1>4 DEF Injection, IsInjective
<1>6. Cardinality(1..n) = Cardinality(S)
  BY <1>1, FS_Interval
<1>7. q \in Surjection(1..n, S)
  BY <1>5, <1>6, FS_Injection
<1>8. \A x \in S : \E i \in 1..n : q[i] = x
  BY <1>7 DEF Surjection
<1>9. QED  BY <1>3, <1>8

\* insert_record keeps the tables well formed.
LEMMA InsertKeepsStoreType ==
  ASSUME StoreTypeOK, NEW r \in Rec, InsertRecord(r, 0)
  PROVE  StoreTypeOK'
<1>1. CASE Stored(r)
  BY <1>1 DEF StoreTypeOK, InsertRecord, storeVars
<1>2. CASE ~Stored(r)
  <2>. DEFINE row == [seq |-> NextSeq, rec |-> r, at |-> 0]
  <2>0. rows' = rows \cup {row} /\ IsFiniteSet(rows)
    BY <1>2 DEF StoreTypeOK, InsertRecord
  <2>1. IsFiniteSet(rows')
    BY <2>0, FS_AddElement
  <2>2. QED
    BY <1>2, <2>1 DEF StoreTypeOK, InsertRecord, NextSeq, Row
<1>3. QED  BY <1>1, <1>2

-----------------------------------------------------------------------------
(* Types *)

\* The frames of a list of rows are entries, one for each row.
LEMMA FramesOfRows ==
  ASSUME NEW S, S \subseteq Row, NEW q \in Seq(S)
  PROVE  /\ ToFrames(q) \in Seq(Entry)
         /\ Len(ToFrames(q)) = Len(q)
         /\ \A i \in 1..Len(q) : ToFrames(q)[i] = EntryOf(q[i])
<1>1. Len(q) \in Nat /\ DOMAIN q = 1..Len(q) /\ \A i \in 1..Len(q) : q[i] \in S
  BY LenProperties, ElementOfSeq
<1>2. \A i \in 1..Len(q) : EntryOf(q[i]) \in Entry
  BY <1>1 DEF EntryOf, Entry, Row
<1>3. ToFrames(q) = [i \in 1..Len(q) |-> EntryOf(q[i])]
  BY <1>1 DEF ToFrames
<1>4. QED  BY <1>1, <1>2, <1>3

\* A closed socket carries nothing.
LEMMA ClosedSocket ==
  ASSUME TypeOK, CloseSocket
  PROVE  /\ wire' \in Seq(Entry) /\ wire' = <<>>
         /\ open' = FALSE /\ req' = NoReq /\ sub' = NoReq /\ pos' = pos
BY DEF CloseSocket

\* What has not been delivered yet is a set of sequences.
LEMMA UndeliveredType ==
  ASSUME TypeOK
  PROVE  Undelivered \subseteq Nat
<1>1. \A i \in DOMAIN wire : wire[i].seq \in Nat
  <2>1. \A i \in 1..Len(wire) : wire[i] \in Entry
    BY ElementOfSeq DEF TypeOK
  <2>2. QED  BY <2>1, LenProperties DEF TypeOK, Entry
<1>2. \A i \in pos + 1 .. Len(bcast) : bcast[i].seq \in Nat
  <2>1. \A i \in 1..Len(bcast) : bcast[i] \in Entry
    BY ElementOfSeq DEF TypeOK
  <2>2. pos + 1 .. Len(bcast) \subseteq 1..Len(bcast)
    BY LenProperties DEF TypeOK
  <2>3. QED  BY <2>1, <2>2 DEF Entry
<1>3. \A x \in Unannounced : x.seq \in Nat
  BY DEF Unannounced, TypeOK, StoreTypeOK, Row
<1>4. Requested \subseteq Nat
  BY DEF Requested, Seqs, Selected, TypeOK, StoreTypeOK, Row
<1>5. QED  BY <1>1, <1>2, <1>3, <1>4 DEF Undelivered

\* TypeOK says that frames carry stored rows: so must the announcements they come from.
AnnouncedStored == \A i \in 1..Len(bcast) : \E row \in rows : EntryOf(row) = bcast[i]

\* Every variable of the gateway and of its relay keeps its type; only stored rows
\* travel, and only over an open socket.
THEOREM TypeInvariant == Spec => [](TypeOK /\ AnnouncedStored)
<1>1. Init => TypeOK /\ AnnouncedStored
  <2> SUFFICES ASSUME Init PROVE TypeOK /\ AnnouncedStored
    OBVIOUS
  <2>1. StoreTypeOK
    BY FS_EmptySet DEF Init, StoreTypeOK
  <2>2. <<>> \in Seq(Entry) /\ Len(<<>>) = 0 /\ DOMAIN <<>> = {}
    OBVIOUS
  <2>3. wire = <<>> /\ bcast = <<>> /\ pos = 0 /\ breaks = 0 /\ rows = {}
    BY DEF Init
  <2>4. pos \in 0..Len(bcast) /\ breaks \in 0..MaxBreaks /\ AnnouncedStored
    BY <2>2, <2>3, CursorAssumption DEF AnnouncedStored
  <2>5. wire \in Seq(Entry) /\ bcast \in Seq(Entry) /\ DOMAIN wire = {}
    BY <2>2, <2>3
  <2>6. QED  BY <2>1, <2>4, <2>5, <2>3 DEF Init, TypeOK
<1>2. TypeOK /\ AnnouncedStored /\ [Next]_vars => (TypeOK /\ AnnouncedStored)'
  <2> SUFFICES ASSUME TypeOK, AnnouncedStored, [Next]_vars
               PROVE  TypeOK' /\ AnnouncedStored'
    OBVIOUS
  <2> USE DEF relayVars, linkVars, gatewayVars, storeVars
  <2>1. ASSUME NEW r \in Rec, Publish(r) PROVE TypeOK' /\ AnnouncedStored'
    <3>1. StoreTypeOK' /\ rows \subseteq rows'
      BY <2>1, InsertKeepsStoreType DEF Publish, TypeOK, InsertRecord
    <3>2. seen' \subseteq Seqs(rows)' /\ \A i \in DOMAIN wire' : \E row \in rows' : EntryOf(row) = wire'[i]
      BY <2>1, <3>1 DEF Publish, TypeOK, Seqs
    <3>3. QED  BY <2>1, <3>1, <3>2 DEF Publish, TypeOK, AnnouncedStored
  <2>2. CASE Announce
    <3>1. PICK row \in rows : bcast' = Append(bcast, EntryOf(row))
      BY <2>2 DEF Announce, Unannounced
    <3>2. EntryOf(row) \in Entry
      BY DEF EntryOf, Entry, TypeOK, StoreTypeOK, Row
    <3>3. bcast' \in Seq(Entry) /\ Len(bcast') = Len(bcast) + 1 /\ Len(bcast) \in Nat
      BY <3>1, <3>2, AppendProperties, LenProperties DEF TypeOK
    <3>4. pos' \in 0..Len(bcast')
      BY <2>2, <3>3 DEF Announce, TypeOK
    <3>5. \A i \in 1..Len(bcast') : bcast'[i] = EntryOf(row) \/ (i \in 1..Len(bcast) /\ bcast'[i] = bcast[i])
      BY <3>1, <3>2, <3>3, AppendProperties DEF TypeOK
    <3>6. AnnouncedStored'
      BY <2>2, <3>5 DEF Announce, AnnouncedStored, EntryOf
    <3>7. QED  BY <2>2, <3>3, <3>4, <3>6 DEF Announce, TypeOK, StoreTypeOK, Seqs
  <2>3. CASE Backfill
    <3>1. PICK q \in Descending(QueryRows(SinceFilter(req))) : wire' = wire \o ToFrames(q)
      BY <2>3 DEF Backfill
    <3> DEFINE S == QueryRows(SinceFilter(req))
    <3>2. S \subseteq rows /\ S \subseteq Row /\ IsFiniteSet(S)
      BY QueryFinite DEF TypeOK, StoreTypeOK
    <3>3. q \in Seq(S)
      BY <3>2, DescendingCovers
    <3>4. /\ ToFrames(q) \in Seq(Entry) /\ Len(ToFrames(q)) = Len(q)
          /\ \A i \in 1..Len(q) : ToFrames(q)[i] = EntryOf(q[i]) /\ q[i] \in S
      BY <3>2, <3>3, FramesOfRows, ElementOfSeq
    <3>5. wire' \in Seq(Entry) /\ DOMAIN wire' = 1 .. Len(wire) + Len(q)
      <4>1. wire \in Seq(Entry) /\ Len(wire) \in Nat
        BY LenProperties DEF TypeOK
      <4>2. wire' \in Seq(Entry) /\ Len(wire') = Len(wire) + Len(q)
        BY <3>1, <3>4, <4>1, ConcatProperties
      <4>3. QED  BY <4>2, LenProperties
    <3>6. \A i \in DOMAIN wire' : \E row \in rows : EntryOf(row) = wire'[i]
      <4> TAKE i \in DOMAIN wire'
      <4>1. Len(wire) \in Nat /\ Len(q) \in Nat /\ DOMAIN wire = 1..Len(wire)
        BY <3>3, LenProperties DEF TypeOK
      <4>2. CASE i <= Len(wire)
        <5>1. wire'[i] = wire[i] /\ i \in DOMAIN wire
          BY <3>1, <3>4, <3>5, <4>1, <4>2, ConcatProperties DEF TypeOK
        <5>2. QED  BY <5>1 DEF TypeOK
      <4>3. CASE i > Len(wire)
        <5>1. i - Len(wire) \in 1..Len(q)
          BY <3>5, <4>1, <4>3
        <5>2. wire'[i] = ToFrames(q)[i - Len(wire)]
          BY <3>1, <3>4, <3>5, <4>1, <4>3, ConcatProperties DEF TypeOK
        <5>3. QED  BY <3>2, <3>4, <5>1, <5>2
      <4>4. QED  BY <3>5, <4>1, <4>2, <4>3
    <3>7. lost' \subseteq Nat
      BY <2>3 DEF Backfill, Seqs, Selected, TypeOK, StoreTypeOK, Row
    <3>8. open
      BY <2>3 DEF Backfill, TypeOK
    <3>9. sub' \in Nat \cup {NoReq} /\ req' = NoReq
      BY <2>3 DEF Backfill, TypeOK
    <3>10. UNCHANGED <<rows, lastSeq, assigned, bcast, silent, open, pos, handling, since, index, seen, cut, breaks>>
      BY <2>3 DEF Backfill
    <3>11. QED  BY <3>5, <3>6, <3>7, <3>8, <3>9, <3>10 DEF TypeOK, StoreTypeOK, Seqs, AnnouncedStored
  <2>4. CASE BackfillFails
    <3>1. lost' \subseteq Nat
      BY <2>4 DEF BackfillFails, Seqs, Selected, TypeOK, StoreTypeOK, Row
    <3>2. QED  BY <2>4, <3>1 DEF BackfillFails, TypeOK, StoreTypeOK, Seqs, AnnouncedStored
  <2>5. CASE ReceiveFrame
    <3>1. 1 \in DOMAIN wire /\ Head(wire) = wire[1] /\ Head(wire) \in Entry
      BY <2>5, HeadTailProperties, LenProperties, EmptySeq DEF ReceiveFrame, TypeOK
    <3>2. PICK row \in rows : EntryOf(row) = Head(wire)
      BY <3>1 DEF TypeOK
    <3>3. Head(wire).seq \in Seqs(rows)
      BY <3>2 DEF EntryOf, Seqs
    <3>4. /\ Tail(wire) \in Seq(Entry)
          /\ \A i \in DOMAIN Tail(wire) : \E x \in rows : EntryOf(x) = Tail(wire)[i]
      <4>1. /\ Tail(wire) \in Seq(Entry) /\ Len(Tail(wire)) = Len(wire) - 1
            /\ \A i \in 1..Len(Tail(wire)) : Tail(wire)[i] = wire[i + 1]
        BY <2>5, HeadTailProperties DEF ReceiveFrame, TypeOK
      <4>2. Len(wire) \in Nat /\ DOMAIN wire = 1..Len(wire) /\ DOMAIN Tail(wire) = 1..Len(Tail(wire))
        BY <4>1, LenProperties DEF TypeOK
      <4>3. \A i \in DOMAIN Tail(wire) : i + 1 \in DOMAIN wire
        BY <4>1, <4>2
      <4>4. QED  BY <4>1, <4>2, <4>3 DEF TypeOK
    <3>5. handling' \subseteq Handler
      BY <2>5, <3>1 DEF ReceiveFrame, TypeOK, Handler, Entry
    <3>6. wire' = Tail(wire) /\ seen' = seen \cup {Head(wire).seq} /\ open
      BY <2>5 DEF ReceiveFrame, TypeOK
    <3>7. UNCHANGED <<rows, lastSeq, assigned, bcast, silent, open, req, sub, pos, since, index, lost, cut, breaks>>
      BY <2>5 DEF ReceiveFrame
    <3>8. seen' \subseteq Seqs(rows)
      BY <3>3, <3>6 DEF TypeOK
    <3>9. QED  BY <3>4, <3>5, <3>6, <3>7, <3>8 DEF TypeOK, StoreTypeOK, Seqs, AnnouncedStored
  <2>6. CASE DeliverLive
    <3>1. pos + 1 \in 1..Len(bcast) /\ Len(bcast) \in Nat
      BY <2>6, LenProperties DEF DeliverLive, TypeOK
    <3>2. bcast[pos + 1] \in Entry
      BY <3>1, ElementOfSeq DEF TypeOK
    <3>3. PICK row \in rows : EntryOf(row) = bcast[pos + 1]
      BY <3>1 DEF AnnouncedStored
    <3>4. /\ Append(wire, bcast[pos + 1]) \in Seq(Entry)
          /\ \A i \in DOMAIN Append(wire, bcast[pos + 1]) :
               \E x \in rows : EntryOf(x) = Append(wire, bcast[pos + 1])[i]
      BY <3>2, <3>3, AppendProperties, LenProperties DEF TypeOK
    <3>5. wire' \in Seq(Entry) /\ \A i \in DOMAIN wire' : \E x \in rows : EntryOf(x) = wire'[i]
      BY <2>6, <3>4 DEF DeliverLive, TypeOK
    <3>6. pos' \in 0..Len(bcast) /\ open /\ open' = open
      BY <2>6, <3>1 DEF DeliverLive, TypeOK
    <3>7. UNCHANGED <<rows, lastSeq, assigned, bcast, silent, req, sub, handling, since, index, seen, lost, cut, breaks>>
      BY <2>6 DEF DeliverLive
    <3>8. QED  BY <3>5, <3>6, <3>7 DEF TypeOK, StoreTypeOK, Seqs, AnnouncedStored
  <2>7. CASE Lag
    <3>1. Len(bcast) \in Nat /\ Capacity \in Nat \ {0} /\ pos \in Nat
      BY LenProperties, CursorAssumption DEF TypeOK
    <3>2. pos' \in 0..Len(bcast) /\ pos + 1 .. pos' \subseteq 1..Len(bcast)
      BY <2>7, <3>1 DEF Lag
    <3>3. \A i \in 1..Len(bcast) : bcast[i].seq \in Nat
      <4>1. \A i \in 1..Len(bcast) : bcast[i] \in Entry
        BY ElementOfSeq DEF TypeOK
      <4>2. QED  BY <4>1 DEF Entry
    <3>4. lost' \subseteq Nat
      BY <2>7, <3>2, <3>3 DEF Lag, TypeOK
    <3>5. UNCHANGED <<rows, lastSeq, assigned, bcast, silent, open, req, sub, wire, handling, since, index, seen, cut, breaks>>
      BY <2>7 DEF Lag
    <3>6. QED  BY <3>2, <3>4, <3>5 DEF TypeOK, StoreTypeOK, Seqs, AnnouncedStored
  <2>8. CASE Connect
    <3>1. Len(bcast) \in Nat
      BY LenProperties DEF TypeOK
    <3>2. lost' \subseteq Nat /\ cut' \subseteq Nat
      BY <2>8 DEF Connect, Connected, TypeOK
    <3>3. open' = TRUE /\ pos' = Len(bcast) /\ req' = since /\ sub' = sub /\ wire' = wire
      BY <2>8 DEF Connect, Connected
    <3>4. UNCHANGED <<rows, lastSeq, assigned, bcast, silent, handling, since, index, seen, breaks>>
      BY <2>8 DEF Connect, Connected
    <3>5. QED
      BY <3>1, <3>2, <3>3, <3>4 DEF TypeOK, StoreTypeOK, Seqs, AnnouncedStored
  <2>9. ASSUME NEW h \in handling, Process(h) \/ ProcessFails(h) \/ Advance(h)
        PROVE  TypeOK' /\ AnnouncedStored'
    <3>1. h \in Handler
      BY DEF TypeOK
    <3>2. handling' \subseteq Handler /\ since' \in Nat /\ index' \subseteq Rec /\ lost' \subseteq Nat
      BY <2>9, <3>1 DEF Process, ProcessFails, Advance, AwaitsAdvance, SetSince, TypeOK, Handler
    <3>3. UNCHANGED <<rows, lastSeq, assigned, bcast, silent, linkVars, seen, cut, breaks>>
      BY <2>9 DEF Process, ProcessFails, Advance
    <3>4. QED  BY <3>2, <3>3 DEF TypeOK, StoreTypeOK, Seqs, AnnouncedStored
  <2>10. CASE Disconnect \/ RelayRestart \/ Crash
    <3>1. CloseSocket /\ breaks' \in 0..MaxBreaks
      BY <2>10, CursorAssumption DEF Disconnect, RelayRestart, Crash, Break, TypeOK
    <3>2. cut' \subseteq Nat
      <4>1. Undelivered \subseteq Nat /\ cut \subseteq Nat
        BY UndeliveredType DEF TypeOK
      <4>2. Seqs({h \in handling : h.at = "ingest"}) \subseteq Nat
        BY DEF Seqs, TypeOK, Handler
      <4>3. CASE Disconnect \/ RelayRestart
        BY <4>1, <4>3 DEF Disconnect, RelayRestart
      <4>4. CASE Crash
        BY <4>1, <4>2, <4>4 DEF Crash
      <4>5. QED  BY <2>10, <4>3, <4>4
    <3>3. silent' \subseteq Nat
      <4>1. Seqs(Unannounced) \subseteq Nat /\ silent \subseteq Nat
        BY DEF Seqs, Unannounced, TypeOK, StoreTypeOK, Row
      <4>2. silent' = silent \/ silent' = silent \cup Seqs(Unannounced)
        BY <2>10 DEF Disconnect, RelayRestart, Crash
      <4>3. QED  BY <4>1, <4>2
    <3>4. handling' \subseteq Handler
      BY <2>10 DEF Disconnect, RelayRestart, Crash, TypeOK
    <3>5. UNCHANGED <<rows, lastSeq, assigned, bcast, since, index, seen, lost>>
      BY <2>10 DEF Disconnect, RelayRestart, Crash
    <3>6. DOMAIN wire' = {} /\ wire' \in Seq(Entry) /\ open' = FALSE /\ req' = NoReq
          /\ sub' = NoReq /\ pos' = pos /\ wire' = <<>>
      BY <3>1, ClosedSocket
    <3>7. QED
      BY <3>1, <3>2, <3>3, <3>4, <3>5, <3>6 DEF TypeOK, StoreTypeOK, Seqs, AnnouncedStored
  <2>11. CASE UNCHANGED vars
    BY <2>11 DEF vars, TypeOK, StoreTypeOK, Seqs, AnnouncedStored
  <2>12. QED
    BY <2>1, <2>2, <2>3, <2>4, <2>5, <2>6, <2>7, <2>8, <2>9, <2>10, <2>11
    DEF Next, Relay, Gateway
<1>3. QED  BY <1>1, <1>2, PTL DEF Spec

\* The part of the invariant that the run checks.
THEOREM TypeCorrect == Spec => []TypeOK
BY TypeInvariant, PTL

-----------------------------------------------------------------------------
(* The cursor *)

\* What the frames and the cursor rest on: everything that travels is a stored row,
\* under a sequence no other row has.
TravelInv ==
  /\ \A x, y \in rows : x.seq = y.seq => x = y
  /\ \A row \in rows : row.seq <= lastSeq
  /\ \A h \in handling : h.seq \in seen /\ \E row \in rows : row.seq = h.seq /\ row.rec = h.rec
  /\ \A n \in silent : \E row \in rows : row.seq = n
  /\ CursorIsStored

\* A step that leaves the store and the handlers alone, or only drops handlers, and
\* does not move the cursor.
LEMMA TravelUnchanged ==
  ASSUME TravelInv, UNCHANGED <<rows, lastSeq, since>>, seen \subseteq seen',
         silent' \subseteq silent \cup Seqs(rows),
         \A h \in handling' : \E x \in handling : x.seq = h.seq /\ x.rec = h.rec
  PROVE  TravelInv'
BY DEF TravelInv, CursorIsStored, Seqs

\* The cursor and the handlers stay with stored rows.
THEOREM TravelInvariant == Spec => []TravelInv
<1>1. Init => TravelInv
  BY DEF Init, TravelInv, CursorIsStored
<1>2. TypeOK /\ TravelInv /\ [Next]_vars => TravelInv'
  <2> SUFFICES ASSUME TypeOK, TravelInv, [Next]_vars PROVE TravelInv'
    OBVIOUS
  <2> USE DEF relayVars, linkVars, gatewayVars, storeVars
  <2>1. ASSUME NEW r \in Rec, Publish(r) PROVE TravelInv'
    <3>1. /\ rows' = rows \cup {[seq |-> lastSeq + 1, rec |-> r, at |-> 0]}
          /\ lastSeq' = lastSeq + 1
          /\ handling' = handling /\ since' = since /\ seen' = seen /\ silent' = silent
      BY <2>1 DEF Publish, InsertRecord, NextSeq
    <3>2. \A row \in rows : row.seq \in Nat /\ row.seq < lastSeq + 1
      BY DEF TravelInv, TypeOK, StoreTypeOK, Row
    <3>3. lastSeq \in Nat
      BY DEF TypeOK, StoreTypeOK
    <3>4. \A x, y \in rows' : x.seq = y.seq => x = y
      BY <3>1, <3>2, <3>3 DEF TravelInv
    <3>5. \A row \in rows' : row.seq <= lastSeq'
      BY <3>1, <3>2, <3>3
    <3>6. QED  BY <3>1, <3>4, <3>5 DEF TravelInv, CursorIsStored
  <2>2. CASE ReceiveFrame
    <3>1. Head(wire) = wire[1] /\ 1 \in DOMAIN wire
      BY <2>2, HeadTailProperties, LenProperties, EmptySeq DEF ReceiveFrame, TypeOK
    <3>2. PICK row \in rows : EntryOf(row) = Head(wire)
      BY <3>1 DEF TypeOK
    <3>3. row.seq = Head(wire).seq /\ row.rec = Head(wire).rec
      BY <3>2 DEF EntryOf
    <3>4. QED  BY <2>2, <3>3 DEF ReceiveFrame, TravelInv, CursorIsStored
  <2>3. ASSUME NEW h \in handling, Process(h) PROVE TravelInv'
    <3>1. h.seq = [h EXCEPT !.at = "advance"].seq /\ h.rec = [h EXCEPT !.at = "advance"].rec
      BY DEF TypeOK, Handler
    <3>2. QED
      BY <2>3, <3>1, TravelUnchanged DEF Process, AwaitsAdvance
  <2>4. ASSUME NEW h \in handling, Advance(h) \/ ProcessFails(h) PROVE TravelInv'
    <3>1. since' = since \/ since' = h.seq
      BY <2>4 DEF Advance, ProcessFails, SetSince
    <3>2. handling' \subseteq handling /\ rows' = rows /\ lastSeq' = lastSeq /\ seen' = seen
          /\ silent' = silent
      BY <2>4 DEF Advance, ProcessFails
    <3>3. CursorIsStored'
      BY <3>1, <3>2 DEF TravelInv, CursorIsStored
    <3>4. QED  BY <3>2, <3>3 DEF TravelInv
  <2>5. CASE Announce \/ Backfill \/ BackfillFails \/ DeliverLive \/ Lag \/ Connect
    BY <2>5, TravelUnchanged DEF Announce, Backfill, BackfillFails, DeliverLive, Lag, Connect, Connected
  <2>6. CASE Disconnect \/ RelayRestart \/ Crash \/ UNCHANGED vars
    <3>1. Seqs(Unannounced) \subseteq Seqs(rows)
      BY DEF Seqs, Unannounced
    <3>2. QED
      BY <2>6, <3>1, TravelUnchanged DEF Disconnect, RelayRestart, Crash, vars
  <2>7. QED
    BY <2>1, <2>2, <2>3, <2>4, <2>5, <2>6 DEF Next, Relay, Gateway
<1>3. QED  BY <1>1, <1>2, TypeCorrect, PTL DEF Spec

\* The cursor is a sequence the relay has handed out, so no record it stores later
\* can be hidden by it.
THEOREM CursorStored == Spec => []CursorIsStored
<1>1. TravelInv => CursorIsStored  BY DEF TravelInv
<1>2. QED  BY <1>1, TravelInvariant, PTL

-----------------------------------------------------------------------------
(* Gaps *)

\* A row is accounted for when GapsHaveCauses asks no more of it; on an open connection
\* nothing is cut, and ConnectionCarriesAll asks for the same.
Covered(row) == Received(row) \/ row.seq \in Undelivered \cup lost \cup cut

\* A row no handler that still runs can move the cursor to or past.
Ahead(row) == row.seq > since /\ \A h \in handling : row.seq > h.seq

\* Neither property is inductive: what the gateway resumes from depends on what the
\* handlers that outlive a connection may still do to the cursor.  While the socket is
\* closed, a row that is not accounted for lies ahead of the cursor and of every handler;
\* the row the cursor rests on, and that of a handler about to move it, is settled.
ResumeInv ==
  /\ open => cut = {} /\ \A row \in rows : Covered(row)
  /\ req # NoReq => req <= since /\ sub = NoReq /\ wire = <<>>
  /\ sub # NoReq => sub <= since
  /\ open => req # NoReq \/ sub # NoReq
  /\ \A row \in rows : Covered(row) \/ Ahead(row)
  /\ \A row \in rows : row.seq = since => Settled(row) \/ row.seq \in lost
  /\ \A h \in handling : h.at = "advance" => h.rec \in index \cup Refused

\* The four places where a sequence may wait for delivery.
LEMMA UndeliveredIs ==
  ASSUME NEW n
  PROVE  n \in Undelivered <=>
           \/ n \in Requested
           \/ \E i \in DOMAIN wire : wire[i].seq = n
           \/ \E i \in pos + 1 .. Len(bcast) : Wanted(bcast[i]) /\ bcast[i].seq = n
           \/ \E x \in Unannounced : Wanted(EntryOf(x)) /\ x.seq = n
BY DEF Undelivered

\* A pending REQ asks for no less when the relay stores more.
LEMMA RequestedKept ==
  ASSUME rows \subseteq rows', UNCHANGED req
  PROVE  Requested \subseteq Requested'
BY DEF Requested, Seqs, Selected

\* Above its cursor the gateway's filter takes everything, live ...
LEMMA WantedAbove ==
  ASSUME sub # NoReq, NEW e, e.seq > sub
  PROVE  Wanted(e)
BY DEF Wanted, SinceFilter, Matches, Admits

\* ... and stored.
LEMMA SelectsAbove ==
  ASSUME NEW n \in Nat, NEW row, row.seq \in Nat, row.seq > n
  PROVE  Selects(SinceFilter(n), row)
<1>1. Sql(n) \in Nat /\ Sql(n) <= n
  BY StoreAssumption DEF Sql
<1>2. row.seq > Sql(n)
  BY <1>1
<1>3. QED  BY <1>2 DEF Selects, SinceFilter, Admits

\* After the backfill, or after the failed query, every row asked for is on the wire
\* or left out for a reason.
LEMMA BackfillCovers ==
  ASSUME TypeOK, Backfill \/ BackfillFails, NEW row \in rows,
         row \in Selected(SinceFilter(req))
  PROVE  (\E i \in DOMAIN wire' : wire'[i].seq = row.seq) \/ row.seq \in lost'
<1>2. row \in Selected(SinceFilter(req)) /\ row \in Row
  BY DEF TypeOK, StoreTypeOK
<1>3. CASE BackfillFails
  BY <1>2, <1>3 DEF BackfillFails, Seqs
<1>4. CASE Backfill
  <2> DEFINE S == QueryRows(SinceFilter(req))
  <2>1. PICK q \in Descending(S) : wire' = wire \o ToFrames(q)
    BY <1>4 DEF Backfill
  <2>2. S \subseteq rows /\ S \subseteq Row /\ IsFiniteSet(S)
    BY QueryFinite DEF TypeOK, StoreTypeOK
  <2>3. q \in Seq(S) /\ \A x \in S : \E i \in 1..Len(q) : q[i] = x
    BY <2>2, DescendingCovers
  <2>4. CASE row \in S
    <3>1. PICK i \in 1..Len(q) : q[i] = row
      BY <2>3, <2>4
    <3>2. /\ ToFrames(q) \in Seq(Entry) /\ Len(ToFrames(q)) = Len(q)
          /\ ToFrames(q)[i] = EntryOf(row)
      BY <2>2, <2>3, <3>1, FramesOfRows
    <3>3. Len(wire) \in Nat /\ Len(q) \in Nat /\ wire \in Seq(Entry)
      BY <2>3, LenProperties DEF TypeOK
    <3>4. /\ Len(wire') = Len(wire) + Len(q) /\ wire' \in Seq(Entry)
          /\ wire'[Len(wire) + i] = ToFrames(q)[i]
      <4> DEFINE F == ToFrames(q)
                 k == Len(wire) + i
      <4> HIDE DEF F
      <4>0. F \in Seq(Entry) /\ Len(F) = Len(q) /\ wire' = wire \o F
        BY <2>1, <3>2 DEF F
      <4>1. /\ wire \o F \in Seq(Entry)
            /\ Len(wire \o F) = Len(wire) + Len(F)
            /\ \A j \in 1 .. Len(wire) + Len(F) :
                 (wire \o F)[j] = IF j <= Len(wire) THEN wire[j] ELSE F[j - Len(wire)]
        BY <3>3, <4>0, ConcatProperties
      <4>2. k \in 1 .. Len(wire) + Len(F) /\ ~(k <= Len(wire)) /\ k - Len(wire) = i
        BY <3>1, <3>3, <4>0
      <4>3. (wire \o F)[k] = F[i]
        BY <4>1, <4>2
      <4>4. QED  BY <4>0, <4>1, <4>3 DEF F
    <3>5. Len(wire) + i \in DOMAIN wire'
      BY <3>1, <3>3, <3>4, LenProperties
    <3>6. QED  BY <3>2, <3>4, <3>5 DEF EntryOf
  <2>5. CASE row \notin S
    <3>1. \A x \in S : x.seq # row.seq \/ x = row
      <4>1. SUFFICES ASSUME NEW x \in S, x.seq = row.seq PROVE x = row
        OBVIOUS
      <4>2. {y \in Selected(SinceFilter(req)) : y.seq > x.seq} =
            {y \in Selected(SinceFilter(req)) : y.seq > row.seq}
        BY <4>1
      <4>3. Cardinality({y \in Selected(SinceFilter(req)) : y.seq > row.seq})
              < Limit(SinceFilter(req))
        BY <4>1, <4>2 DEF QueryRows
      <4>4. row \in S
        BY <1>2, <4>3 DEF QueryRows
      <4>5. QED  BY <2>5, <4>4
    <3>2. row.seq \in Seqs(Selected(SinceFilter(req))) \ Seqs(S)
      BY <1>2, <2>5, <3>1 DEF Seqs
    <3>3. QED  BY <1>4, <3>2 DEF Backfill
  <2>6. QED  BY <2>4, <2>5
<1>5. QED  BY <1>3, <1>4

\* What is on the wire stays on the wire when frames are added.
LEMMA BackfillKeepsWire ==
  ASSUME TypeOK, Backfill \/ BackfillFails, NEW i \in DOMAIN wire
  PROVE  i \in DOMAIN wire' /\ wire'[i] = wire[i]
<1>1. CASE BackfillFails
  BY <1>1 DEF BackfillFails
<1>2. CASE Backfill
  <2> DEFINE S == QueryRows(SinceFilter(req))
  <2>1. PICK q \in Descending(S) : wire' = wire \o ToFrames(q)
    BY <1>2 DEF Backfill
  <2>2. S \subseteq Row /\ IsFiniteSet(S)
    BY QueryFinite DEF TypeOK, StoreTypeOK
  <2>3. q \in Seq(S)
    BY <2>2, DescendingCovers
  <2>4. ToFrames(q) \in Seq(Entry) /\ wire \in Seq(Entry)
    BY <2>2, <2>3, FramesOfRows DEF TypeOK
  <2>5. Len(wire) \in Nat /\ Len(ToFrames(q)) \in Nat /\ i \in 1..Len(wire)
    BY <2>4, LenProperties
  <2>6. /\ wire' \in Seq(Entry) /\ Len(wire') = Len(wire) + Len(ToFrames(q))
        /\ wire'[i] = wire[i]
    BY <2>1, <2>4, <2>5, ConcatProperties
  <2>7. QED  BY <2>5, <2>6, LenProperties
<1>3. QED  BY <1>1, <1>2

\* An announcement takes the record from those due to those in the channel.
LEMMA AnnounceKeeps ==
  ASSUME TypeOK, Announce, NEW n \in Undelivered
  PROVE  n \in Undelivered'
<1> USE DEF linkVars, storeVars
<1>1. PICK r \in rows : bcast' = Append(bcast, EntryOf(r))
  BY DEF Announce, Unannounced
<1>2. EntryOf(r) \in Entry /\ Len(bcast) \in Nat /\ pos \in 0..Len(bcast)
  BY LenProperties DEF EntryOf, Entry, TypeOK, StoreTypeOK, Row
<1>3. /\ Len(bcast') = Len(bcast) + 1 /\ bcast'[Len(bcast) + 1] = EntryOf(r)
      /\ \A i \in 1..Len(bcast) : bcast'[i] = bcast[i]
  BY <1>1, <1>2, AppendProperties DEF TypeOK
<1>4. UNCHANGED <<rows, silent, req, sub, pos, wire>>
  BY DEF Announce
<1>5. CASE \E i \in DOMAIN wire : wire[i].seq = n
  BY <1>4, <1>5 DEF Undelivered
<1>6. CASE \E i \in pos + 1 .. Len(bcast) : Wanted(bcast[i]) /\ bcast[i].seq = n
  <2>1. PICK i \in pos + 1 .. Len(bcast) : Wanted(bcast[i]) /\ bcast[i].seq = n
    BY <1>6
  <2>2. i \in pos' + 1 .. Len(bcast') /\ bcast'[i] = bcast[i]
    BY <1>2, <1>3, <1>4, <2>1
  <2>3. Wanted(bcast[i])'
    BY <1>4, <2>1, <2>2 DEF Wanted
  <2>4. QED  BY <2>1, <2>2, <2>3 DEF Undelivered
<1>7. ASSUME NEW x \in Unannounced, Wanted(EntryOf(x)), x.seq = n
      PROVE  n \in Undelivered'
  <2>1. CASE EntryOf(x) = EntryOf(r)
    <3>1. PICK k \in Nat : k = Len(bcast) + 1
      BY <1>2
    <3>2. k \in pos' + 1 .. Len(bcast') /\ bcast'[k] = EntryOf(x)
      BY <1>2, <1>3, <1>4, <2>1, <3>1
    <3>3. Wanted(bcast[k])'
      BY <1>4, <1>7, <3>2 DEF Wanted
    <3>4. bcast'[k].seq = n
      BY <1>7, <3>2 DEF EntryOf
    <3>5. QED  BY <3>2, <3>3, <3>4 DEF Undelivered
  <2>2. CASE EntryOf(x) # EntryOf(r)
    <3>1. \A i \in 1..Len(bcast') : bcast'[i] # EntryOf(x)
      BY <1>2, <1>3, <1>7, <2>2 DEF Unannounced, Announced
    <3>2. x \in Unannounced' /\ Wanted(EntryOf(x))'
      BY <1>4, <1>7, <3>1 DEF Unannounced, Announced, Wanted, EntryOf
    <3>3. QED  BY <1>7, <3>2 DEF Undelivered
  <2>3. QED  BY <2>1, <2>2
<1>8. CASE n \in Requested
  BY <1>4, <1>8, RequestedKept DEF Undelivered
<1>9. QED  BY <1>5, <1>6, <1>7, <1>8, UndeliveredIs

\* Live delivery takes a wanted record from the channel to the wire.
LEMMA DeliverKeeps ==
  ASSUME TypeOK, DeliverLive, NEW n \in Undelivered
  PROVE  n \in Undelivered'
<1> USE DEF relayVars, storeVars
<1>1. /\ pos + 1 \in 1..Len(bcast) /\ Len(bcast) \in Nat /\ pos \in Nat
      /\ bcast[pos + 1] \in Entry
  BY LenProperties, ElementOfSeq DEF DeliverLive, TypeOK
<1>2. /\ pos' = pos + 1 /\ UNCHANGED <<rows, silent, bcast, req, sub>>
      /\ wire' = IF Wanted(bcast[pos + 1]) THEN Append(wire, bcast[pos + 1]) ELSE wire
  BY DEF DeliverLive
<1>3. /\ Append(wire, bcast[pos + 1]) \in Seq(Entry)
      /\ Len(Append(wire, bcast[pos + 1])) = Len(wire) + 1
      /\ Append(wire, bcast[pos + 1])[Len(wire) + 1] = bcast[pos + 1]
      /\ \A i \in 1..Len(wire) : Append(wire, bcast[pos + 1])[i] = wire[i]
      /\ Len(wire) \in Nat /\ DOMAIN wire = 1..Len(wire)
      /\ DOMAIN Append(wire, bcast[pos + 1]) = 1 .. Len(wire) + 1
  BY <1>1, AppendProperties, LenProperties DEF TypeOK
<1>4. CASE \E i \in DOMAIN wire : wire[i].seq = n
  <2>1. PICK i \in DOMAIN wire : wire[i].seq = n
    BY <1>4
  <2>2. i \in DOMAIN wire' /\ wire'[i] = wire[i]
    BY <1>2, <1>3, <2>1
  <2>3. QED  BY <2>1, <2>2 DEF Undelivered
<1>5. ASSUME NEW i \in pos + 1 .. Len(bcast), Wanted(bcast[i]), bcast[i].seq = n
      PROVE  n \in Undelivered'
  <2>1. CASE i = pos + 1
    <3>1. Len(wire) + 1 \in DOMAIN wire' /\ wire'[Len(wire) + 1].seq = n
      BY <1>2, <1>3, <1>5, <2>1
    <3>2. QED  BY <3>1 DEF Undelivered
  <2>2. CASE i # pos + 1
    <3>1. i \in pos' + 1 .. Len(bcast')
      BY <1>1, <1>2, <2>2
    <3>2. QED  BY <1>2, <1>5, <3>1 DEF Undelivered, Wanted
  <2>3. QED  BY <2>1, <2>2
<1>6. CASE \E x \in Unannounced : Wanted(EntryOf(x)) /\ x.seq = n
  BY <1>2, <1>6 DEF Undelivered, Wanted, Unannounced, Announced
<1>7. CASE n \in Requested
  BY <1>2, <1>7, RequestedKept DEF Undelivered
<1>8. QED  BY <1>4, <1>5, <1>6, <1>7, UndeliveredIs

\* What a lagging receiver skips is counted as lost.
LEMMA LagKeeps ==
  ASSUME TypeOK, Lag, NEW n \in Undelivered
  PROVE  n \in Undelivered' \/ n \in lost'
<1> USE DEF relayVars, storeVars
<1>1. /\ pos' \in Int /\ UNCHANGED <<rows, silent, bcast, req, sub, wire>>
      /\ \A j \in pos + 1 .. pos' : Wanted(bcast[j]) => bcast[j].seq \in lost'
  BY LenProperties, CursorAssumption DEF Lag, TypeOK
<1>2. pos \in Nat /\ Len(bcast) \in Nat
  BY LenProperties DEF TypeOK
<1>3. CASE \E i \in DOMAIN wire : wire[i].seq = n
  BY <1>1, <1>3 DEF Undelivered
<1>4. ASSUME NEW i \in pos + 1 .. Len(bcast), Wanted(bcast[i]), bcast[i].seq = n
      PROVE  n \in Undelivered' \/ n \in lost'
  <2>0. pos' \in Int /\ i \in Int /\ i >= pos + 1 /\ i <= Len(bcast)
    BY <1>1, <1>2
  <2>1. CASE i <= pos'
    <3>1. i \in pos + 1 .. pos'
      BY <1>2, <2>0, <2>1
    <3>2. QED  BY <1>1, <1>4, <3>1
  <2>2. CASE i > pos'
    <3>1. PICK p \in Int : p = pos'
      BY <2>0
    <3>2. i \in p + 1 .. Len(bcast)
      <4>1. p \in Int /\ i > p  BY <2>2, <3>1
      <4>2. i \in Int /\ Len(bcast) \in Int /\ i <= Len(bcast)  BY <1>2, <2>0
      <4>3. i >= p + 1  BY <4>1, <4>2
      <4>4. QED  BY <4>1, <4>2, <4>3
    <3>3. QED  BY <1>1, <1>4, <3>1, <3>2 DEF Undelivered, Wanted
  <2>3. QED  BY <2>0, <2>1, <2>2
<1>5. CASE \E x \in Unannounced : Wanted(EntryOf(x)) /\ x.seq = n
  BY <1>1, <1>5 DEF Undelivered, Wanted, Unannounced, Announced
<1>6. CASE n \in Requested
  BY <1>1, <1>6, RequestedKept DEF Undelivered
<1>7. QED  BY <1>3, <1>4, <1>5, <1>6, UndeliveredIs

\* A frame leaves the wire for a handler.
LEMMA ReceiveKeeps ==
  ASSUME TypeOK, ReceiveFrame, NEW row \in rows, row.seq \in Undelivered
  PROVE  row.seq \in Undelivered' \/ Received(row)'
<1> USE DEF relayVars, storeVars
<1> DEFINE n == row.seq
<1>1. /\ Head(wire) = wire[1] /\ Tail(wire) \in Seq(Entry)
      /\ Len(Tail(wire)) = Len(wire) - 1
      /\ \A i \in 1..Len(Tail(wire)) : Tail(wire)[i] = wire[i + 1]
  BY HeadTailProperties DEF ReceiveFrame, TypeOK
<1>2. Len(wire) \in Nat /\ DOMAIN wire = 1..Len(wire) /\ DOMAIN Tail(wire) = 1..Len(Tail(wire))
  BY <1>1, LenProperties DEF TypeOK
<1>3. /\ wire' = Tail(wire) /\ UNCHANGED <<rows, silent, bcast, req, sub, pos>>
      /\ [seq |-> Head(wire).seq, rec |-> Head(wire).rec, at |-> "ingest"] \in handling'
  BY DEF ReceiveFrame
<1>4. ASSUME NEW i \in DOMAIN wire, wire[i].seq = n
      PROVE  n \in Undelivered' \/ Received(row)'
  <2>1. CASE i = 1
    BY <1>1, <1>3, <1>4, <2>1 DEF Received
  <2>2. CASE i # 1
    <3>1. i - 1 \in DOMAIN wire' /\ wire'[i - 1] = wire[i]
      BY <1>1, <1>2, <1>3, <2>2
    <3>2. QED  BY <1>4, <3>1 DEF Undelivered
  <2>3. QED  BY <2>1, <2>2
<1>5. CASE \E i \in pos + 1 .. Len(bcast) : Wanted(bcast[i]) /\ bcast[i].seq = n
  BY <1>3, <1>5 DEF Undelivered, Wanted
<1>6. CASE \E x \in Unannounced : Wanted(EntryOf(x)) /\ x.seq = n
  BY <1>3, <1>6 DEF Undelivered, Wanted, Unannounced, Announced
<1>7. CASE n \in Requested
  BY <1>3, <1>7, RequestedKept DEF Undelivered
<1>8. QED  BY <1>4, <1>5, <1>6, <1>7, UndeliveredIs

\* A new connection asks for everything above the cursor; below it, what the last one
\* left is counted as lost, but for the row the cursor rests on, which is settled.
LEMMA ConnectCovers ==
  ASSUME TypeOK, ResumeInv, Connect, NEW row \in rows
  PROVE  Covered(row)'
<1> USE DEF relayVars, gatewayVars, storeVars
<1>1. /\ ~open /\ sub = NoReq /\ wire = <<>> /\ req = NoReq
      /\ req' = since /\ UNCHANGED <<rows, handling, since, index, seen>>
      /\ lost' = {n \in lost : n <= since} \cup {n \in cut : n < since}
  BY DEF Connect, Connected, TypeOK
<1>2. since \in Nat /\ row.seq \in Nat /\ req' # NoReq
  BY <1>1, CursorAssumption DEF TypeOK, StoreTypeOK, Row
<1>3. CASE row.seq > since
  <2>1. row \in Selected(SinceFilter(since))
    BY <1>2, <1>3, SelectsAbove DEF Selected
  <2>2. Selected(SinceFilter(since))' = Selected(SinceFilter(since))
    BY <1>1 DEF Selected
  <2>3. row.seq \in Requested'
    BY <1>1, <1>2, <2>1, <2>2 DEF Requested, Seqs, Selected
  <2>4. QED  BY <2>3 DEF Covered, Undelivered
<1>4. CASE row.seq <= since
  <2>1. Covered(row)
    <3>1. ~(row.seq > since)
      BY <1>2, <1>4
    <3>2. QED  BY <3>1 DEF ResumeInv, Ahead
  <2>2. row.seq \notin Undelivered
    <3>1. DOMAIN wire = {}
      BY <1>1
    <3>2. QED  BY <1>1, <3>1 DEF Undelivered, Requested, Wanted
  <2>3. CASE Received(row)
    BY <1>1, <2>3 DEF Covered, Received, Settled
  <2>4. CASE row.seq \in lost
    BY <1>1, <1>4, <2>4 DEF Covered
  <2>5. CASE row.seq \in cut /\ row.seq < since
    BY <1>1, <2>5 DEF Covered
  <2>6. CASE row.seq = since
    <3>1. Settled(row) \/ row.seq \in lost
      BY <2>6 DEF ResumeInv
    <3>2. QED  BY <2>3, <2>4, <3>1 DEF Received
  <2>7. QED  BY <1>2, <1>4, <2>1, <2>2, <2>3, <2>4, <2>5, <2>6 DEF Covered
<1>5. QED  BY <1>2, <1>3, <1>4

\* What a handler has settled stays settled.
LEMMA SettledKept ==
  ASSUME [Next]_vars, NEW row, Settled(row)
  PROVE  Settled(row)'
<1>1. index \subseteq index' /\ seen \subseteq seen'
  BY DEF Next, Relay, Gateway, Publish, Announce, Backfill, BackfillFails, DeliverLive,
         Lag, Connect, Connected, ReceiveFrame, Process, ProcessFails, Advance, Disconnect,
         RelayRestart, Crash, vars, gatewayVars
<1>2. QED  BY <1>1 DEF Settled

\* A handler that has finished its ingest leaves a settled row.
LEMMA ProcessSettles ==
  ASSUME TypeOK, TravelInv, NEW h \in handling, Process(h), NEW row \in rows, row.seq = h.seq
  PROVE  Settled(row)'
<1>1. row.rec = h.rec /\ h.seq \in seen
  BY DEF TravelInv
<1>2. QED  BY <1>1 DEF Process, Settled

\* Only a new connection forgets what was lost.
LEMMA LostGrows ==
  ASSUME [Next]_vars, ~Connect
  PROVE  lost \subseteq lost' /\ cut \subseteq cut'
BY DEF Next, Relay, Gateway, Publish, Announce, Backfill, BackfillFails, DeliverLive,
       Lag, ReceiveFrame, Process, ProcessFails, Advance, Disconnect,
       RelayRestart, Crash, vars

\* A row a handler is at stays accounted for.
LEMMA HandledKept ==
  ASSUME TypeOK, TravelInv, ResumeInv, [Next]_vars, ~Connect,
         NEW row \in rows, NEW h \in handling, h.seq = row.seq, h.at = "ingest"
  PROVE  Covered(row)'
<1> USE DEF relayVars, linkVars, gatewayVars, storeVars
<1>1. CASE h \in handling'
  BY <1>1 DEF Covered, Received
<1>2. ASSUME NEW g \in handling, Process(g), h \notin handling' PROVE Covered(row)'
  <2>1. g = h
    BY <1>2 DEF Process, AwaitsAdvance
  <2>2. QED  BY <1>2, <2>1, ProcessSettles DEF Covered, Received
<1>3. ASSUME NEW g \in handling, ProcessFails(g), h \notin handling' PROVE Covered(row)'
  BY <1>3 DEF ProcessFails, Covered
<1>4. ASSUME NEW g \in handling, Advance(g), h \notin handling' PROVE FALSE
  BY <1>4 DEF Advance
<1>5. CASE Crash
  BY <1>5 DEF Crash, Covered, Seqs
<1>6. handling \subseteq handling' \/ Crash
        \/ \E g \in handling : Process(g) \/ ProcessFails(g) \/ Advance(g)
  BY DEF Next, Relay, Gateway, Publish, Announce, Backfill, BackfillFails, DeliverLive,
         Lag, ReceiveFrame, Disconnect, RelayRestart, vars
<1>7. QED  BY <1>1, <1>2, <1>3, <1>4, <1>5, <1>6

\* A step accounts for whatever was accounted for before it.
LEMMA CoverageKept ==
  ASSUME TypeOK, TravelInv, ResumeInv, [Next]_vars, NEW row \in rows, Covered(row)
  PROVE  Covered(row)'
<1> USE DEF relayVars, linkVars, gatewayVars, storeVars
<1>1. CASE Connect
  BY <1>1, ConnectCovers
<1>2. CASE Settled(row)
  BY <1>2, SettledKept DEF Covered, Received
<1>3. CASE ~Connect /\ row.seq \in lost \cup cut
  BY <1>3, LostGrows DEF Covered
<1>4. CASE ~Connect /\ \E h \in handling : h.seq = row.seq /\ h.at = "ingest"
  BY <1>4, HandledKept
<1>5. CASE ~Connect /\ row.seq \in Undelivered
  <2> DEFINE n == row.seq
  <2>1. SUFFICES n \in Undelivered' \/ n \in lost' \cup cut' \/ Received(row)'
    BY DEF Covered
  <2>2. ASSUME UNCHANGED <<wire, pos, bcast, req, sub, silent>>, rows \subseteq rows'
        PROVE  n \in Undelivered'
    <3>1. CASE n \in Requested
      BY <2>2, <3>1, RequestedKept DEF Undelivered
    <3>2. CASE n \notin Requested
      BY <1>5, <2>2, <3>2 DEF Undelivered, Wanted, Unannounced, Announced
    <3>3. QED  BY <3>1, <3>2
  <2>3. CASE Disconnect \/ RelayRestart \/ Crash
    BY <1>5, <2>3 DEF Disconnect, RelayRestart, Crash
  <2>4. CASE Announce
    BY <1>5, <2>4, AnnounceKeeps
  <2>5. CASE Backfill \/ BackfillFails
    <3>1. req # NoReq /\ sub = NoReq /\ DOMAIN wire = {}
      BY <2>5 DEF Backfill, BackfillFails, ResumeInv
    <3>2. n \in Seqs(Selected(SinceFilter(req)))
      BY <1>5, <3>1 DEF Undelivered, Wanted, Requested
    <3>3. row \in Selected(SinceFilter(req))
      BY <3>2 DEF Seqs, Selected, TravelInv
    <3>4. QED  BY <2>5, <3>3, BackfillCovers DEF Undelivered
  <2>6. CASE DeliverLive
    BY <1>5, <2>6, DeliverKeeps
  <2>7. CASE Lag
    BY <1>5, <2>7, LagKeeps
  <2>8. CASE ReceiveFrame
    BY <1>5, <2>8, ReceiveKeeps
  <2>9. QED
    BY <1>5, <2>1, <2>2, <2>3, <2>4, <2>5, <2>6, <2>7, <2>8
    DEF Next, Relay, Gateway, Publish, InsertRecord, Process, ProcessFails, Advance, vars
<1>6. QED  BY <1>1, <1>2, <1>3, <1>4, <1>5 DEF Covered, Received

\* A row just stored lies ahead of the cursor and of all handlers; on an open connection
\* it is asked for, or will be announced.
LEMMA FreshRow ==
  ASSUME TypeOK, AnnouncedStored, TravelInv, ResumeInv, NEW r \in Rec, Publish(r),
         NEW row \in rows' \ rows
  PROVE  /\ Ahead(row)'
         /\ open => Covered(row)'
<1> USE DEF linkVars, gatewayVars, storeVars
<1>1. row = [seq |-> lastSeq + 1, rec |-> r, at |-> 0] /\ lastSeq \in Nat
  BY DEF Publish, InsertRecord, NextSeq, TypeOK, StoreTypeOK
<1>2. \A x \in rows : x.seq \in Nat /\ x.seq < row.seq
  BY <1>1 DEF TravelInv, TypeOK, StoreTypeOK, Row
<1>3. row.seq > since
  BY <1>1, <1>2 DEF TravelInv, CursorIsStored
<1>4. \A h \in handling : row.seq > h.seq
  BY <1>2 DEF TravelInv
<1>5. Ahead(row)'
  BY <1>3, <1>4 DEF Ahead, Publish
<1>6. ASSUME sub # NoReq PROVE Covered(row)'
  <2>1. UNCHANGED <<bcast, silent, sub>>
    BY DEF Publish
  <2>2. \A i \in 1..Len(bcast) : bcast[i] # EntryOf(row)
    <3>1. SUFFICES ASSUME NEW i \in 1..Len(bcast), bcast[i] = EntryOf(row) PROVE FALSE
      OBVIOUS
    <3>2. PICK x \in rows : EntryOf(x) = EntryOf(row)
      BY <3>1 DEF AnnouncedStored
    <3>3. x.seq = row.seq
      BY <3>2 DEF EntryOf
    <3>4. QED  BY <1>2, <3>3
  <2>3. row \in Unannounced' \/ row.seq \in silent'
    BY <2>1, <2>2 DEF Unannounced, Announced, EntryOf
  <2>4. sub \in Nat /\ sub <= since /\ since \in Nat
    BY <1>6 DEF ResumeInv, TypeOK
  <2>5. EntryOf(row).seq > sub
    BY <1>1, <1>3, <2>4 DEF EntryOf
  <2>6. Wanted(EntryOf(row))
    BY <1>6, <2>5, WantedAbove
  <2>7. Wanted(EntryOf(row))'
    BY <2>1, <2>6 DEF Wanted, EntryOf
  <2>8. row.seq \notin silent
    BY <1>2 DEF TravelInv
  <2>9. QED  BY <2>1, <2>3, <2>7, <2>8 DEF Covered, Undelivered
<1>7. ASSUME req # NoReq PROVE Covered(row)'
  <2>1. req \in Nat /\ req <= since /\ since \in Nat /\ UNCHANGED req
    BY <1>7 DEF ResumeInv, TypeOK, Publish
  <2>2. row.seq > req /\ row.seq \in Nat
    BY <1>1, <1>3, <2>1
  <2>3. row \in Selected(SinceFilter(req))'
    BY <2>1, <2>2, SelectsAbove DEF Selected
  <2>4. row.seq \in Requested'
    BY <1>7, <2>1, <2>3 DEF Requested, Seqs
  <2>5. QED  BY <2>4 DEF Covered, Undelivered
<1>8. QED  BY <1>5, <1>6, <1>7 DEF ResumeInv

\* A handler that moves the cursor leaves a settled row under it, and what lay ahead
\* of it stays ahead.
LEMMA CursorMoves ==
  ASSUME TypeOK, TravelInv, ResumeInv, NEW h \in handling, Advance(h) \/ ProcessFails(h)
  PROVE  /\ since' \in Nat /\ since' >= since
         /\ \A row \in rows : Ahead(row) => Ahead(row)'
         /\ \A row \in rows : row.seq = since' => Settled(row)' \/ row.seq \in lost'
<1>1. h \in Handler /\ since \in Nat /\ h.seq \in Nat
  BY DEF TypeOK, Handler
<1>2. /\ since' = IF h.seq > since THEN h.seq ELSE since
      /\ handling' = handling \ {h} /\ UNCHANGED <<index, seen>> /\ lost \subseteq lost'
  BY DEF Advance, ProcessFails, SetSince
<1>3. since' \in Nat /\ since' >= since /\ since' \in {since, h.seq}
  BY <1>1, <1>2
<1>4. ASSUME NEW row \in rows, Ahead(row) PROVE Ahead(row)'
  BY <1>2, <1>3, <1>4 DEF Ahead
<1>5. ASSUME NEW row \in rows, row.seq = h.seq PROVE Settled(row) \/ row.seq \in lost'
  <2>1. CASE Advance(h)
    <3>1. row.rec = h.rec /\ h.seq \in seen
      BY <1>5 DEF TravelInv
    <3>2. h.rec \in index \cup Refused
      BY <2>1 DEF Advance, ResumeInv
    <3>3. QED  BY <1>5, <3>1, <3>2 DEF Settled
  <2>2. CASE ProcessFails(h)
    BY <1>5, <2>2 DEF ProcessFails
  <2>3. QED  BY <2>1, <2>2
<1>6. ASSUME NEW row \in rows, row.seq = since' PROVE Settled(row)' \/ row.seq \in lost'
  <2>1. Settled(row) \/ row.seq \in lost'
    BY <1>2, <1>3, <1>5, <1>6 DEF ResumeInv
  <2>2. QED  BY <1>2, <2>1 DEF Settled
<1>7. QED  BY <1>3, <1>4, <1>6

\* A step that moves neither the cursor nor a handler keeps what lies ahead, and the row
\* at the cursor settled.
LEMMA CursorStays ==
  ASSUME ResumeInv, [Next]_vars, since' = since, rows' = rows,
         \A n \in lost : n <= since => n \in lost',
         \A h \in handling' : \E g \in handling : g.seq = h.seq, since \in Nat
  PROVE  /\ \A row \in rows : Ahead(row) => Ahead(row)'
         /\ \A row \in rows : row.seq = since' => Settled(row)' \/ row.seq \in lost'
<1>1. ASSUME NEW row \in rows, Ahead(row) PROVE Ahead(row)'
  BY <1>1 DEF Ahead
<1>2. ASSUME NEW row \in rows, row.seq = since' PROVE Settled(row)' \/ row.seq \in lost'
  <2>1. Settled(row) \/ row.seq \in lost
    BY <1>2 DEF ResumeInv
  <2>2. row.seq \in lost => row.seq \in lost'
    BY <1>2
  <2>3. QED  BY <2>1, <2>2, SettledKept
<1>3. QED  BY <1>1, <1>2

\* Nothing is left behind without a cause, whatever breaks and in whatever order the
\* handlers finish.
THEOREM ResumeInvariant == Spec => []ResumeInv
<1>1. Init => ResumeInv
  BY CursorAssumption DEF Init, ResumeInv
<1>2. TypeOK /\ TypeOK' /\ AnnouncedStored /\ TravelInv /\ ResumeInv /\ [Next]_vars
        => ResumeInv'
  <2> SUFFICES ASSUME TypeOK, TypeOK', AnnouncedStored, TravelInv, ResumeInv, [Next]_vars
               PROVE  ResumeInv'
    OBVIOUS
  <2> USE DEF relayVars, linkVars, gatewayVars, storeVars
  <2>1. \A row \in rows : Covered(row) => Covered(row)'
    BY CoverageKept
  <2>2. since \in Nat
    BY DEF TypeOK
  <2>3. ASSUME NEW r \in Rec, Publish(r) PROVE ResumeInv'
    <3>1. UNCHANGED <<open, cut, req, sub, wire, since, handling, lost, index, seen>>
      BY <2>3 DEF Publish
    <3>2. \A row \in rows' \ rows : Ahead(row)' /\ (open => Covered(row)')
      BY <2>3, FreshRow
    <3>3. \A row \in rows : Covered(row)' \/ Ahead(row)'
      BY <2>1, <3>1 DEF ResumeInv, Ahead
    <3>4. open => \A row \in rows' : Covered(row)'
      BY <2>1, <3>2 DEF ResumeInv
    <3>5. \A row \in rows' : row.seq = since' => Settled(row)' \/ row.seq \in lost'
      <4>1. \A row \in rows' \ rows : row.seq # since'
        BY <2>2, <3>1, <3>2 DEF Ahead
      <4>2. QED  BY <3>1, <4>1 DEF ResumeInv, Settled
    <3>6. QED  BY <3>1, <3>2, <3>3, <3>4, <3>5 DEF ResumeInv
  <2>4. CASE Announce \/ DeliverLive \/ Lag \/ UNCHANGED vars
    <3>1. /\ UNCHANGED <<rows, open, cut, req, sub, since, handling, index>>
          /\ lost \subseteq lost'
      BY <2>4 DEF Announce, DeliverLive, Lag, vars
    <3>2. req' # NoReq => wire' = <<>>
      BY <2>4 DEF Announce, DeliverLive, Lag, vars, ResumeInv, Wanted
    <3>3. /\ \A row \in rows : Ahead(row) => Ahead(row)'
          /\ \A row \in rows : row.seq = since' => Settled(row)' \/ row.seq \in lost'
      BY <2>2, <3>1, CursorStays
    <3>4. QED  BY <2>1, <3>1, <3>2, <3>3 DEF ResumeInv
  <2>5. CASE Backfill \/ BackfillFails
    <3>1. /\ req # NoReq /\ sub' = req /\ req' = NoReq
          /\ UNCHANGED <<rows, open, cut, since, handling, index>> /\ lost \subseteq lost'
      BY <2>5 DEF Backfill, BackfillFails
    <3>2. /\ \A row \in rows : Ahead(row) => Ahead(row)'
          /\ \A row \in rows : row.seq = since' => Settled(row)' \/ row.seq \in lost'
      BY <2>2, <3>1, CursorStays
    <3>3. QED  BY <2>1, <3>1, <3>2 DEF ResumeInv
  <2>6. CASE Connect
    <3>1. /\ ~open /\ wire = <<>> /\ sub = NoReq /\ cut' = {} /\ req' = since
          /\ UNCHANGED <<rows, since, handling, index, sub, wire>>
          /\ \A n \in lost : n <= since => n \in lost'
      BY <2>6 DEF Connect, Connected, TypeOK
    <3>2. /\ \A row \in rows : Ahead(row) => Ahead(row)'
          /\ \A row \in rows : row.seq = since' => Settled(row)' \/ row.seq \in lost'
      BY <2>2, <3>1, CursorStays
    <3>3. \A row \in rows' : Covered(row)'
      BY <2>6, <3>1, ConnectCovers
    <3>4. req' # NoReq /\ req' <= since'
      BY <2>2, <3>1, CursorAssumption
    <3>5. QED  BY <3>1, <3>2, <3>3, <3>4 DEF ResumeInv
  <2>7. CASE ReceiveFrame
    <3>1. /\ wire # <<>> /\ UNCHANGED <<rows, open, cut, req, sub, since, index, lost>>
          /\ handling' = handling \cup
               {[seq |-> Head(wire).seq, rec |-> Head(wire).rec, at |-> "ingest"]}
      BY <2>7 DEF ReceiveFrame
    <3>2. open /\ req = NoReq
      BY <3>1 DEF ResumeInv, TypeOK
    <3>3. \A row \in rows : Covered(row)'
      BY <2>1, <3>2 DEF ResumeInv
    <3>4. \A row \in rows : row.seq = since' => Settled(row)' \/ row.seq \in lost'
      BY <3>1, SettledKept DEF ResumeInv
    <3>5. QED  BY <3>1, <3>2, <3>3, <3>4 DEF ResumeInv
  <2>8. ASSUME NEW h \in handling, Process(h) PROVE ResumeInv'
    <3>1. h \in Handler
      BY DEF TypeOK
    <3>2. [h EXCEPT !.at = "advance"].seq = h.seq /\ [h EXCEPT !.at = "advance"].rec = h.rec
      BY <3>1 DEF Handler
    <3>3. /\ UNCHANGED <<rows, open, cut, req, sub, since, wire, lost>> /\ index \subseteq index'
          /\ handling' = (handling \ {h}) \cup {[h EXCEPT !.at = "advance"]}
          /\ h.rec \in index' \cup Refused
      BY <2>8 DEF Process, AwaitsAdvance
    <3>4. \A g \in handling' : g.at = "advance" => g.rec \in index' \cup Refused
      BY <3>2, <3>3 DEF ResumeInv
    <3>5. /\ \A row \in rows : Ahead(row) => Ahead(row)'
          /\ \A row \in rows : row.seq = since' => Settled(row)' \/ row.seq \in lost'
      BY <2>2, <3>2, <3>3, CursorStays
    <3>6. QED  BY <2>1, <3>3, <3>4, <3>5 DEF ResumeInv
  <2>9. ASSUME NEW h \in handling, Advance(h) \/ ProcessFails(h) PROVE ResumeInv'
    <3>1. /\ handling' = handling \ {h}
          /\ UNCHANGED <<rows, open, cut, req, sub, wire, index>>
      BY <2>9 DEF Advance, ProcessFails
    <3>2. /\ since' \in Nat /\ since' >= since
          /\ \A row \in rows : Ahead(row) => Ahead(row)'
          /\ \A row \in rows : row.seq = since' => Settled(row)' \/ row.seq \in lost'
      BY <2>9, CursorMoves
    <3>3. (req # NoReq => req' <= since') /\ (sub # NoReq => sub' <= since')
      BY <2>2, <3>1, <3>2 DEF ResumeInv, TypeOK
    <3>4. QED  BY <2>1, <3>1, <3>2, <3>3 DEF ResumeInv
  <2>10. CASE Disconnect \/ RelayRestart \/ Crash
    <3>1. /\ CloseSocket /\ UNCHANGED <<rows, since, index, lost>>
          /\ handling' \subseteq handling
      BY <2>10 DEF Disconnect, RelayRestart, Crash
    <3>2. ~open' /\ req' = NoReq /\ sub' = NoReq /\ wire' = <<>>
      BY <3>1 DEF CloseSocket
    <3>3. /\ \A row \in rows : Ahead(row) => Ahead(row)'
          /\ \A row \in rows : row.seq = since' => Settled(row)' \/ row.seq \in lost'
      BY <2>2, <3>1, CursorStays
    <3>4. QED  BY <2>1, <3>1, <3>2, <3>3 DEF ResumeInv
  <2>11. QED
    BY <2>3, <2>4, <2>5, <2>6, <2>7, <2>8, <2>9, <2>10 DEF Next, Relay, Gateway
<1>3. QED  BY <1>1, <1>2, TypeInvariant, TravelInvariant, PTL DEF Spec

\* The parts of the invariant that the run checks: below the cursor nothing disappears
\* without a cause, ...
THEOREM GapsExplained == Spec => []GapsHaveCauses
<1>1. TypeOK /\ ResumeInv => GapsHaveCauses
  <2> SUFFICES ASSUME TypeOK, ResumeInv, NEW row \in rows, row.seq <= since
               PROVE  Covered(row)
    BY DEF GapsHaveCauses, Covered
  <2>1. row.seq \in Nat /\ since \in Nat
    BY DEF TypeOK, StoreTypeOK, Row
  <2>2. ~(row.seq > since)
    BY <2>1
  <2>3. QED  BY <2>2 DEF ResumeInv, Ahead
<1>2. QED  BY <1>1, TypeCorrect, ResumeInvariant, PTL

\* ... and an open connection carries all the rest, whatever broke before it.
THEOREM NothingWaits == Spec => []ConnectionCarriesAll
<1>1. ResumeInv => ConnectionCarriesAll
  BY DEF ResumeInv, Covered, ConnectionCarriesAll
<1>2. QED  BY <1>1, ResumeInvariant, PTL

=============================================================================
