----------------------------- MODULE Relay_proofs -----------------------------
(***************************************************************************)
(* Theorems about Relay, for every number of connections, records,         *)
(* subscriptions and every capacity.                                       *)
(***************************************************************************)
EXTENDS Relay, FiniteSetTheorems, SequenceTheorems, TLAPS

-----------------------------------------------------------------------------
(* The store *)

\* A query returns finitely many rows, so its result is a list of rows.
LEMMA QueryFinite ==
  ASSUME IsFiniteSet(rows), NEW f
  PROVE  /\ QueryRows(f) \subseteq rows
         /\ IsFiniteSet(QueryRows(f))
         /\ Cardinality(QueryRows(f)) \in Nat
<1>1. QueryRows(f) \subseteq rows  BY DEF QueryRows, Selected
<1>2. IsFiniteSet(QueryRows(f))  BY <1>1, FS_Subset
<1>3. QED  BY <1>1, <1>2, FS_CardinalityType

\* A descending list of finitely many rows names each of them.
LEMMA DescendingCovers ==
  ASSUME NEW S, IsFiniteSet(S), S \subseteq Row, NEW q \in Descending(S)
  PROVE  /\ q \in Seq(S)
         /\ \A x \in S : \E i \in 1..Len(q) : q[i] = x
<1> DEFINE n == Cardinality(S)
<1>1. n \in Nat
  BY FS_CardinalityType
<1>2. q \in [1..n -> S] /\ \A i, j \in 1..n : i < j => q[i].seq > q[j].seq
  BY DEF Descending
<1>3. q \in Seq(S) /\ Len(q) = n
  BY <1>1, <1>2
<1>4. \A i, j \in 1..n : q[i] = q[j] => i = j
  <2> SUFFICES ASSUME NEW i \in 1..n, NEW j \in 1..n, q[i] = q[j], i # j
               PROVE  FALSE
    OBVIOUS
  <2>1. q[i].seq \in Nat /\ q[j].seq \in Nat
    BY <1>2 DEF Row
  <2>2. i < j \/ j < i
    BY <1>1
  <2>3. QED  BY <1>2, <2>1, <2>2
<1>5. q \in Injection(1..n, S)
  BY <1>2, <1>4 DEF Injection, IsInjective
<1>6. Cardinality(1..n) = Cardinality(S)
  BY <1>1, FS_Interval
<1>7. q \in Surjection(1..n, S)
  BY <1>5, <1>6, FS_Injection
<1>8. \A x \in S : \E i \in 1..n : q[i] = x
  BY <1>7 DEF Surjection
<1>9. QED  BY <1>3, <1>8

\* insert_record keeps the tables well formed.
LEMMA InsertKeepsStoreType ==
  ASSUME StoreTypeOK, NEW r \in Rec, InsertRecord(r, 0)
  PROVE  StoreTypeOK'
<1>1. CASE Stored(r)
  BY <1>1 DEF StoreTypeOK, InsertRecord, storeVars
<1>2. CASE ~Stored(r)
  <2>. DEFINE row == [seq |-> NextSeq, rec |-> r, at |-> 0]
  <2>0. rows' = rows \cup {row} /\ IsFiniteSet(rows)
    BY <1>2 DEF StoreTypeOK, InsertRecord
  <2>1. IsFiniteSet(rows')
    BY <2>0, FS_AddElement
  <2>2. QED
    BY <1>2, <2>1 DEF StoreTypeOK, InsertRecord, NextSeq, Row
<1>3. QED  BY <1>1, <1>2

\* Steps that leave the store alone keep its type.
LEMMA StoreUnchanged ==
  ASSUME StoreTypeOK, UNCHANGED storeVars
  PROVE  StoreTypeOK'
BY DEF StoreTypeOK, storeVars

-----------------------------------------------------------------------------
(* Frames *)

\* A one-frame answer is a list of frames.
LEMMA SingletonSeq == ASSUME NEW S, NEW x \in S PROVE <<x>> \in Seq(S)
OBVIOUS

\* The frames a handler builds are relay frames.
LEMMA FrameTypes ==
  /\ \A s \in SubId : \A e : e.seq \in Nat /\ e.rec \in Rec => RecFrame(s, e) \in RelayFrame
  /\ \A s \in SubId : Eose(s) \in RelayFrame
  /\ \A r \in Rec : <<Ok(r)>> \in Seq(RelayFrame)
  /\ \A r \in Rec : <<Refusal(r)>> \in Seq(RelayFrame)
<1>1. /\ \A s \in SubId : \A e : e.seq \in Nat /\ e.rec \in Rec => RecFrame(s, e) \in RelayFrame
      /\ \A s \in SubId : Eose(s) \in RelayFrame
      /\ \A r \in Rec : Ok(r) \in RelayFrame /\ Refusal(r) \in RelayFrame
  BY DEF RecFrame, Eose, Ok, Refusal, RelayFrame
<1>2. QED
  BY <1>1, SingletonSeq

\* What a task reads from its socket.
LEMMA ReadFrame ==
  ASSUME TypeOK, NEW c \in Client, inbox[c] # <<>>
  PROVE  /\ Tail(inbox[c]) \in Seq(ClientFrame)
         /\ Head(inbox[c]) \in ClientFrame
         /\ Head(inbox[c]).type = "REQ" =>
              Head(inbox[c]).sub \in SubId /\ Head(inbox[c]).filter \in Filters
         /\ Head(inbox[c]).type = "CLOSE" => Head(inbox[c]).sub \in SubId
         /\ Head(inbox[c]).type = "PUB" =>
              Head(inbox[c]).rec \in Rec /\ Head(inbox[c]).work \in BOOLEAN
<1>1. inbox[c] \in Seq(ClientFrame)  BY DEF TypeOK
<1>2. Tail(inbox[c]) \in Seq(ClientFrame) /\ Head(inbox[c]) \in ClientFrame
  BY <1>1, HeadTailProperties
<1>3. QED  BY <1>2 DEF ClientFrame

\* What a task that stands at an await carries.
LEMMA TaskFields ==
  ASSUME TypeOK, NEW c \in Client
  PROVE  /\ task[c].at = "query" => task[c].sub \in SubId /\ task[c].filter \in Filters
         /\ task[c].at = "insert" => task[c].rec \in Rec
         /\ task[c].at = "announce" => task[c].entry \in Entry
BY DEF TypeOK, Task, Select

\* Two tasks that announce one entry stand at the same place.
LEMMA TypeTaskUnique ==
  ASSUME TypeOK, NEW c \in Client, NEW d \in Client,
         task[c].at = "announce", task[d].at = "announce", task[c].entry = task[d].entry
  PROVE  task[c] = task[d]
<1>1. /\ task[c] \in [at : {"announce"}, entry : Entry]
      /\ task[d] \in [at : {"announce"}, entry : Entry]
  BY DEF TypeOK, Task, Select
<1>2. /\ task[c] = [at |-> "announce", entry |-> task[c].entry]
      /\ task[d] = [at |-> "announce", entry |-> task[d].entry]
  BY <1>1
<1>3. QED  BY <1>2

\* Every variable keeps its type, and no socket holds more than its buffers: a frame
\* is written only when there is room for it.
THEOREM TypeCorrect == Spec => []TypeOK
<1>1. Init => TypeOK
  BY FS_EmptySet, RelayAssumption
  DEF Init, TypeOK, StoreTypeOK, Task, Select, NoSubs, FullBuckets, Entry
<1>2. TypeOK /\ [Next]_vars => TypeOK'
  <2>. SUFFICES ASSUME TypeOK, [Next]_vars PROVE TypeOK'
    OBVIOUS
  <2>. USE RelayAssumption
  <2>1. ASSUME NEW c \in Client, Connect(c) PROVE TypeOK'
    BY <2>1, StoreUnchanged DEF TypeOK, Connect
  <2>2. ASSUME NEW c \in Client, ClientSend(c) PROVE TypeOK'
    BY <2>2, StoreUnchanged DEF TypeOK, ClientSend
  <2>3. ASSUME NEW c \in Client, ClientRead(c) PROVE TypeOK'
    BY <2>3, StoreUnchanged DEF TypeOK, ClientRead
  <2>4. ASSUME NEW c \in Client, Disconnect(c) PROVE TypeOK'
    <3>1. PICK rest \in {inbox[c], <<>>} : inbox' = [inbox EXCEPT ![c] = rest]
      BY <2>4 DEF Disconnect
    <3>2. rest \in Seq(ClientFrame) /\ <<>> \in Seq(RelayFrame)
      BY <3>1, EmptySeq DEF TypeOK
    <3>3. QED
      BY <2>4, <3>1, <3>2, StoreUnchanged DEF TypeOK, Disconnect
  <2>5. ASSUME NEW c \in Client, HandleReq(c) PROVE TypeOK'
    <3>. DEFINE m == Head(inbox[c])
    <3>1. m.sub \in SubId /\ m.filter \in Filters /\ Tail(inbox[c]) \in Seq(ClientFrame)
      BY <2>5, ReadFrame DEF HandleReq, NextFrame
    <3>2. Querying(m.sub, m.filter) \in Task
      BY <3>1 DEF Querying, Task
    <3>3. /\ subs' = [subs EXCEPT ![c][m.sub] = m.filter]
          /\ task' = [task EXCEPT ![c] = Querying(m.sub, m.filter)]
          /\ inbox' = [inbox EXCEPT ![c] = Tail(inbox[c])]
          /\ UNCHANGED <<storeVars, up, todo, out, got, bcast, pos, tokens, missed>>
      BY <2>5 DEF HandleReq
    <3>. HIDE DEF m
    <3>4. QED  BY <3>1, <3>2, <3>3, StoreUnchanged DEF TypeOK
  <2>6. ASSUME NEW c \in Client, HandleClose(c) PROVE TypeOK'
    BY <2>6, StoreUnchanged DEF TypeOK, HandleClose, NextFrame, ClientFrame
  <2>7. ASSUME NEW c \in Client, RefusePub(c) PROVE TypeOK'
    <3>0. Head(inbox[c]).rec \in Rec
      BY <2>7, ReadFrame DEF RefusePub, NextFrame
    <3>1. <<Refusal(Head(inbox[c]).rec)>> \in Seq(RelayFrame)
      BY <3>0, FrameTypes
    <3>2. QED
      BY <2>7, <3>1, ReadFrame, StoreUnchanged DEF TypeOK, RefusePub, NextFrame
  <2>8. ASSUME NEW c \in Client, AdmitPub(c) PROVE TypeOK'
    <3>. DEFINE a == AuthorOf[Head(inbox[c]).rec]
    <3>1. Inserting(Head(inbox[c]).rec) \in Task /\ a \in Author
      BY <2>8, ReadFrame DEF AdmitPub, NextFrame, Inserting, Task, Author
    <3>2. tokens' \in [Author -> Nat]
      BY <2>8, <3>1 DEF AdmitPub, TakeToken, HasToken, TypeOK
    <3>3. QED
      BY <2>8, <3>1, <3>2, ReadFrame, StoreUnchanged DEF TypeOK, AdmitPub, NextFrame
  <2>9. ASSUME NEW c \in Client, QueryDone(c) PROVE TypeOK'
    <3>. DEFINE s == task[c].sub  f == task[c].filter  S == QueryRows(f)
    <3>1. s \in SubId /\ f \in Filters
      BY <2>9, TaskFields DEF QueryDone
    <3>2. S \subseteq rows /\ Cardinality(S) \in Nat /\ rows \subseteq Row
      BY QueryFinite DEF TypeOK, StoreTypeOK
    <3>3. PICK q \in Descending(S) : todo' = [todo EXCEPT ![c] = Backfill(s, q)]
      BY <2>9 DEF QueryDone
    <3>4. Backfill(s, q) \in Seq(RelayFrame)
      <4>1. q \in [1..Cardinality(S) -> Row]
        BY <3>2, <3>3 DEF Descending
      <4>2. [i \in DOMAIN q |-> RecFrame(s, q[i])] \in Seq(RelayFrame)
        <5>1. \A i \in 1..Cardinality(S) : RecFrame(s, q[i]) \in RelayFrame
          <6>1. \A i \in 1..Cardinality(S) : q[i].seq \in Nat /\ q[i].rec \in Rec
            BY <4>1 DEF Row
          <6>2. QED  BY <3>1, <6>1, FrameTypes
        <5>2. DOMAIN q = 1..Cardinality(S)
          BY <4>1
        <5> DEFINE F == [i \in DOMAIN q |-> RecFrame(s, q[i])]
        <5> HIDE DEF S
        <5>3. F \in [1..Cardinality(S) -> RelayFrame]
          BY <5>1, <5>2
        <5>4. QED  BY <3>2, <5>3
      <4>3. QED
        BY <3>1, <4>2, FrameTypes, AppendProperties DEF Backfill
    <3>5. Omitting(c, s, f, S) \subseteq [sub : SubId, seq : Nat]
      BY <3>1, <3>2 DEF Omitting, Selected, TypeOK, Row
    <3>6. missed' = [missed EXCEPT ![c] = Omitting(c, s, f, S)]
      BY <2>9 DEF QueryDone
    <3>7. QED
      BY <2>9, <3>3, <3>4, <3>5, <3>6, StoreUnchanged DEF TypeOK, QueryDone, Task, Select
  <2>10. ASSUME NEW c \in Client, QueryFails(c) PROVE TypeOK'
    <3>. DEFINE s == task[c].sub  f == task[c].filter
    <3>1. s \in SubId /\ <<Eose(s)>> \in Seq(RelayFrame)
      BY <2>10, TaskFields, FrameTypes DEF QueryFails
    <3>2. Omitting(c, s, f, {}) \subseteq [sub : SubId, seq : Nat]
      BY <3>1 DEF Omitting, Selected, TypeOK, StoreTypeOK, Row
    <3>3. /\ todo' = [todo EXCEPT ![c] = <<Eose(s)>>]
          /\ missed' = [missed EXCEPT ![c] = Omitting(c, s, f, {})]
      BY <2>10 DEF QueryFails
    <3>4. QED
      BY <2>10, <3>1, <3>2, <3>3, StoreUnchanged DEF TypeOK, QueryFails, Task, Select
  <2>11. ASSUME NEW c \in Client, InsertDone(c) PROVE TypeOK'
    <3>. DEFINE r == task[c].rec
                 t == IF Stored(r) THEN Select
                      ELSE Announcing([seq |-> NextSeq, rec |-> r])
    <3>0. r \in Rec
      BY <2>11, TaskFields DEF InsertDone
    <3>1. r \in Rec /\ <<Ok(r)>> \in Seq(RelayFrame)
      BY <3>0, FrameTypes
    <3>2. t \in Task
      BY <3>1 DEF Task, Select, Announcing, Entry, NextSeq, TypeOK, StoreTypeOK
    <3>3. /\ todo' = [todo EXCEPT ![c] = <<Ok(r)>>]
          /\ task' = [task EXCEPT ![c] = t]
      BY <2>11 DEF InsertDone
    <3>4. StoreTypeOK'
      BY <2>11, <3>1, InsertKeepsStoreType DEF TypeOK, InsertDone
    <3>5. QED
      BY <2>11, <3>1, <3>2, <3>3, <3>4 DEF TypeOK, InsertDone
  <2>12. ASSUME NEW c \in Client, InsertFails(c) PROVE TypeOK'
    <3>0. task[c].rec \in Rec
      BY <2>12, TaskFields DEF InsertFails
    <3>1. <<Refusal(task[c].rec)>> \in Seq(RelayFrame)
      BY <3>0, FrameTypes
    <3>2. QED
      BY <2>12, <3>1, StoreUnchanged DEF TypeOK, InsertFails, Task, Select
  <2>13. ASSUME NEW c \in Client, WriteFrame(c) PROVE TypeOK'
    <3>1. todo[c] \in Seq(RelayFrame) /\ out[c] \in Seq(RelayFrame)
      BY DEF TypeOK
    <3>2. Head(todo[c]) \in RelayFrame /\ Tail(todo[c]) \in Seq(RelayFrame)
      BY <2>13, <3>1, HeadTailProperties DEF WriteFrame
    <3>3. /\ Append(out[c], Head(todo[c])) \in Seq(RelayFrame)
          /\ Len(Append(out[c], Head(todo[c]))) = Len(out[c]) + 1
      BY <3>1, <3>2, AppendProperties
    <3>4. out' \in [Client -> Seq(RelayFrame)] /\ \A d \in Client : Len(out'[d]) <= OutCap
      <4>1. CASE up[c] = "gone" /\ UNCHANGED out
        BY <4>1 DEF TypeOK
      <4>2. CASE /\ Len(out[c]) < OutCap
                 /\ out' = [out EXCEPT ![c] = Append(@, Head(todo[c]))]
        BY <4>2, <3>1, <3>3 DEF TypeOK
      <4>3. QED
        BY <2>13, <4>1, <4>2 DEF WriteFrame
    <3>5. QED
      BY <2>13, <3>2, <3>4, StoreUnchanged DEF TypeOK, WriteFrame
  <2>14. ASSUME NEW c \in Client, Announce(c) PROVE TypeOK'
    <3>1. bcast' \in Seq(Entry) /\ Len(bcast') = Len(bcast) + 1
      BY <2>14, TaskFields, AppendProperties DEF TypeOK, Announce
    <3>2. QED
      BY <2>14, <3>1, StoreUnchanged DEF TypeOK, Announce, Task, Select
  <2>15. ASSUME NEW c \in Client, DeliverLive(c) PROVE TypeOK'
    <3>. DEFINE e == bcast[pos[c] + 1]
                 S == {s \in SubId : Wants(c, s, e)}
    <3>1. e \in Entry /\ pos[c] + 1 <= Len(bcast) /\ pos[c] \in Nat
      BY <2>15, ElementOfSeq DEF TypeOK, DeliverLive
    <3>2. Cardinality(S) \in Nat
      BY FS_Subset, FS_CardinalityType
    <3>3. PICK q \in Orderings(S) :
            todo' = [todo EXCEPT ![c] = [i \in DOMAIN q |-> RecFrame(q[i], e)]]
      BY <2>15 DEF DeliverLive
    <3>4. [i \in DOMAIN q |-> RecFrame(q[i], e)] \in Seq(RelayFrame)
      <4>1. q \in [1..Cardinality(S) -> SubId]
        BY <3>3 DEF Orderings
      <4>2. \A i \in DOMAIN q : RecFrame(q[i], e) \in RelayFrame
        BY <3>1, <4>1, FrameTypes DEF Entry
      <4>3. [i \in DOMAIN q |-> RecFrame(q[i], e)] \in [1..Cardinality(S) -> RelayFrame]
        BY <4>1, <4>2
      <4>. HIDE DEF S
      <4>4. QED
        BY <3>2, <4>3
    <3>5. todo' \in [Client -> Seq(RelayFrame)]
      BY <3>3, <3>4 DEF TypeOK
    <3>6. pos' \in [Client -> Nat] /\ \A d \in Client : pos'[d] <= Len(bcast)
      BY <2>15, <3>1 DEF TypeOK, DeliverLive
    <3>7. QED
      BY <2>15, <3>5, <3>6, StoreUnchanged DEF TypeOK, DeliverLive
  <2>16. ASSUME NEW c \in Client, Lag(c) PROVE TypeOK'
    <3>. DEFINE oldest == Len(bcast) - Capacity
                 skipped == {bcast[i] : i \in pos[c] + 1 .. oldest}
                 lost == {[sub |-> s, seq |-> e.seq] :
                            s \in {x \in SubId : subs[c][x] # None}, e \in skipped}
    <3>1. Len(bcast) \in Nat /\ pos[c] \in Nat /\ oldest \in Nat /\ oldest <= Len(bcast)
      BY <2>16 DEF Lag, TypeOK
    <3>2. skipped \subseteq Entry
      BY <3>1, ElementOfSeq DEF TypeOK
    <3>3. lost \subseteq [sub : SubId, seq : Nat]
      BY <3>2 DEF Entry
    <3>4. /\ pos' = [pos EXCEPT ![c] = oldest]
          /\ missed' = [missed EXCEPT ![c] = @ \cup lost]
      BY <2>16 DEF Lag
    <3>5. QED
      BY <2>16, <3>1, <3>3, <3>4, StoreUnchanged DEF TypeOK, Lag
  <2>17. ASSUME NEW c \in Client, EndTask(c) PROVE TypeOK'
    BY <2>17, StoreUnchanged DEF TypeOK, EndTask, NoSubs
  <2>18. CASE Refill
    BY <2>18, StoreUnchanged DEF TypeOK, Refill, connVars
  <2>19. CASE Restart
    BY <2>19, StoreUnchanged DEF TypeOK, Restart, Task, Select, NoSubs, FullBuckets
  <2>20. CASE UNCHANGED vars
    BY <2>20, StoreUnchanged DEF TypeOK, vars, connVars, storeVars
  <2>21. QED
    BY <2>1, <2>2, <2>3, <2>4, <2>5, <2>6, <2>7, <2>8, <2>9, <2>10, <2>11, <2>12,
       <2>13, <2>14, <2>15, <2>16, <2>17, <2>18, <2>19, <2>20
    DEF Next, HandleFrame, StoreCall, Receive
<1>3. QED
  BY <1>1, <1>2, PTL DEF Spec

-----------------------------------------------------------------------------
(* Acceptance and announcement *)

\* What makes AnnouncedOnce inductive: receipt sequences in the table do not
\* exceed the counter, so a fresh row's entry is new to the channel and to every
\* task, and each record and each sequence names one row.
StoreInv ==
  /\ \A row \in rows : row.seq <= lastSeq
  /\ \A x, y \in rows : x.rec = y.rec \/ x.seq = y.seq => x = y

LogInv == StoreInv /\ AnnouncedOnce

\* The steps that touch the log: a fresh insert, an announcement, and the rest,
\* which leave the table and the channel alone and start no announcement.
FreshInsert(c) == InsertDone(c) /\ ~Stored(task[c].rec)

Quiet ==
  /\ UNCHANGED <<rows, lastSeq, bcast>>
  /\ \A c \in Client : task'[c].at = "announce" => task'[c] = task[c]

\* Every step of the relay is of one of these three shapes.
LEMMA StepShape ==
  ASSUME TypeOK, [Next]_vars
  PROVE  \/ \E c \in Client : FreshInsert(c) \/ Announce(c)
         \/ Quiet
<1>. USE DEF storeVars, connVars
<1>1. ASSUME NEW c \in Client,
             Connect(c) \/ ClientSend(c) \/ ClientRead(c) \/ Disconnect(c)
      PROVE  Quiet
  BY <1>1 DEF Quiet, Connect, ClientSend, ClientRead, Disconnect
<1>2. ASSUME NEW c \in Client, HandleFrame(c)
      PROVE  Quiet
  <2>1. \A t : t = Querying(Head(inbox[c]).sub, Head(inbox[c]).filter)
               \/ t = Inserting(Head(inbox[c]).rec) => t.at # "announce"
    BY DEF Querying, Inserting
  <2>2. CASE HandleReq(c) \/ AdmitPub(c)
    BY <2>2, <2>1 DEF Quiet, HandleReq, AdmitPub, TypeOK
  <2>3. CASE HandleClose(c) \/ RefusePub(c)
    BY <2>3 DEF Quiet, HandleClose, RefusePub
  <2>4. QED  BY <1>2, <2>2, <2>3 DEF HandleFrame
<1>3. ASSUME NEW c \in Client, QueryDone(c) \/ QueryFails(c) \/ InsertFails(c)
      PROVE  Quiet
  <2>1. rows' = rows /\ lastSeq' = lastSeq /\ bcast' = bcast
    BY <1>3 DEF QueryDone, QueryFails, InsertFails
  <2>2. task' = [task EXCEPT ![c] = Select]
    BY <1>3 DEF QueryDone, QueryFails, InsertFails
  <2>3. QED  BY <2>1, <2>2 DEF Quiet, TypeOK, Select
<1>4. ASSUME NEW c \in Client, InsertDone(c), Stored(task[c].rec)
      PROVE  Quiet
  BY <1>4 DEF Quiet, InsertDone, InsertRecord, TypeOK, Select
<1>5. ASSUME NEW c \in Client, WriteFrame(c) \/ Receive(c) \/ EndTask(c)
      PROVE  Quiet
  BY <1>5 DEF Quiet, WriteFrame, Receive, DeliverLive, Lag, EndTask
<1>6. CASE Refill
  BY <1>6 DEF Quiet, Refill
<1>7. CASE Restart
  BY <1>7 DEF Quiet, Restart, Select
<1>8. CASE UNCHANGED vars
  BY <1>8 DEF Quiet, vars
<1>9. QED
  BY <1>1, <1>2, <1>3, <1>4, <1>5, <1>6, <1>7, <1>8 DEF Next, StoreCall, FreshInsert

\* What a fresh insert does to the log.
LEMMA FreshInsertEffect ==
  ASSUME TypeOK, NEW c \in Client, FreshInsert(c)
  PROVE  /\ task[c].rec \in Rec /\ lastSeq \in Nat
         /\ rows' = rows \cup {[seq |-> lastSeq + 1, rec |-> task[c].rec, at |-> 0]}
         /\ lastSeq' = lastSeq + 1
         /\ Entries' = Entries \cup {[seq |-> lastSeq + 1, rec |-> task[c].rec]}
         /\ bcast' = bcast
         /\ task' = [task EXCEPT ![c] =
                        Announcing([seq |-> lastSeq + 1, rec |-> task[c].rec])]
         /\ \A row \in rows : row.rec # task[c].rec
<1>1. /\ task[c].rec \in Rec /\ lastSeq \in Nat
      /\ rows' = rows \cup {[seq |-> lastSeq + 1, rec |-> task[c].rec, at |-> 0]}
      /\ lastSeq' = lastSeq + 1
      /\ bcast' = bcast
      /\ \A row \in rows : row.rec # task[c].rec
      /\ task' = [task EXCEPT ![c] =
                     Announcing([seq |-> lastSeq + 1, rec |-> task[c].rec])]
  BY TaskFields
  DEF FreshInsert, InsertDone, InsertRecord, Stored, NextSeq, TypeOK, StoreTypeOK
<1>2. Entries' = Entries \cup {[seq |-> lastSeq + 1, rec |-> task[c].rec]}
  <2>. DEFINE e == [seq |-> lastSeq + 1, rec |-> task[c].rec]
               new == [seq |-> lastSeq + 1, rec |-> task[c].rec, at |-> 0]
  <2>1. EntryOf(new) = e
    BY DEF EntryOf
  <2>2. Entries' = {EntryOf(row) : row \in rows \cup {new}}
    BY <1>1 DEF Entries
  <2>3. QED
    BY <2>1, <2>2 DEF Entries
<1>3. QED  BY <1>1, <1>2

\* Every record is stored under one sequence, and announced at most once and only
\* after it was stored, whatever connections race and wherever a restart falls.
THEOREM LogInvariant == Spec => []LogInv
<1>1. Init => LogInv
  BY DEF Init, LogInv, StoreInv, AnnouncedOnce, Select
<1>2. TypeOK /\ LogInv /\ [Next]_vars => LogInv'
  <2>. SUFFICES ASSUME TypeOK, LogInv, [Next]_vars PROVE LogInv'
    OBVIOUS
  <2>1. ASSUME NEW c \in Client, FreshInsert(c) PROVE LogInv'
    <3>. DEFINE e == [seq |-> lastSeq + 1, rec |-> task[c].rec]
    <3>1. /\ lastSeq \in Nat /\ rows \subseteq Row
          /\ task' = [task EXCEPT ![c] = Announcing(e)] /\ c \in DOMAIN task
          /\ bcast' = bcast /\ Entries' = Entries \cup {e}
      BY <2>1, FreshInsertEffect DEF TypeOK, StoreTypeOK
    <3>2. StoreInv'
      BY <2>1, <3>1, FreshInsertEffect DEF LogInv, StoreInv, Row
    <3>3. \A x \in Entries : x.seq <= lastSeq /\ x # e
      BY <3>1 DEF LogInv, StoreInv, Entries, EntryOf, Row
    <3>4. \A i \in 1..Len(bcast) : bcast[i] # e
      BY <3>3 DEF LogInv, AnnouncedOnce
    <3>5. \A d \in Client \ {c} : task[d].at = "announce" => task[d].entry # e
      BY <3>3 DEF LogInv, AnnouncedOnce
    <3>6. AnnouncedOnce'
      <4>. USE DEF LogInv, AnnouncedOnce
      <4>1. \A d \in Client \ {c} : task'[d] = task[d]
        BY <3>1
      <4>2. task'[c] = Announcing(e)
        BY <3>1
      <4>3. ASSUME NEW d \in Client, task'[d].at = "announce"
            PROVE  /\ task'[d].entry \in Entries'
                   /\ \A i \in 1..Len(bcast) : bcast[i] # task'[d].entry
                   /\ \A x \in Client : task'[x] = task'[d] => x = d
        <5>1. CASE d = c
          BY <5>1, <4>1, <4>2, <3>1, <3>4, <3>5 DEF Announcing
        <5>2. CASE d # c
          BY <5>2, <4>3, <4>1, <4>2, <3>1, <3>5 DEF Announcing
        <5>3. QED  BY <5>1, <5>2
      <4>4. QED  BY <4>3, <3>1
    <3>7. QED  BY <3>2, <3>6 DEF LogInv
  <2>2. ASSUME NEW c \in Client, Announce(c) PROVE LogInv'
    <3>. DEFINE e == task[c].entry
    <3>1. /\ rows' = rows /\ lastSeq' = lastSeq /\ Entries' = Entries
          /\ bcast' = Append(bcast, e)
          /\ task' = [task EXCEPT ![c] = Select] /\ c \in DOMAIN task
          /\ task[c].at = "announce"
      BY <2>2 DEF Announce, TypeOK, storeVars, Entries, EntryOf
    <3>2. /\ Len(bcast') = Len(bcast) + 1 /\ Len(bcast) \in Nat
          /\ \A i \in 1..Len(bcast) : bcast'[i] = bcast[i]
          /\ bcast'[Len(bcast) + 1] = e
      BY <3>1, <2>2, TaskFields DEF TypeOK, Announce
    <3>3. e \in Entries /\ \A i \in 1..Len(bcast) : bcast[i] # e
      BY <3>1 DEF LogInv, AnnouncedOnce
    <3>4. \A d \in Client \ {c} : task'[d] = task[d] /\ task[d] # task[c]
      BY <3>1 DEF LogInv, AnnouncedOnce
    <3>5. task'[c] = Select
      BY <3>1
    <3>6. ASSUME NEW d \in Client, task'[d].at = "announce"
          PROVE  d # c /\ task[d].entry # e
      BY <3>1, <3>4, <3>5, <3>6, TypeTaskUnique DEF Select
    <3>7. AnnouncedOnce'
      BY <3>1, <3>2, <3>3, <3>4, <3>5, <3>6 DEF LogInv, AnnouncedOnce, Select
    <3>8. QED  BY <3>1, <3>7 DEF LogInv, StoreInv
  <2>3. CASE Quiet
    BY <2>3 DEF Quiet, LogInv, StoreInv, AnnouncedOnce, Entries, EntryOf
  <2>4. QED  BY <2>1, <2>2, <2>3, StepShape
<1>3. QED
  BY <1>1, <1>2, TypeCorrect, PTL DEF Spec

\* The announcement half of the invariant, as the runs check it.
THEOREM AnnouncementUnique == Spec => []AnnouncedOnce
<1>1. LogInv => AnnouncedOnce  BY DEF LogInv
<1>2. QED  BY <1>1, LogInvariant, PTL

\* The relay implements the promise of AcceptedLog: a fresh insert is an Accept,
\* an announcement an Announce, and every other step leaves the log alone.
THEOREM RelayImplementsLog == Spec => ImplementsLog
<1>1. Init => Log!Init
  BY DEF Init, Log!Init, Entries
<1>2. TypeOK /\ LogInv /\ [Next]_vars => [Log!Next]_(Log!vars)
  <2>. SUFFICES ASSUME TypeOK, LogInv, [Next]_vars
                PROVE  Log!Next \/ UNCHANGED Log!vars
    OBVIOUS
  <2>1. ASSUME NEW c \in Client, FreshInsert(c) PROVE Log!Next
    <3>. DEFINE e == [seq |-> lastSeq + 1, rec |-> task[c].rec]
    <3>1. /\ Entries' = Entries \cup {e} /\ bcast' = bcast
          /\ task[c].rec \in Rec /\ lastSeq \in Nat
          /\ \A row \in rows : row.rec # task[c].rec
      BY <2>1, FreshInsertEffect
    <3>2. \A row \in rows : row.seq \in Nat /\ row.seq <= lastSeq
      BY DEF LogInv, StoreInv, TypeOK, StoreTypeOK, Row
    <3>3. \A row \in rows : EntryOf(row).rec # e.rec /\ EntryOf(row).seq < e.seq
      BY <3>1, <3>2 DEF EntryOf
    <3>4. \A x \in Entries : x.rec # e.rec /\ x.seq < e.seq
      BY <3>3 DEF Entries
    <3>5. e.seq \in Nat /\ e.rec \in Rec /\ e \in Entries'
      BY <3>1
    <3>6. Log!Accept
      BY <3>1, <3>4, <3>5 DEF Log!Accept
    <3>7. QED
      BY <3>6 DEF Log!Next
  <2>2. ASSUME NEW c \in Client, Announce(c) PROVE Log!Next
    <3>1. Entries' = Entries /\ bcast' = Append(bcast, task[c].entry)
      BY <2>2 DEF Announce, Entries, EntryOf, storeVars
    <3>2. task[c].entry \in Entries
          /\ \A i \in 1..Len(bcast) : bcast[i] # task[c].entry
      BY <2>2 DEF LogInv, AnnouncedOnce, Announce
    <3>3. QED
      BY <3>1, <3>2 DEF Log!Next, Log!Announce
  <2>3. CASE Quiet
    BY <2>3 DEF Quiet, Entries, EntryOf, Log!vars
  <2>4. QED  BY <2>1, <2>2, <2>3, StepShape
<1>3. QED
  BY <1>1, <1>2, TypeCorrect, LogInvariant, PTL DEF Spec, ImplementsLog, Log!Spec

-----------------------------------------------------------------------------
(* Acknowledgement *)

\* What makes OkMeansStored inductive: a task that reached the store call holds a
\* verified record.
AckInv ==
  /\ OkMeansStored
  /\ \A c \in Client : task[c].at = "insert" => task[c].rec \notin Forged

\* Rows never leave the table of a running relay.
LEMMA StoredStays ==
  ASSUME [Next]_vars, TypeOK
  PROVE  /\ \A r : Stored(r) => Stored(r)'
         /\ \A r : Stored(r)' => \/ Stored(r)
                                \/ \E c \in Client : FreshInsert(c) /\ r = task[c].rec
<1>1. ASSUME NEW c \in Client, FreshInsert(c)
      PROVE  \A r : Stored(r)' <=> Stored(r) \/ r = task[c].rec
  <2>. DEFINE new == [seq |-> lastSeq + 1, rec |-> task[c].rec, at |-> 0]
  <2>1. rows' = rows \cup {new}
    BY <1>1, FreshInsertEffect
  <2>2. new.rec = task[c].rec
    OBVIOUS
  <2>. HIDE DEF new
  <2>3. QED  BY <2>1, <2>2 DEF Stored
<1>2. ASSUME NEW c \in Client, Announce(c)
      PROVE  \A r : Stored(r)' <=> Stored(r)
  BY <1>2 DEF Announce, Stored, storeVars
<1>3. CASE Quiet
  BY <1>3 DEF Quiet, Stored
<1>4. QED  BY <1>1, <1>2, <1>3, StepShape

Said(q, r) == \E i \in 1..Len(q) : q[i] = Ok(r)

\* A step puts OK(r) into todo only with r in the table, and into out only
\* from todo.
AcksComeFrom ==
  \A d \in Client, r \in Rec :
    /\ Said(todo'[d], r) => Said(todo[d], r) \/ Stored(r)'
    /\ Said(out'[d], r) => Said(todo[d], r) \/ Said(out[d], r)

\* An OK frame is distinct from every other frame.
LEMMA OkIsNoOther ==
  \A r, x, s, e : /\ Refusal(x) # Ok(r)
                  /\ (Ok(x) = Ok(r) => x = r)
                  /\ RecFrame(s, e) # Ok(r)
                  /\ Eose(s) # Ok(r)
BY DEF Ok, Refusal, RecFrame, Eose

\* A step puts an OK on its way only for a record it has stored; frames only move
\* from the handler to the socket.
LEMMA AcksOrigin ==
  ASSUME TypeOK, [Next]_vars
  PROVE  AcksComeFrom
<1>. USE DEF AcksComeFrom
<1>1. ASSUME UNCHANGED <<todo, out>> PROVE AcksComeFrom
  BY <1>1
<1>2. ASSUME NEW c \in Client, ClientRead(c) PROVE AcksComeFrom
  <2>1. todo' = todo /\ out' = [out EXCEPT ![c] = Tail(@)] /\ out[c] # <<>>
    BY <1>2 DEF ClientRead
  <2>2. out[c] \in Seq(RelayFrame)
    BY DEF TypeOK
  <2>3. \A r : Said(Tail(out[c]), r) => Said(out[c], r)
    BY <2>1, <2>2 DEF Said
  <2>4. QED  BY <2>1, <2>3 DEF TypeOK
<1>3. ASSUME NEW c \in Client, out' = [out EXCEPT ![c] = <<>>], todo' = todo
      PROVE  AcksComeFrom
  <2>1. \A r : ~Said(<<>>, r)  BY DEF Said
  <2>2. QED  BY <1>3, <2>1 DEF TypeOK
<1>4. ASSUME NEW c \in Client, NEW q, todo' = [todo EXCEPT ![c] = q], out' = out,
             \A r \in Rec : Said(q, r) => Stored(r)'
      PROVE  AcksComeFrom
  BY <1>4 DEF TypeOK
<1>5. ASSUME NEW c \in Client, QueryDone(c) PROVE AcksComeFrom
  <2>1. PICK q : todo' = [todo EXCEPT ![c] = Backfill(task[c].sub, q)] /\ out' = out
                 /\ q \in Descending(QueryRows(task[c].filter))
    BY <1>5 DEF QueryDone
  <2>. DEFINE n == Cardinality(QueryRows(task[c].filter))
              frames == [i \in DOMAIN q |-> RecFrame(task[c].sub, q[i])]
  <2>2. n \in Nat /\ DOMAIN q = 1..n
    BY <2>1, QueryFinite DEF Descending, TypeOK, StoreTypeOK
  <2>3. \A i \in 1..n + 1 : \A r :
          Append(frames, Eose(task[c].sub))[i] # Ok(r)
    BY <2>2, OkIsNoOther
  <2>4. Len(Append(frames, Eose(task[c].sub))) = n + 1
    BY <2>2
  <2>5. \A r : ~Said(Backfill(task[c].sub, q), r)
    BY <2>2, <2>3, <2>4 DEF Said, Backfill
  <2>6. QED  BY <2>1, <2>5, <1>4
<1>6. ASSUME NEW c \in Client, QueryFails(c) \/ RefusePub(c) \/ InsertFails(c)
      PROVE  AcksComeFrom
  <2>1. PICK x : x \in {Eose(task[c].sub), Refusal(Head(inbox[c]).rec), Refusal(task[c].rec)}
                 /\ todo' = [todo EXCEPT ![c] = <<x>>] /\ out' = out
    BY <1>6 DEF QueryFails, RefusePub, InsertFails
  <2>2. \A r : ~Said(<<x>>, r)
    BY <2>1, OkIsNoOther DEF Said
  <2>3. QED  BY <2>1, <2>2, <1>4
<1>7. ASSUME NEW c \in Client, InsertDone(c) PROVE AcksComeFrom
  <2>0. PICK r : r = task[c].rec
    OBVIOUS
  <2>1. todo' = [todo EXCEPT ![c] = <<Ok(r)>>] /\ out' = out
    BY <1>7, <2>0 DEF InsertDone
  <2>2. Stored(r)'
    <3>1. CASE Stored(r)
      BY <3>1, StoredStays
    <3>2. CASE ~Stored(r)
      <4>1. PICK n : rows' = rows \cup {[seq |-> n, rec |-> r, at |-> 0]}
        BY <1>7, <2>0, <3>2, FreshInsertEffect DEF FreshInsert
      <4>2. [seq |-> n, rec |-> r, at |-> 0] \in rows'
        BY <4>1
      <4>3. QED  BY <4>2 DEF Stored
    <3>3. QED  BY <3>1, <3>2
  <2>3. \A x : Said(<<Ok(r)>>, x) => x = r
    BY OkIsNoOther DEF Said
  <2>4. QED  BY <2>1, <2>2, <2>3, <1>4
<1>8. ASSUME NEW c \in Client, WriteFrame(c) PROVE AcksComeFrom
  <2>1. /\ todo' = [todo EXCEPT ![c] = Tail(@)] /\ todo[c] # <<>>
        /\ todo[c] \in Seq(RelayFrame) /\ out[c] \in Seq(RelayFrame)
        /\ out' = out \/ out' = [out EXCEPT ![c] = Append(@, Head(todo[c]))]
    BY <1>8 DEF WriteFrame, TypeOK
  <2>2. \A r : Said(Tail(todo[c]), r) => Said(todo[c], r)
    BY <2>1 DEF Said
  <2>3. \A r : Said(Append(out[c], Head(todo[c])), r) => Said(todo[c], r) \/ Said(out[c], r)
    BY <2>1 DEF Said
  <2>4. QED  BY <2>1, <2>2, <2>3 DEF TypeOK
<1>9. ASSUME NEW c \in Client, DeliverLive(c) PROVE AcksComeFrom
  <2>. DEFINE e == bcast[pos[c] + 1]
  <2>1. PICK q : todo' = [todo EXCEPT ![c] = [i \in DOMAIN q |-> RecFrame(q[i], e)]]
                 /\ out' = out
                 /\ q \in Orderings({s \in SubId : Wants(c, s, e)})
    BY <1>9 DEF DeliverLive
  <2>. DEFINE n == Cardinality({s \in SubId : Wants(c, s, e)})
              frames == [i \in DOMAIN q |-> RecFrame(q[i], e)]
  <2>2. n \in Nat /\ DOMAIN q = 1..n
    BY <2>1, FS_Subset, FS_CardinalityType, RelayAssumption DEF Orderings
  <2>3. Len(frames) = n /\ \A i \in 1..n : \A r : frames[i] # Ok(r)
    BY <2>2, OkIsNoOther
  <2>4. \A r : ~Said(frames, r)
    BY <2>3 DEF Said
  <2>5. QED  BY <2>1, <2>4, <1>4
<1>10. CASE Restart
  <2>1. \A r : ~Said(<<>>, r)  BY DEF Said
  <2>2. QED  BY <1>10, <2>1 DEF Restart
<1>11. QED
  BY <1>1, <1>2, <1>3, <1>5, <1>6, <1>7, <1>8, <1>9, <1>10
  DEF Next, HandleFrame, StoreCall, Receive, vars, connVars, Connect, ClientSend,
      Disconnect, HandleReq, HandleClose, AdmitPub, Announce, Lag, EndTask, Refill

\* A step brings a task to the store call only with a verified record.
LEMMA InsertsVerified ==
  ASSUME TypeOK, [Next]_vars
  PROVE  \A c \in Client : task'[c].at = "insert" =>
            task'[c] = task[c] \/ task'[c].rec \notin Forged
<1>. USE DEF TypeOK
<1>1. ASSUME UNCHANGED task
      PROVE  \A c \in Client : task'[c] = task[c]
  BY <1>1
<1>. DEFINE Goal == \A d \in Client : task'[d].at = "insert" =>
                       task'[d] = task[d] \/ task'[d].rec \notin Forged
<1>2. ASSUME NEW c \in Client, NEW t,
             task' = [task EXCEPT ![c] = t], t.at = "insert" => t.rec \notin Forged
      PROVE  Goal
  BY <1>2
<1>3. ASSUME NEW c \in Client, HandleReq(c) PROVE Goal
  <2>. DEFINE t == Querying(Head(inbox[c]).sub, Head(inbox[c]).filter)
  <2>1. task' = [task EXCEPT ![c] = t]  BY <1>3 DEF HandleReq
  <2>2. t.at = "query"  BY DEF Querying
  <2>. HIDE DEF t
  <2>3. QED  BY <2>1, <2>2, <1>2
<1>4. ASSUME NEW c \in Client, AdmitPub(c) PROVE Goal
  <2>. DEFINE t == Inserting(Head(inbox[c]).rec)
  <2>1. task' = [task EXCEPT ![c] = t] /\ Head(inbox[c]).rec \notin Forged
    BY <1>4 DEF AdmitPub
  <2>2. t.rec = Head(inbox[c]).rec  BY DEF Inserting
  <2>. HIDE DEF t
  <2>3. QED  BY <2>1, <2>2, <1>2
<1>5. ASSUME NEW c \in Client, InsertDone(c) PROVE Goal
  <2>. DEFINE t == IF Stored(task[c].rec) THEN Select
                   ELSE Announcing([seq |-> NextSeq, rec |-> task[c].rec])
  <2>1. task' = [task EXCEPT ![c] = t]  BY <1>5 DEF InsertDone
  <2>2. t.at # "insert"  BY DEF Announcing, Select
  <2>. HIDE DEF t
  <2>3. QED  BY <2>1, <2>2, <1>2
<1>6. ASSUME NEW c \in Client,
             QueryDone(c) \/ QueryFails(c) \/ InsertFails(c) \/ Announce(c)
      PROVE  Goal
  BY <1>6 DEF QueryDone, QueryFails, InsertFails, Announce, Select
<1>7. CASE Restart
  BY <1>7 DEF Restart, Select
<1>8. QED
  BY <1>1, <1>2, <1>3, <1>4, <1>5, <1>6, <1>7
  DEF Next, HandleFrame, StoreCall, Receive, vars, connVars, Connect, ClientSend,
      ClientRead, Disconnect, HandleClose, RefusePub, WriteFrame, DeliverLive, Lag,
      EndTask, Refill

\* Whatever the relay acknowledges is stored, and stays stored across restarts;
\* nothing forged ever is.
THEOREM AckInvariant == Spec => []AckInv
<1>1. Init => AckInv
  BY DEF Init, AckInv, OkMeansStored, Stored, Select
<1>2. TypeOK /\ AckInv /\ [Next]_vars => AckInv'
  <2>. SUFFICES ASSUME TypeOK, AckInv, [Next]_vars PROVE AckInv'
    OBVIOUS
  <2>1. \A c \in Client, r \in Rec : Said(todo'[c], r) \/ Said(out'[c], r) => Stored(r)'
    BY AcksOrigin, StoredStays DEF AcksComeFrom, AckInv, OkMeansStored, Said
  <2>2. ASSUME NEW r \in Forged PROVE ~Stored(r)'
    <3>1. ~Stored(r)
      BY DEF AckInv, OkMeansStored
    <3>2. ASSUME NEW c \in Client, FreshInsert(c) PROVE r # task[c].rec
      BY <3>2 DEF AckInv, FreshInsert, InsertDone
    <3>3. QED
      BY <3>1, <3>2, StoredStays
  <2>3. \A c \in Client : task'[c].at = "insert" => task'[c].rec \notin Forged
    BY InsertsVerified DEF AckInv
  <2>4. QED
    BY <2>1, <2>2, <2>3 DEF AckInv, OkMeansStored, Said
<1>3. QED
  BY <1>1, <1>2, TypeCorrect, PTL DEF Spec

\* The acknowledgement half of the invariant, as the runs check it.
THEOREM AcknowledgedIsStored == Spec => []OkMeansStored
<1>1. AckInv => OkMeansStored  BY DEF AckInv
<1>2. QED  BY <1>1, AckInvariant, PTL

-----------------------------------------------------------------------------
(* No silent gap *)

\* What makes NoSilentGap inductive: a closed connection has no subscriptions left to
\* take up again, the query that is being answered is the subscription's, and a
\* handler that awaits the store has written all it had to write, so that what the
\* store answers takes the place of nothing.
HandlerInv ==
  \A c \in Client :
    /\ up[c] = "closed" => subs[c] = NoSubs
    /\ task[c].at = "query" => subs[c][task[c].sub] = task[c].filter
    /\ task[c].at \in {"query", "insert"} => todo[c] = <<>>

GapInv == HandlerInv /\ NoSilentGap

\* The two sides of NoSilentGap.
Expects(c, s, e) ==
  /\ up[c] = "open" /\ Wants(c, s, e)
  /\ ~(task[c].at = "query" /\ task[c].sub = s)

Accounted(c, s, e) ==
  \/ OnItsWay(c, s, e)
  \/ \E i \in pos[c] + 1 .. Len(bcast) : bcast[i] = e
  \/ Pending(e)
  \/ [sub |-> s, seq |-> e.seq] \in missed[c]

LEMMA GapSides ==
  NoSilentGap <=> \A c \in Client, s \in SubId, e \in Entries :
                     Expects(c, s, e) => Accounted(c, s, e)
BY DEF NoSilentGap, Expects, Accounted

Holds(q, frame) == \E i \in 1..Len(q) : q[i] = frame

\* The tasks' places are tuples that tell one another apart.
LEMMA Places ==
  /\ Select.at = "select"
  /\ \A s, f : Querying(s, f).at = "query" /\ Querying(s, f).sub = s
                                           /\ Querying(s, f).filter = f
  /\ \A r : Inserting(r).at = "insert"
  /\ \A e : Announcing(e).at = "announce" /\ Announcing(e).entry = e
BY DEF Select, Querying, Inserting, Announcing

\* Handlers stand where HandlerInv says after every step.
LEMMA HandlerStep ==
  ASSUME TypeOK, HandlerInv, [Next]_vars
  PROVE  HandlerInv'
<1>. USE RelayAssumption DEF HandlerInv
<1>1. ASSUME NEW c \in Client,
             Connect(c) \/ ClientSend(c) \/ ClientRead(c) \/ Disconnect(c) \/ EndTask(c)
      PROVE  HandlerInv'
  BY <1>1, Places DEF Connect, ClientSend, ClientRead, Disconnect, EndTask, Idle, TypeOK
<1>2. ASSUME NEW c \in Client, HandleReq(c) PROVE HandlerInv'
  <2>. DEFINE m == Head(inbox[c])
  <2>1. m.sub \in SubId /\ m.filter \in Filters
    BY <1>2, ReadFrame DEF HandleReq, NextFrame
  <2>2. /\ subs' = [subs EXCEPT ![c][m.sub] = m.filter]
        /\ task' = [task EXCEPT ![c] = Querying(m.sub, m.filter)]
        /\ UNCHANGED <<up, todo>>
        /\ up[c] # "closed" /\ todo[c] = <<>>
    BY <1>2 DEF HandleReq, NextFrame, Idle
  <2>. HIDE DEF m
  <2>3. subs'[c][m.sub] = m.filter /\ \A d \in Client \ {c} : subs'[d] = subs[d]
    BY <2>1, <2>2 DEF TypeOK
  <2>4. task'[c] = Querying(m.sub, m.filter) /\ \A d \in Client \ {c} : task'[d] = task[d]
    BY <2>2 DEF TypeOK
  <2>5. QED  BY <2>2, <2>3, <2>4, Places
<1>3. ASSUME NEW c \in Client, HandleClose(c) PROVE HandlerInv'
  BY <1>3, Places DEF HandleClose, NextFrame, Idle, TypeOK
<1>4. ASSUME NEW c \in Client, RefusePub(c) PROVE HandlerInv'
  BY <1>4, Places DEF RefusePub, NextFrame, Idle, TypeOK
<1>5. ASSUME NEW c \in Client, AdmitPub(c) PROVE HandlerInv'
  <2>1. /\ task' = [task EXCEPT ![c] = Inserting(Head(inbox[c]).rec)]
        /\ UNCHANGED <<up, todo, subs>> /\ todo[c] = <<>>
    BY <1>5 DEF AdmitPub, NextFrame, Idle
  <2>2. QED  BY <2>1, Places DEF TypeOK
<1>6. ASSUME NEW c \in Client, NEW t, t.at \notin {"query", "insert"},
             task' = [task EXCEPT ![c] = t], UNCHANGED <<up, subs>>,
             \A d \in Client \ {c} : todo'[d] = todo[d]
      PROVE  HandlerInv'
  <2>1. task'[c] = t /\ \A d \in Client \ {c} : task'[d] = task[d]
    BY <1>6 DEF TypeOK
  <2>2. QED  BY <1>6, <2>1
<1>7. ASSUME NEW c \in Client, StoreCall(c) \/ Announce(c) PROVE HandlerInv'
  <2>1. \A q : todo' = [todo EXCEPT ![c] = q] => \A d \in Client \ {c} : todo'[d] = todo[d]
    BY DEF TypeOK
  <2>2. UNCHANGED <<up, subs>> /\ \A d \in Client \ {c} : todo'[d] = todo[d]
    BY <1>7, <2>1 DEF StoreCall, QueryDone, QueryFails, InsertDone, InsertFails, Announce
  <2>3. \/ task' = [task EXCEPT ![c] = Select]
        \/ \E e : task' = [task EXCEPT ![c] = Announcing(e)]
    BY <1>7 DEF StoreCall, QueryDone, QueryFails, InsertDone, InsertFails, Announce
  <2>4. CASE task' = [task EXCEPT ![c] = Select]
    BY <2>2, <2>4, <1>6, Places
  <2>5. ASSUME NEW e, task' = [task EXCEPT ![c] = Announcing(e)] PROVE HandlerInv'
    <3>. DEFINE t == Announcing(e)
    <3>1. task' = [task EXCEPT ![c] = t] /\ t.at = "announce"
      BY <2>5, Places
    <3>. HIDE DEF t
    <3>2. QED  BY <2>2, <3>1, <1>6
  <2>6. QED  BY <2>3, <2>4, <2>5
<1>8. ASSUME NEW c \in Client, WriteFrame(c) PROVE HandlerInv'
  BY <1>8 DEF WriteFrame, TypeOK
<1>9. ASSUME NEW c \in Client, Receive(c) PROVE HandlerInv'
  <2>1. \A q : todo' = [todo EXCEPT ![c] = q] => \A d \in Client \ {c} : todo'[d] = todo[d]
    BY DEF TypeOK
  <2>2. task[c] = Select /\ UNCHANGED <<up, task, subs>>
        /\ \A d \in Client \ {c} : todo'[d] = todo[d]
    <3>1. CASE DeliverLive(c)
      <4>1. \E q : todo' = [todo EXCEPT ![c] = q]
        BY <3>1 DEF DeliverLive
      <4>2. task[c] = Select /\ UNCHANGED <<up, task, subs>>
        BY <3>1 DEF DeliverLive, Idle
      <4>3. QED  BY <2>1, <4>1, <4>2
    <3>2. CASE Lag(c)
      BY <3>2 DEF Lag, Idle
    <3>3. QED  BY <1>9, <3>1, <3>2 DEF Receive
  <2>3. QED  BY <2>2, Places
<1>10. CASE Refill
  BY <1>10 DEF Refill, connVars
<1>11. CASE Restart
  BY <1>11, Places DEF Restart
<1>12. CASE UNCHANGED vars
  BY <1>12 DEF vars, connVars
<1>13. QED
  BY <1>1, <1>2, <1>3, <1>4, <1>5, <1>7, <1>8, <1>9, <1>10, <1>11, <1>12
  DEF Next, HandleFrame

\* A record that was accounted for stays so when a connection loses nothing and the
\* channel and the announcements that are due stay.
LEMMA StaysAccounted ==
  ASSUME NEW d \in Client, NEW s \in SubId, NEW e, Accounted(d, s, e),
         \A frame : Holds(todo[d], frame) \/ Holds(out[d], frame) \/ frame \in got[d] =>
                    \/ frame.type # "REC"
                    \/ Holds(todo'[d], frame) \/ Holds(out'[d], frame) \/ frame \in got'[d],
         missed[d] \subseteq missed'[d], pos'[d] = pos[d], bcast' = bcast,
         Pending(e) => Pending(e)'
  PROVE  Accounted(d, s, e)'
<1>1. RecFrame(s, e).type = "REC"
  BY DEF RecFrame
<1>2. OnItsWay(d, s, e) => OnItsWay(d, s, e)'
  BY <1>1 DEF OnItsWay, Holds
<1>3. QED
  BY <1>2 DEF Accounted

\* The channel and the tasks that owe it an announcement, in a quiet step of a
\* running relay.
LEMMA PendingStays ==
  ASSUME TypeOK, NEW c \in Client, NEW t, task' = [task EXCEPT ![c] = t],
         task[c].at # "announce", NEW e, Pending(e)
  PROVE  Pending(e)'
<1>1. PICK d \in Client : task[d] = Announcing(e)
  BY DEF Pending
<1>2. d # c
  BY <1>1, Places
<1>3. task'[d] = Announcing(e)
  BY <1>1, <1>2 DEF TypeOK
<1>4. QED  BY <1>3 DEF Pending

\* What is read from a socket, and what is left in it.
LEMMA HoldsTail ==
  ASSUME NEW S, NEW q \in Seq(S), q # <<>>, NEW frame, Holds(q, frame)
  PROVE  frame = Head(q) \/ Holds(Tail(q), frame)
<1>1. PICK i \in 1..Len(q) : q[i] = frame
  BY DEF Holds
<1>2. CASE i = 1
  BY <1>1, <1>2
<1>3. CASE i # 1
  <2>1. i - 1 \in 1..Len(Tail(q)) /\ Tail(q)[i - 1] = frame
    BY <1>1, <1>3
  <2>2. QED  BY <2>1 DEF Holds
<1>4. QED  BY <1>2, <1>3

LEMMA HoldsAppend ==
  ASSUME NEW S, NEW q \in Seq(S), NEW x \in S
  PROVE  /\ Holds(Append(q, x), x)
         /\ \A frame : Holds(q, frame) => Holds(Append(q, x), frame)
<1>1. Len(Append(q, x)) = Len(q) + 1 /\ Append(q, x)[Len(q) + 1] = x
      /\ \A i \in 1..Len(q) : Append(q, x)[i] = q[i]
  BY AppendProperties
<1>2. Len(q) \in Nat
  OBVIOUS
<1>3. QED  BY <1>1, <1>2 DEF Holds

\* A connection that a step does not touch, in a step that leaves the log alone.
LEMMA OthersStay ==
  ASSUME TypeOK, NoSilentGap, NEW d \in Client, NEW s \in SubId, NEW e \in Entries,
         Expects(d, s, e)',
         up'[d] = up[d], subs'[d] = subs[d], task'[d] = task[d] \/ task[d] = Select,
         \A frame : Holds(todo[d], frame) \/ Holds(out[d], frame) \/ frame \in got[d] =>
                    \/ frame.type # "REC"
                    \/ Holds(todo'[d], frame) \/ Holds(out'[d], frame) \/ frame \in got'[d],
         missed[d] \subseteq missed'[d], pos'[d] = pos[d], bcast' = bcast,
         Pending(e) => Pending(e)'
  PROVE  Accounted(d, s, e)'
<1>1. Expects(d, s, e)
  BY Places DEF Expects, Wants
<1>2. Accounted(d, s, e)
  BY <1>1, GapSides
<1>3. QED  BY <1>2, StaysAccounted

\* A list names each member of the set it orders.
LEMMA OrderingCovers ==
  ASSUME NEW S, IsFiniteSet(S), NEW q \in Orderings(S)
  PROVE  /\ DOMAIN q = 1..Cardinality(S) /\ Cardinality(S) \in Nat
         /\ \A x \in S : \E i \in 1..Cardinality(S) : q[i] = x
<1> DEFINE n == Cardinality(S)
<1>1. n \in Nat
  BY FS_CardinalityType
<1>2. q \in Injection(1..n, S)
  BY DEF Orderings, Injection, IsInjective
<1>3. Cardinality(1..n) = n
  BY <1>1, FS_Interval
<1>4. q \in Surjection(1..n, S)
  BY <1>2, <1>3, FS_Injection
<1>5. QED  BY <1>1, <1>2, <1>4 DEF Surjection, Orderings

\* What the WHERE clause leaves out the live predicate would not deliver: the rows of
\* a filter are among those a query selects.
LEMMA MatchesAreSelected ==
  ASSUME TypeOK, NEW f \in Filters, NEW row \in rows, Matches(f, row.rec, row.seq)
  PROVE  row \in Selected(f)
<1>1. row.seq \in Nat
  BY DEF TypeOK, StoreTypeOK, Row
<1>2. f.since # Absent => f.since \in Nat /\ Sql(f.since) <= f.since
  BY StoreAssumption DEF Sql
<1>3. f.since = Absent \/ row.seq > Sql(f.since)
  BY <1>1, <1>2, StoreAssumption DEF Matches, Sql
<1>4. f.kinds = Absent \/ Sql(KindOf[row.rec]) \in {Sql(k) : k \in f.kinds}
  BY DEF Matches, Admits
<1>5. QED
  BY <1>3, <1>4 DEF Matches, Selects, Selected

\* A backfill delivers what the query returned, and what it left out is noted.
LEMMA BackfillAccounts ==
  ASSUME TypeOK, HandlerInv, NEW c \in Client, QueryDone(c), NEW e \in Entries,
         NEW s, s = task[c].sub, Wants(c, s, e)
  PROVE  Accounted(c, s, e)'
<1>. DEFINE f == task[c].filter  S == QueryRows(f)
<1>1. s \in SubId /\ f \in Filters /\ subs[c][s] = f
  BY TaskFields DEF QueryDone, HandlerInv
<1>2. PICK row \in rows : EntryOf(row) = e
  BY DEF Entries
<1>3. row \in Selected(f)
  BY <1>1, <1>2, MatchesAreSelected DEF Wants, EntryOf
<1>4. S \subseteq rows /\ IsFiniteSet(S) /\ S \subseteq Row
  BY QueryFinite DEF TypeOK, StoreTypeOK
<1>5. PICK q \in Descending(S) : todo' = [todo EXCEPT ![c] = Backfill(s, q)]
  BY DEF QueryDone
<1>6. missed'[c] = Omitting(c, s, f, S)
  BY DEF QueryDone, TypeOK
<1>7. CASE row \in S
  <2>1. q \in Seq(S) /\ \E i \in 1..Len(q) : q[i] = row
    BY <1>4, <1>7, DescendingCovers
  <2>2. PICK i \in 1..Len(q) : q[i] = row
    BY <2>1
  <2>. DEFINE frames == [k \in DOMAIN q |-> RecFrame(s, q[k])]
  <2>3. Len(q) \in Nat /\ DOMAIN q = 1..Len(q)
    BY <2>1
  <2>4. Len(Append(frames, Eose(s))) = Len(q) + 1 /\ Append(frames, Eose(s))[i] = frames[i]
    BY <2>2, <2>3
  <2>5. frames[i] = RecFrame(s, e)
    BY <1>2, <2>2, <2>3 DEF RecFrame, EntryOf
  <2>6. todo'[c] = Append(frames, Eose(s))
    BY <1>5 DEF TypeOK, Backfill
  <2>7. i \in 1..Len(todo'[c]) /\ todo'[c][i] = RecFrame(s, e)
    BY <2>2, <2>3, <2>4, <2>5, <2>6
  <2>8. QED  BY <2>7 DEF Accounted, OnItsWay
<1>8. CASE row \notin S
  <2>1. [sub |-> s, seq |-> row.seq] \in missed'[c]
    BY <1>3, <1>6, <1>8 DEF Omitting
  <2>2. e.seq = row.seq
    BY <1>2 DEF EntryOf
  <2>3. QED  BY <2>1, <2>2 DEF Accounted
<1>9. QED  BY <1>7, <1>8

\* A query that fails leaves out every row of the filter.
LEMMA FailedQueryAccounts ==
  ASSUME TypeOK, HandlerInv, NEW c \in Client, QueryFails(c), NEW e \in Entries,
         NEW s, s = task[c].sub, Wants(c, s, e)
  PROVE  Accounted(c, s, e)'
<1>. DEFINE f == task[c].filter
<1>1. s \in SubId /\ f \in Filters /\ subs[c][s] = f
  BY TaskFields DEF QueryFails, HandlerInv
<1>2. PICK row \in rows : EntryOf(row) = e
  BY DEF Entries
<1>3. row \in Selected(f) /\ e.seq = row.seq
  BY <1>1, <1>2, MatchesAreSelected DEF Wants, EntryOf
<1>4. missed'[c] = Omitting(c, s, f, {})
  BY DEF QueryFails, TypeOK
<1>5. [sub |-> s, seq |-> e.seq] \in missed'[c]
  BY <1>3, <1>4 DEF Omitting
<1>6. QED  BY <1>5 DEF Accounted

\* Nothing falls between backfill and live delivery, whatever connections publish,
\* subscribe, lag, break and come back: the subscription is entered before the
\* backfill is read, and the receiver stands where it stood when the connection opened.
THEOREM GapInvariant == Spec => []GapInv
<1>1. Init => GapInv
  BY Places DEF Init, GapInv, HandlerInv, NoSilentGap
<1>2. TypeOK /\ GapInv /\ [Next]_vars => GapInv'
  <2>. SUFFICES ASSUME TypeOK, GapInv, [Next]_vars PROVE NoSilentGap'
    BY HandlerStep DEF GapInv
  <2>. USE RelayAssumption
  <2>. SUFFICES ASSUME NEW d \in Client, NEW s \in SubId, NEW e \in Entries',
                       Expects(d, s, e)'
                PROVE  Accounted(d, s, e)'
    BY DEF NoSilentGap, Expects, Accounted
  <2>. USE DEF GapInv
  <2>a. ASSUME UNCHANGED storeVars PROVE e \in Entries
    BY <2>a DEF storeVars, Entries, EntryOf
  <2>1. ASSUME NEW c \in Client, Connect(c) PROVE Accounted(d, s, e)'
    <3>1. CASE d = c
      <4>1. subs'[d] = NoSubs
        BY <2>1, <3>1 DEF Connect, HandlerInv
      <4>2. QED  BY <4>1 DEF Expects, Wants, NoSubs
    <3>2. CASE d # c
      BY <2>1, <2>a, <3>2, OthersStay DEF Connect, TypeOK, Pending
    <3>3. QED  BY <3>1, <3>2
  <2>2. ASSUME NEW c \in Client, ClientSend(c) PROVE Accounted(d, s, e)'
    BY <2>2, <2>a, OthersStay DEF ClientSend, Pending
  <2>3. ASSUME NEW c \in Client, ClientRead(c) PROVE Accounted(d, s, e)'
    <3>1. out[c] \in Seq(RelayFrame) /\ out[c] # <<>> /\ UNCHANGED <<up, subs, task, todo, missed, pos, bcast>>
          /\ out' = [out EXCEPT ![c] = Tail(@)]
      BY <2>3 DEF ClientRead, TypeOK
    <3>2. got'[c] = IF Head(out[c]).type = "REC" THEN got[c] \cup {Head(out[c])} ELSE got[c]
      BY <2>3 DEF ClientRead, TypeOK
    <3>3. \A x \in Client \ {c} : out'[x] = out[x] /\ got'[x] = got[x]
      BY <2>3 DEF ClientRead, TypeOK
    <3>4. \A frame : Holds(out[c], frame) => frame = Head(out[c]) \/ Holds(out'[c], frame)
      BY <3>1, HoldsTail DEF TypeOK
    <3>5. \A frame : Holds(todo[d], frame) \/ Holds(out[d], frame) \/ frame \in got[d] =>
                    \/ frame.type # "REC"
                    \/ Holds(todo'[d], frame) \/ Holds(out'[d], frame) \/ frame \in got'[d]
      BY <3>1, <3>2, <3>3, <3>4
    <3>6. UNCHANGED storeVars
      BY <2>3 DEF ClientRead
    <3>7. QED  BY <3>1, <3>5, <3>6, <2>a, OthersStay DEF Pending
  <2>4. ASSUME NEW c \in Client, Disconnect(c) PROVE Accounted(d, s, e)'
    <3>1. d # c
      BY <2>4 DEF Disconnect, Expects, TypeOK
    <3>2. QED  BY <2>4, <2>a, <3>1, OthersStay DEF Disconnect, TypeOK, Pending
  <2>5. ASSUME NEW c \in Client, HandleReq(c) PROVE Accounted(d, s, e)'
    <3>. DEFINE m == Head(inbox[c])
    <3>1. m.sub \in SubId /\ m.filter \in Filters
      BY <2>5, ReadFrame DEF HandleReq, NextFrame
    <3>2. /\ subs' = [subs EXCEPT ![c][m.sub] = m.filter]
          /\ task' = [task EXCEPT ![c] = Querying(m.sub, m.filter)]
          /\ task[c] = Select
          /\ UNCHANGED <<storeVars, up, todo, out, got, bcast, pos, missed>>
      BY <2>5 DEF HandleReq, NextFrame, Idle
    <3>. HIDE DEF m
    <3>3. Pending(e) => Pending(e)'
      BY <3>2, PendingStays, Places
    <3>4. Expects(d, s, e)
      <4>1. CASE d # c
        BY <4>1, <3>2 DEF Expects, Wants, TypeOK
      <4>2. CASE d = c
        <5>1. task'[c] = Querying(m.sub, m.filter)
          BY <3>2 DEF TypeOK
        <5>2. s # m.sub
          BY <4>2, <5>1, Places DEF Expects
        <5>3. subs'[c][s] = subs[c][s]
          BY <3>1, <3>2, <5>2 DEF TypeOK
        <5>4. QED  BY <3>2, <4>2, <5>3, Places DEF Expects, Wants
      <4>3. QED  BY <4>1, <4>2
    <3>5. Accounted(d, s, e)
      BY <2>a, <3>2, <3>4, GapSides
    <3>6. QED  BY <3>2, <3>3, <3>5, StaysAccounted
  <2>6. ASSUME NEW c \in Client, HandleClose(c) PROVE Accounted(d, s, e)'
    <3>1. Head(inbox[c]).sub \in SubId
      BY <2>6, ReadFrame DEF HandleClose, NextFrame
    <3>2. /\ subs' = [subs EXCEPT ![c][Head(inbox[c]).sub] = None]
          /\ UNCHANGED <<storeVars, up, task, todo, out, got, bcast, pos, missed>>
      BY <2>6 DEF HandleClose
    <3>3. Expects(d, s, e)
      BY <3>1, <3>2 DEF Expects, Wants, TypeOK
    <3>4. Accounted(d, s, e)
      BY <2>a, <3>2, <3>3, GapSides
    <3>5. QED  BY <3>2, <3>4, StaysAccounted DEF Pending
  <2>7. ASSUME NEW c \in Client, NEW q, todo[c] = <<>>, todo' = [todo EXCEPT ![c] = q],
               UNCHANGED <<storeVars, up, out, got, subs, bcast, missed>>,
               pos'[d] = pos[d], Pending(e) => Pending(e)',
               task'[d] = task[d] \/ task[d] = Select
        PROVE  Accounted(d, s, e)'
    <3>1. \A frame : ~Holds(<<>>, frame)
      BY DEF Holds
    <3>2. \A frame : Holds(todo[d], frame) => Holds(todo'[d], frame)
      BY <2>7, <3>1 DEF TypeOK
    <3>3. QED  BY <2>7, <2>a, <3>2, OthersStay
  <2>8. ASSUME NEW c \in Client, RefusePub(c) PROVE Accounted(d, s, e)'
    BY <2>8, <2>7 DEF RefusePub, NextFrame, Idle, Pending
  <2>9. ASSUME NEW c \in Client, AdmitPub(c) PROVE Accounted(d, s, e)'
    <3>1. /\ task' = [task EXCEPT ![c] = Inserting(Head(inbox[c]).rec)] /\ task[c] = Select
          /\ UNCHANGED <<storeVars, up, todo, out, got, subs, bcast, pos, missed>>
      BY <2>9 DEF AdmitPub, NextFrame, Idle
    <3>2. Pending(e) => Pending(e)'
      BY <3>1, PendingStays, Places
    <3>3. task'[d] = task[d] \/ task[d] = Select
      BY <3>1 DEF TypeOK
    <3>4. QED  BY <3>1, <3>2, <3>3, <2>a, OthersStay
  <2>10. ASSUME NEW c \in Client, InsertFails(c) PROVE Accounted(d, s, e)'
    <3>1. /\ task' = [task EXCEPT ![c] = Select] /\ task[c].at = "insert" /\ todo[c] = <<>>
          /\ todo' = [todo EXCEPT ![c] = <<Refusal(task[c].rec)>>]
          /\ UNCHANGED <<storeVars, up, out, got, subs, bcast, pos, missed>>
      BY <2>10 DEF InsertFails, HandlerInv
    <3>2. Pending(e) => Pending(e)'
      BY <3>1, PendingStays
    <3>3. Expects(d, s, e)
      BY <3>1 DEF Expects, Wants, TypeOK
    <3>4. Accounted(d, s, e)
      BY <2>a, <3>1, <3>3, GapSides
    <3>5. \A frame : Holds(todo[d], frame) => Holds(todo'[d], frame)
      BY <3>1 DEF TypeOK, Holds
    <3>6. QED  BY <3>1, <3>2, <3>4, <3>5, StaysAccounted
  <2>11. ASSUME NEW c \in Client, InsertDone(c) PROVE Accounted(d, s, e)'
    <3>. DEFINE t == IF Stored(task[c].rec) THEN Select
                     ELSE Announcing([seq |-> NextSeq, rec |-> task[c].rec])
    <3>1. /\ task' = [task EXCEPT ![c] = t] /\ task[c].at = "insert" /\ todo[c] = <<>>
          /\ todo' = [todo EXCEPT ![c] = <<Ok(task[c].rec)>>]
          /\ UNCHANGED <<up, out, got, subs, bcast, pos, missed>>
      BY <2>11 DEF InsertDone, HandlerInv
    <3>2. t.at # "query"
      BY Places
    <3>. HIDE DEF t
    <3>3. CASE e \in Entries
      <4>1. Pending(e) => Pending(e)'
        BY <3>1, PendingStays
      <4>2. Expects(d, s, e)
        BY <3>1 DEF Expects, Wants, TypeOK
      <4>3. Accounted(d, s, e)
        BY <3>3, <4>2, GapSides
      <4>4. \A frame : Holds(todo[d], frame) => Holds(todo'[d], frame)
        BY <3>1 DEF TypeOK, Holds
      <4>5. QED  BY <3>1, <4>1, <4>3, <4>4, StaysAccounted
    <3>4. CASE e \notin Entries
      <4>1. ~Stored(task[c].rec)
        BY <3>4, <2>11, <2>a DEF InsertDone, InsertRecord
      <4>2. task' = [task EXCEPT ![c] = Announcing(e)]
        <5>1. FreshInsert(c)
          BY <2>11, <4>1 DEF FreshInsert
        <5>. DEFINE new == [seq |-> lastSeq + 1, rec |-> task[c].rec]
        <5>2. /\ Entries' = Entries \cup {new}
              /\ task' = [task EXCEPT ![c] = Announcing(new)]
          BY <5>1, FreshInsertEffect
        <5>. HIDE DEF new
        <5>3. QED  BY <3>4, <5>2
      <4>3. Pending(e)'
        BY <4>2 DEF Pending, TypeOK
      <4>4. QED  BY <4>3 DEF Accounted
    <3>5. QED  BY <3>3, <3>4
  <2>12. ASSUME NEW c \in Client, QueryDone(c) \/ QueryFails(c) PROVE Accounted(d, s, e)'
    <3>. DEFINE x == task[c].sub  f == task[c].filter
    <3>1. /\ task' = [task EXCEPT ![c] = Select] /\ task[c].at = "query" /\ todo[c] = <<>>
          /\ UNCHANGED <<storeVars, up, out, got, subs, bcast, pos>>
      BY <2>12 DEF QueryDone, QueryFails, HandlerInv
    <3>2. \E q : todo' = [todo EXCEPT ![c] = q]
      BY <2>12 DEF QueryDone, QueryFails
    <3>3. \E S : missed' = [missed EXCEPT ![c] = Omitting(c, x, f, S)]
      BY <2>12 DEF QueryDone, QueryFails
    <3>4. e \in Entries
      BY <3>1, <2>a
    <3>5. CASE d = c /\ s = x
      <4>1. Wants(c, s, e)
        BY <3>1, <3>5 DEF Expects, Wants
      <4>2. CASE QueryDone(c)
        BY <3>4, <3>5, <4>1, <4>2, BackfillAccounts
      <4>3. CASE QueryFails(c)
        BY <3>4, <3>5, <4>1, <4>3, FailedQueryAccounts
      <4>4. QED  BY <2>12, <4>2, <4>3
    <3>6. CASE ~(d = c /\ s = x)
      <4>1. Expects(d, s, e)
        BY <3>1, <3>6 DEF Expects, Wants, TypeOK
      <4>2. Accounted(d, s, e)
        BY <3>4, <4>1, GapSides
      <4>3. Pending(e) => Pending(e)'
        BY <3>1, PendingStays
      <4>4. \A frame : Holds(todo[d], frame) => Holds(todo'[d], frame)
        BY <3>1, <3>2 DEF TypeOK, Holds
      <4>5. CASE d # c
        <5>1. missed'[d] = missed[d]
          BY <3>3, <4>5 DEF TypeOK
        <5>2. QED  BY <3>1, <4>2, <4>3, <4>4, <5>1, StaysAccounted
      <4>6. CASE d = c
        <5>1. OnItsWay(d, s, e) => OnItsWay(d, s, e)'
          BY <3>1, <4>4 DEF OnItsWay, Holds
        <5>2. [sub |-> s, seq |-> e.seq] \in missed[d] => [sub |-> s, seq |-> e.seq] \in missed'[d]
          BY <3>3, <3>6, <4>6 DEF TypeOK, Omitting
        <5>3. QED  BY <3>1, <4>2, <4>3, <5>1, <5>2 DEF Accounted
      <4>7. QED  BY <4>5, <4>6
    <3>7. QED  BY <3>5, <3>6
  <2>13. ASSUME NEW c \in Client, WriteFrame(c) PROVE Accounted(d, s, e)'
    <3>1. /\ todo[c] \in Seq(RelayFrame) /\ todo[c] # <<>> /\ out[c] \in Seq(RelayFrame)
          /\ todo' = [todo EXCEPT ![c] = Tail(@)]
          /\ UNCHANGED <<storeVars, up, task, got, subs, bcast, pos, missed>>
      BY <2>13 DEF WriteFrame, TypeOK
    <3>2. Head(todo[c]) \in RelayFrame
      BY <3>1
    <3>3. \A frame : Holds(todo[d], frame) \/ Holds(out[d], frame) =>
                       Holds(todo'[d], frame) \/ Holds(out'[d], frame)
      <4>1. CASE d # c
        BY <2>13, <3>1, <4>1 DEF WriteFrame, TypeOK
      <4>2. CASE d = c
        <5>1. out'[c] = Append(out[c], Head(todo[c])) /\ todo'[c] = Tail(todo[c])
          BY <2>13, <3>1, <4>2 DEF WriteFrame, TypeOK, Expects
        <5>2. QED  BY <3>1, <3>2, <4>2, <5>1, HoldsTail, HoldsAppend
      <4>3. QED  BY <4>1, <4>2
    <3>4. QED  BY <3>1, <3>3, <2>a, OthersStay DEF Pending
  <2>14. ASSUME NEW c \in Client, Announce(c) PROVE Accounted(d, s, e)'
    <3>. DEFINE x == task[c].entry
    <3>1. /\ task[c].at = "announce" /\ x \in Entry
          /\ bcast' = Append(bcast, x) /\ task' = [task EXCEPT ![c] = Select]
          /\ UNCHANGED <<storeVars, up, todo, out, got, subs, pos, missed>>
      BY <2>14, TaskFields DEF Announce
    <3>2. /\ Len(bcast') = Len(bcast) + 1 /\ Len(bcast) \in Nat
          /\ \A i \in 1..Len(bcast) : bcast'[i] = bcast[i]
          /\ bcast'[Len(bcast) + 1] = x
          /\ pos[d] \in Nat /\ pos[d] <= Len(bcast)
      BY <3>1 DEF TypeOK
    <3>3. Expects(d, s, e)
      BY <3>1 DEF Expects, Wants, TypeOK
    <3>4. Accounted(d, s, e)
      BY <2>a, <3>1, <3>3, GapSides
    <3>5. CASE Pending(e)
      <4>1. PICK b \in Client : task[b] = Announcing(e)
        BY <3>5 DEF Pending
      <4>2. CASE b = c
        <5>1. x = e /\ Len(bcast) + 1 \in pos'[d] + 1 .. Len(bcast')
          BY <3>1, <3>2, <4>1, <4>2, Places
        <5>2. QED  BY <3>2, <5>1 DEF Accounted
      <4>3. CASE b # c
        BY <3>1, <4>1, <4>3 DEF Accounted, Pending, TypeOK
      <4>4. QED  BY <4>2, <4>3
    <3>6. CASE \E i \in pos[d] + 1 .. Len(bcast) : bcast[i] = e
      BY <3>1, <3>2, <3>6 DEF Accounted
    <3>7. CASE OnItsWay(d, s, e) \/ [sub |-> s, seq |-> e.seq] \in missed[d]
      BY <3>1, <3>7 DEF Accounted, OnItsWay
    <3>8. QED  BY <3>4, <3>5, <3>6, <3>7 DEF Accounted
  <2>15. ASSUME NEW c \in Client, DeliverLive(c) PROVE Accounted(d, s, e)'
    <3>. DEFINE x == bcast[pos[c] + 1]
                S == {b \in SubId : Wants(c, b, x)}
    <3>1. PICK q \in Orderings(S) :
            todo' = [todo EXCEPT ![c] = [i \in DOMAIN q |-> RecFrame(q[i], x)]]
      BY <2>15 DEF DeliverLive
    <3>2. /\ todo[c] = <<>> /\ pos[c] < Len(bcast)
          /\ pos' = [pos EXCEPT ![c] = @ + 1]
          /\ UNCHANGED <<storeVars, up, task, out, got, subs, bcast, missed>>
      BY <2>15 DEF DeliverLive, Idle
    <3>3. e \in Entries /\ Expects(d, s, e)
      BY <2>a, <3>2 DEF Expects, Wants
    <3>4. CASE d # c
      <4>1. pos'[d] = pos[d]
        BY <3>2, <3>4 DEF TypeOK
      <4>. DEFINE f == [i \in DOMAIN q |-> RecFrame(q[i], x)]
      <4>2. todo' = [todo EXCEPT ![c] = f]
        BY <3>1
      <4>. HIDE DEF f
      <4>3. QED  BY <3>2, <4>1, <4>2, <2>7 DEF Pending
    <3>5. CASE d = c
      <4>1. Accounted(d, s, e)
        BY <3>3, GapSides
      <4>2. IsFiniteSet(S)
        BY FS_Subset
      <4>3. CASE x = e
        <5>1. s \in S
          BY <3>3, <3>5, <4>3 DEF Expects
        <5>. DEFINE n == Cardinality(S)
        <5>. HIDE DEF S
        <5>2. n \in Nat /\ DOMAIN q = 1..n /\ \E i \in 1..n : q[i] = s
          BY <3>1, <4>2, <5>1, OrderingCovers
        <5>3. todo'[c] = [i \in 1..n |-> RecFrame(q[i], x)]
          BY <3>1, <5>2 DEF TypeOK
        <5>4. PICK i \in 1..n : q[i] = s
          BY <5>2
        <5>5. i \in 1..Len(todo'[c]) /\ todo'[c][i] = RecFrame(s, e)
          BY <4>3, <5>2, <5>3, <5>4
        <5>6. QED  BY <3>5, <5>5 DEF Accounted, OnItsWay
      <4>4. CASE x # e
        <5>1. pos'[d] = pos[d] + 1 /\ pos[d] \in Nat /\ Len(bcast) \in Nat
          BY <3>2, <3>5 DEF TypeOK
        <5>2. CASE \E i \in pos[d] + 1 .. Len(bcast) : bcast[i] = e
          <6>1. PICK i \in pos[d] + 1 .. Len(bcast) : bcast[i] = e
            BY <5>2
          <6>2. i \in pos'[d] + 1 .. Len(bcast')
            BY <3>2, <3>5, <4>4, <5>1, <6>1
          <6>3. QED  BY <3>2, <6>1, <6>2 DEF Accounted
        <5>3. CASE OnItsWay(d, s, e)
          <6>1. \A i : ~(i \in 1..Len(todo[d]))
            BY <3>2, <3>5
          <6>2. OnItsWay(d, s, e)'
            BY <3>2, <5>3, <6>1 DEF OnItsWay
          <6>3. QED  BY <6>2 DEF Accounted
        <5>4. CASE Pending(e) \/ [sub |-> s, seq |-> e.seq] \in missed[d]
          BY <3>2, <5>4 DEF Accounted, Pending
        <5>5. QED  BY <4>1, <5>2, <5>3, <5>4 DEF Accounted
      <4>5. QED  BY <4>3, <4>4
    <3>6. QED  BY <3>4, <3>5
  <2>16. ASSUME NEW c \in Client, Lag(c) PROVE Accounted(d, s, e)'
    <3>. DEFINE oldest == Len(bcast) - Capacity
                lost == {[sub |-> b, seq |-> x.seq] : b \in {y \in SubId : subs[c][y] # None},
                            x \in {bcast[i] : i \in pos[c] + 1 .. oldest}}
    <3>1. /\ pos' = [pos EXCEPT ![c] = oldest]
          /\ missed' = [missed EXCEPT ![c] = @ \cup lost]
          /\ UNCHANGED <<storeVars, up, task, todo, out, got, subs, bcast>>
      BY <2>16 DEF Lag
    <3>2. e \in Entries /\ Expects(d, s, e)
      BY <2>a, <3>1 DEF Expects, Wants
    <3>3. Accounted(d, s, e)
      BY <3>2, GapSides
    <3>4. CASE d # c
      BY <3>1, <3>3, <3>4, StaysAccounted DEF Pending, TypeOK
    <3>5. CASE d = c
      <4>1. pos'[d] = oldest /\ missed'[d] = missed[d] \cup lost /\ pos[d] \in Nat
            /\ oldest \in Int /\ Len(bcast) \in Nat
        BY <3>1, <3>5 DEF TypeOK
      <4>2. ASSUME NEW i \in pos[d] + 1 .. Len(bcast), bcast[i] = e PROVE Accounted(d, s, e)'
        <5>1. CASE i <= oldest
          <6>1. subs[c][s] # None
            BY <3>2, <3>5 DEF Expects, Wants
          <6>2. i \in pos[c] + 1 .. oldest
            BY <3>5, <4>1, <5>1
          <6>3. [sub |-> s, seq |-> e.seq] \in lost
            BY <4>2, <6>1, <6>2
          <6>4. QED  BY <4>1, <6>3 DEF Accounted
        <5>2. CASE ~(i <= oldest)
          <6>1. i \in pos'[d] + 1 .. Len(bcast')
            BY <3>1, <4>1, <5>2
          <6>2. QED  BY <3>1, <4>2, <6>1 DEF Accounted
        <5>3. QED  BY <5>1, <5>2
      <4>3. OnItsWay(d, s, e) \/ Pending(e) \/ [sub |-> s, seq |-> e.seq] \in missed[d]
              => Accounted(d, s, e)'
        BY <3>1, <4>1 DEF Accounted, OnItsWay, Pending
      <4>4. QED  BY <3>3, <4>2, <4>3 DEF Accounted
    <3>6. QED  BY <3>4, <3>5
  <2>17. ASSUME NEW c \in Client, EndTask(c) PROVE Accounted(d, s, e)'
    <3>1. d # c
      BY <2>17 DEF EndTask, Expects, TypeOK
    <3>2. QED  BY <2>17, <2>a, <3>1, OthersStay DEF EndTask, TypeOK, Pending
  <2>18. CASE Refill
    BY <2>18, <2>a, OthersStay DEF Refill, connVars, Pending
  <2>19. CASE Restart
    BY <2>19 DEF Restart, Expects
  <2>20. CASE UNCHANGED vars
    BY <2>20, <2>a, OthersStay DEF vars, connVars, storeVars, Pending
  <2>21. QED
    BY <2>1, <2>2, <2>3, <2>4, <2>5, <2>6, <2>8, <2>9, <2>10, <2>11, <2>12, <2>13,
       <2>14, <2>15, <2>16, <2>17, <2>18, <2>19, <2>20
    DEF Next, HandleFrame, StoreCall, Receive
<1>3. QED
  BY <1>1, <1>2, TypeCorrect, PTL DEF Spec

\* The gap half of the invariant, as the runs check it.
THEOREM NoGap == Spec => []NoSilentGap
<1>1. GapInv => NoSilentGap  BY DEF GapInv
<1>2. QED  BY <1>1, GapInvariant, PTL

=============================================================================
