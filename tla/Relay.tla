-------------------------------- MODULE Relay --------------------------------
(***************************************************************************)
(* The relay's sync endpoint (crates/evermesh-relay/src/sync.rs) over its  *)
(* store, with the broadcast channel of accepted records (lib.rs), the     *)
(* proof-of-work check (pow.rs) and the per-author rate limit (rate.rs).   *)
(*                                                                         *)
(* Each WebSocket connection is one tokio task running handle_socket: it   *)
(* selects between its next client frame and the next accepted record, and *)
(* awaits the chosen handler to its end.  A handler runs without           *)
(* interruption between two awaits; the awaits are the blocking store call *)
(* and every frame written to the socket.  `task` says which await the     *)
(* handler stands at, `todo` which frames it still has to write first.     *)
(*                                                                         *)
(* Nothing the running relay calls reads received_at, so rows carry 0.     *)
(***************************************************************************)
EXTENDS RelayStore

CONSTANTS
  Client,       \* connections, each reusable after it closed
  SubId,        \* subscription names, unique per connection
  Forged,       \* records that do not decode or fail Record::verify
  None,         \* no subscription under a name
  Capacity,     \* ACCEPTED_CHANNEL_CAPACITY
  RatePerKey,   \* rate.records_per_minute_per_key, 0 for no limit
  Sends,        \* [Client -> the frames that client may send]
  InCap,        \* bound: client frames on their way to the relay
  OutCap        \* bound: relay frames the socket buffers hold

VARIABLES
  up,           \* "closed", "open", or "gone": the peer left, the task runs on
  inbox,        \* client frames not yet read by the task
  task,         \* where handle_socket stands
  todo,         \* relay frames its handler is about to write
  out,          \* relay frames written, not yet read by the client
  got,          \* REC frames the client has read
  subs,         \* the connection's subscription table
  bcast,        \* everything ever sent to accepted_tx, oldest first
  pos,          \* how much of bcast the connection's receiver has consumed
  tokens,       \* the rate limiter's buckets
  missed        \* history: [sub, seq] the relay decided not to deliver

connVars == <<up, inbox, task, todo, out, got, subs, pos, missed>>
vars == <<rows, lastSeq, assigned, connVars, bcast, tokens>>

Author == {AuthorOf[r] : r \in Rec}
Entry == [seq : Nat, rec : Rec]

ReqFrame(s, f) == [type |-> "REQ", sub |-> s, filter |-> f]
CloseFrame(s) == [type |-> "CLOSE", sub |-> s]
PubFrame(r, w) == [type |-> "PUB", rec |-> r, work |-> w]

ClientFrame ==
  [type : {"REQ"}, sub : SubId, filter : Filters]
    \cup [type : {"CLOSE"}, sub : SubId]
    \cup [type : {"PUB"}, rec : Rec, work : BOOLEAN]

ASSUME RelayAssumption ==
  /\ Forged \subseteq Rec
  /\ Capacity \in Nat \ {0}
  /\ RatePerKey \in Nat /\ InCap \in Nat \ {0} /\ OutCap \in Nat \ {0}
  /\ None \notin Filters
  /\ IsFiniteSet(SubId)
  /\ \A c \in Client : Sends[c] \subseteq ClientFrame

RecFrame(s, e) == [type |-> "REC", sub |-> s, seq |-> e.seq, rec |-> e.rec]
Eose(s) == [type |-> "EOSE", sub |-> s]
Ok(r) == [type |-> "OK", rec |-> r]            \* OK(id, true)
Refusal(r) == [type |-> "REFUSAL", rec |-> r]  \* OK(id, false, reason)

RelayFrame ==
  [type : {"REC"}, sub : SubId, seq : Nat, rec : Rec]
    \cup [type : {"EOSE"}, sub : SubId]
    \cup [type : {"OK", "REFUSAL"}, rec : Rec]

Select == [at |-> "select"]
Querying(s, f) == [at |-> "query", sub |-> s, filter |-> f]
Inserting(r) == [at |-> "insert", rec |-> r]
Announcing(e) == [at |-> "announce", entry |-> e]

Task ==
  {Select}
    \cup [at : {"query"}, sub : SubId, filter : Filters]
    \cup [at : {"insert"}, rec : Rec]
    \cup [at : {"announce"}, entry : Entry]

NoSubs == [s \in SubId |-> None]
FullBuckets == [a \in Author |-> RatePerKey]

Init ==
  /\ rows = {} /\ lastSeq = 0 /\ assigned = {}
  /\ up = [c \in Client |-> "closed"]
  /\ inbox = [c \in Client |-> <<>>]
  /\ task = [c \in Client |-> Select]
  /\ todo = [c \in Client |-> <<>>]
  /\ out = [c \in Client |-> <<>>]
  /\ got = [c \in Client |-> {}]
  /\ subs = [c \in Client |-> NoSubs]
  /\ bcast = <<>>
  /\ pos = [c \in Client |-> 0]
  /\ tokens = FullBuckets
  /\ missed = [c \in Client |-> {}]

-----------------------------------------------------------------------------
(* The client's end of the socket *)

\* A new connection subscribes to the broadcast channel before it reads anything.
Connect(c) ==
  /\ up[c] = "closed"
  /\ up' = [up EXCEPT ![c] = "open"]
  /\ pos' = [pos EXCEPT ![c] = Len(bcast)]
  /\ UNCHANGED <<storeVars, inbox, task, todo, out, got, subs, bcast, tokens, missed>>

ClientSend(c) == \E frame \in Sends[c] :
  /\ up[c] = "open"
  /\ Len(inbox[c]) < InCap
  /\ inbox' = [inbox EXCEPT ![c] = Append(@, frame)]
  /\ UNCHANGED <<storeVars, up, task, todo, out, got, subs, bcast, pos, tokens, missed>>

ClientRead(c) ==
  /\ out[c] # <<>>
  /\ out' = [out EXCEPT ![c] = Tail(@)]
  /\ got' = IF Head(out[c]).type = "REC"
              THEN [got EXCEPT ![c] = @ \cup {Head(out[c])}]
              ELSE got
  /\ UNCHANGED <<storeVars, up, inbox, task, todo, subs, bcast, pos, tokens, missed>>

\* The peer goes away; frames it sent may still be readable, or lost with a reset.
Disconnect(c) ==
  /\ up[c] = "open"
  /\ up' = [up EXCEPT ![c] = "gone"]
  /\ out' = [out EXCEPT ![c] = <<>>]
  /\ \E rest \in {inbox[c], <<>>} : inbox' = [inbox EXCEPT ![c] = rest]
  /\ got' = [got EXCEPT ![c] = {}]
  /\ missed' = [missed EXCEPT ![c] = {}]
  /\ UNCHANGED <<storeVars, task, todo, subs, bcast, pos, tokens>>

-----------------------------------------------------------------------------
(* handle_socket *)

Idle(c) == up[c] # "closed" /\ task[c] = Select /\ todo[c] = <<>>

NextFrame(c, type) == Idle(c) /\ inbox[c] # <<>> /\ Head(inbox[c]).type = type

\* handle_req up to its await: the subscription is entered first.
HandleReq(c) ==
  /\ NextFrame(c, "REQ")
  /\ LET m == Head(inbox[c]) IN
       /\ subs' = [subs EXCEPT ![c][m.sub] = m.filter]
       /\ task' = [task EXCEPT ![c] = Querying(m.sub, m.filter)]
  /\ inbox' = [inbox EXCEPT ![c] = Tail(@)]
  /\ UNCHANGED <<storeVars, up, todo, out, got, bcast, pos, tokens, missed>>

\* The backfill: a REC frame per row, then EOSE.
Backfill(s, q) == Append([i \in DOMAIN q |-> RecFrame(s, q[i])], Eose(s))

\* The rows of a filter that a backfill of S leaves out, in place of whatever an
\* earlier use of the same name left out.
Omitting(c, s, f, S) ==
  {m \in missed[c] : m.sub # s}
    \cup {[sub |-> s, seq |-> row.seq] : row \in Selected(f) \ S}

QueryDone(c) ==
  /\ task[c].at = "query"
  /\ LET s == task[c].sub  f == task[c].filter IN
       /\ \E q \in Descending(QueryRows(f)) :
            todo' = [todo EXCEPT ![c] = Backfill(s, q)]
       /\ missed' = [missed EXCEPT ![c] = Omitting(c, s, f, QueryRows(f))]
  /\ task' = [task EXCEPT ![c] = Select]
  /\ UNCHANGED <<storeVars, up, inbox, out, got, subs, bcast, pos, tokens>>

\* A failed or panicked query is logged and answered like an empty one.
QueryFails(c) ==
  /\ task[c].at = "query"
  /\ LET s == task[c].sub  f == task[c].filter IN
       /\ todo' = [todo EXCEPT ![c] = <<Eose(s)>>]
       /\ missed' = [missed EXCEPT ![c] = Omitting(c, s, f, {})]
  /\ task' = [task EXCEPT ![c] = Select]
  /\ UNCHANGED <<storeVars, up, inbox, out, got, subs, bcast, pos, tokens>>

HandleClose(c) ==
  /\ NextFrame(c, "CLOSE")
  /\ subs' = [subs EXCEPT ![c][Head(inbox[c]).sub] = None]
  /\ inbox' = [inbox EXCEPT ![c] = Tail(@)]
  /\ UNCHANGED <<storeVars, up, task, todo, out, got, bcast, pos, tokens, missed>>

\* RateLimiter::check
HasToken(a) == RatePerKey = 0 \/ tokens[a] > 0
TakeToken(a) ==
  tokens' = IF RatePerKey = 0 THEN tokens ELSE [tokens EXCEPT ![a] = @ - 1]

\* handle_pub up to its await: a frame that fails verification, proof of work or
\* the rate limit is refused; only one that passes all three reaches the store.
RefusePub(c) ==
  /\ NextFrame(c, "PUB")
  /\ LET m == Head(inbox[c]) IN
       /\ \/ m.rec \in Forged
          \/ ~m.work
          \/ ~HasToken(AuthorOf[m.rec])
       /\ todo' = [todo EXCEPT ![c] = <<Refusal(m.rec)>>]
  /\ inbox' = [inbox EXCEPT ![c] = Tail(@)]
  /\ UNCHANGED <<storeVars, up, task, out, got, subs, bcast, pos, tokens, missed>>

AdmitPub(c) ==
  /\ NextFrame(c, "PUB")
  /\ LET m == Head(inbox[c]) IN
       /\ m.rec \notin Forged
       /\ m.work
       /\ HasToken(AuthorOf[m.rec])
       /\ TakeToken(AuthorOf[m.rec])
       /\ task' = [task EXCEPT ![c] = Inserting(m.rec)]
  /\ inbox' = [inbox EXCEPT ![c] = Tail(@)]
  /\ UNCHANGED <<storeVars, up, todo, out, got, subs, bcast, pos, missed>>

\* The store transaction commits: OK(true) is due, and the record's announcement
\* after it unless it was a duplicate.
InsertDone(c) ==
  /\ task[c].at = "insert"
  /\ InsertRecord(task[c].rec, 0)
  /\ todo' = [todo EXCEPT ![c] = <<Ok(task[c].rec)>>]
  /\ task' = [task EXCEPT ![c] =
       IF Stored(task[c].rec) THEN Select
       ELSE Announcing([seq |-> NextSeq, rec |-> task[c].rec])]
  /\ UNCHANGED <<up, inbox, out, got, subs, bcast, pos, tokens, missed>>

\* Seeded defect: a failed insert is acknowledged all the same.
InsertFailsQuietly(c) ==
  /\ task[c].at = "insert"
  /\ todo' = [todo EXCEPT ![c] = <<Ok(task[c].rec)>>]
  /\ task' = [task EXCEPT ![c] = Select]
  /\ UNCHANGED <<storeVars, up, inbox, out, got, subs, bcast, pos, tokens, missed>>

InsertFails(c) ==
  /\ task[c].at = "insert"
  /\ todo' = [todo EXCEPT ![c] = <<Refusal(task[c].rec)>>]
  /\ task' = [task EXCEPT ![c] = Select]
  /\ UNCHANGED <<storeVars, up, inbox, out, got, subs, bcast, pos, tokens, missed>>

\* Seeded defect: the connection joins the live feed once it has written EOSE.
WriteFrameThenListen(c) ==
  /\ todo[c] # <<>>
  /\ \/ up[c] = "open" /\ Len(out[c]) < OutCap /\ out' = [out EXCEPT ![c] = Append(@, Head(todo[c]))]
     \/ up[c] = "gone" /\ UNCHANGED out
  /\ todo' = [todo EXCEPT ![c] = Tail(@)]
  /\ pos' = IF Head(todo[c]).type = "EOSE" THEN [pos EXCEPT ![c] = Len(bcast)] ELSE pos
  /\ UNCHANGED <<storeVars, up, inbox, task, got, subs, bcast, tokens, missed>>

\* send_frame: waits for room in the socket; an error is logged and the frame lost.
WriteFrame(c) ==
  /\ todo[c] # <<>>
  /\ \/ up[c] = "open" /\ Len(out[c]) < OutCap /\ out' = [out EXCEPT ![c] = Append(@, Head(todo[c]))]
     \/ up[c] = "gone" /\ UNCHANGED out
  /\ todo' = [todo EXCEPT ![c] = Tail(@)]
  /\ UNCHANGED <<storeVars, up, inbox, task, got, subs, bcast, pos, tokens, missed>>

\* accepted_tx.send, once the OK frame has been written.
Announce(c) ==
  /\ task[c].at = "announce"
  /\ todo[c] = <<>>
  /\ bcast' = Append(bcast, task[c].entry)
  /\ task' = [task EXCEPT ![c] = Select]
  /\ UNCHANGED <<storeVars, up, inbox, todo, out, got, subs, pos, tokens, missed>>

Wants(c, s, e) == subs[c][s] # None /\ Matches(subs[c][s], e.rec, e.seq)

Orderings(S) ==
  {q \in [1..Cardinality(S) -> S] :
      \A i, j \in 1..Cardinality(S) : q[i] = q[j] => i = j}

\* Seeded defect: a subscription is served only while the socket has room.
DeliverIfRoom(c) ==
  /\ Idle(c)
  /\ pos[c] < Len(bcast)
  /\ Len(bcast) - pos[c] <= Capacity
  /\ LET e == bcast[pos[c] + 1] IN
       \E q \in Orderings({s \in SubId : Wants(c, s, e) /\ Len(out[c]) = 0}) :
         todo' = [todo EXCEPT ![c] = [i \in DOMAIN q |-> RecFrame(q[i], e)]]
  /\ pos' = [pos EXCEPT ![c] = @ + 1]
  /\ UNCHANGED <<storeVars, up, inbox, task, out, got, subs, bcast, tokens, missed>>

\* deliver_live: one REC per matching subscription, in the map's iteration order.
DeliverLive(c) ==
  /\ Idle(c)
  /\ pos[c] < Len(bcast)
  /\ Len(bcast) - pos[c] <= Capacity
  /\ LET e == bcast[pos[c] + 1] IN
       \E q \in Orderings({s \in SubId : Wants(c, s, e)}) :
         todo' = [todo EXCEPT ![c] = [i \in DOMAIN q |-> RecFrame(q[i], e)]]
  /\ pos' = [pos EXCEPT ![c] = @ + 1]
  /\ UNCHANGED <<storeVars, up, inbox, task, out, got, subs, bcast, tokens, missed>>

\* RecvError::Lagged: the channel overwrote what this receiver had not read.
Lag(c) ==
  /\ Idle(c)
  /\ Len(bcast) - pos[c] > Capacity
  /\ LET oldest == Len(bcast) - Capacity
         skipped == {bcast[i] : i \in pos[c] + 1 .. oldest}
     IN  /\ pos' = [pos EXCEPT ![c] = oldest]
         /\ missed' = [missed EXCEPT ![c] = @ \cup
              {[sub |-> s, seq |-> e.seq] : s \in {x \in SubId : subs[c][x] # None},
                                            e \in skipped}]
  /\ UNCHANGED <<storeVars, up, inbox, task, todo, out, got, subs, bcast, tokens>>

\* The read side reports the close: the task ends and its state is dropped.
EndTask(c) ==
  /\ Idle(c)
  /\ up[c] = "gone" /\ inbox[c] = <<>>
  /\ up' = [up EXCEPT ![c] = "closed"]
  /\ subs' = [subs EXCEPT ![c] = NoSubs]
  /\ missed' = [missed EXCEPT ![c] = {}]
  /\ UNCHANGED <<storeVars, inbox, task, todo, out, got, bcast, pos, tokens>>

-----------------------------------------------------------------------------
(* The process *)

\* refill_tokens, one token at a time.
Refill == \E a \in Author :
  /\ tokens[a] < RatePerKey
  /\ tokens' = [tokens EXCEPT ![a] = @ + 1]
  /\ UNCHANGED <<storeVars, connVars, bcast>>

\* The process stops and starts again: the database is all that survives.
Restart ==
  /\ up' = [c \in Client |-> "closed"]
  /\ inbox' = [c \in Client |-> <<>>]
  /\ task' = [c \in Client |-> Select]
  /\ todo' = [c \in Client |-> <<>>]
  /\ out' = [c \in Client |-> <<>>]
  /\ got' = [c \in Client |-> {}]
  /\ subs' = [c \in Client |-> NoSubs]
  /\ missed' = [c \in Client |-> {}]
  /\ tokens' = FullBuckets
  /\ UNCHANGED <<storeVars, bcast, pos>>

HandleFrame(c) == HandleReq(c) \/ HandleClose(c) \/ RefusePub(c) \/ AdmitPub(c)
StoreCall(c) == QueryDone(c) \/ QueryFails(c) \/ InsertDone(c) \/ InsertFails(c)
Receive(c) == DeliverLive(c) \/ Lag(c)

Next ==
  \/ \E c \in Client :
       \/ Connect(c) \/ ClientSend(c) \/ ClientRead(c) \/ Disconnect(c)
       \/ HandleFrame(c) \/ StoreCall(c) \/ WriteFrame(c) \/ Announce(c)
       \/ Receive(c) \/ EndTask(c)
  \/ Refill
  \/ Restart

Spec == Init /\ [][Next]_vars

\* The step a task takes past the await it stands at.
Proceed(c) == StoreCall(c) \/ WriteFrame(c) \/ Announce(c) \/ EndTask(c)

\* Tasks are scheduled, the store answers, and tokio::select! picks at random
\* among the ready branches, so neither branch starves.  Clients drain their
\* sockets or go away.
Fairness == \A c \in Client :
  /\ SF_vars(HandleFrame(c))
  /\ SF_vars(Receive(c))
  /\ WF_vars(Proceed(c))
  /\ WF_vars(ClientRead(c))

FairSpec == Spec /\ Fairness

-----------------------------------------------------------------------------
(* Properties *)

\* Every variable has its type, and no socket holds more than its buffers.
TypeOK ==
  /\ StoreTypeOK
  /\ up \in [Client -> {"closed", "open", "gone"}]
  /\ inbox \in [Client -> Seq(ClientFrame)]
  /\ task \in [Client -> Task]
  /\ todo \in [Client -> Seq(RelayFrame)]
  /\ out \in [Client -> Seq(RelayFrame)]
  /\ got \in [Client -> SUBSET RelayFrame]
  /\ subs \in [Client -> [SubId -> Filters \cup {None}]]
  /\ bcast \in Seq(Entry)
  /\ pos \in [Client -> Nat]
  /\ tokens \in [Author -> Nat]
  /\ missed \in [Client -> SUBSET [sub : SubId, seq : Nat]]
  /\ \A c \in Client : pos[c] <= Len(bcast) /\ Len(out[c]) <= OutCap

EntryOf(row) == [seq |-> row.seq, rec |-> row.rec]
Entries == {EntryOf(row) : row \in rows}
Pending(e) == \E c \in Client : task[c] = Announcing(e)

\* However many connections publish one record at the same time, and across
\* restarts, it is announced at most once and only after it is stored.
AnnouncedOnce ==
  /\ \A i \in 1..Len(bcast) : bcast[i] \in Entries
  /\ \A i, j \in 1..Len(bcast) : bcast[i] = bcast[j] => i = j
  /\ \A c \in Client : task[c].at = "announce" =>
       /\ task[c].entry \in Entries
       /\ \A i \in 1..Len(bcast) : bcast[i] # task[c].entry
       /\ \A d \in Client : task[d] = task[c] => d = c

\* An OK on its way to a publisher means the record is in the store, where
\* a crash cannot take it back; no forged record ever gets there.
OkMeansStored ==
  /\ \A c \in Client, r \in Rec :
       (\/ \E i \in 1..Len(todo[c]) : todo[c][i] = Ok(r)
        \/ \E i \in 1..Len(out[c]) : out[c][i] = Ok(r))
       => Stored(r)
  /\ \A r \in Forged : ~Stored(r)

OnItsWay(c, s, e) ==
  \/ RecFrame(s, e) \in got[c]
  \/ \E i \in 1..Len(out[c]) : out[c][i] = RecFrame(s, e)
  \/ \E i \in 1..Len(todo[c]) : todo[c][i] = RecFrame(s, e)

\* Between backfill and live delivery nothing falls through: a stored record that
\* an open subscription wants has been delivered, is on its way, is still to be
\* read from the channel or announced, or was left out by the limit, by a failed
\* query or by a Lagged receiver.
NoSilentGap ==
  \A c \in Client, s \in SubId, e \in Entries :
    /\ up[c] = "open" /\ Wants(c, s, e)
    /\ ~(task[c].at = "query" /\ task[c].sub = s)
    => \/ OnItsWay(c, s, e)
       \/ \E i \in pos[c] + 1 .. Len(bcast) : bcast[i] = e
       \/ Pending(e)
       \/ [sub |-> s, seq |-> e.seq] \in missed[c]

\* The relay implements the promise of AcceptedLog.
Log == INSTANCE AcceptedLog WITH accepted <- Entries, announced <- bcast

ImplementsLog == Log!Spec

Owed(c, s, r) == \E e \in Entries :
  /\ e.rec = r
  /\ up[c] = "open" /\ Wants(c, s, e)
  /\ [sub |-> s, seq |-> e.seq] \notin missed[c]
  /\ RecFrame(s, e) \notin got[c]

\* A client that stays connected and subscribed, and reads its socket, receives
\* every record it wants that the relay did not knowingly leave out.
EventuallyDelivered ==
  \A c \in Client, s \in SubId, r \in Rec \ Forged : Owed(c, s, r) ~> ~Owed(c, s, r)

=============================================================================
