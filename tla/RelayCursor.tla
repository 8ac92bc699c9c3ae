----------------------------- MODULE RelayCursor -----------------------------
(***************************************************************************)
(* A gateway following one relay (RelayClient in apps/gateway/server/src/  *)
(* relay.ts): it subscribes with the cursor it persisted, processes every  *)
(* REC frame in an asynchronous handler of its own, and then moves the     *)
(* cursor up to the frame's sequence.                                      *)
(*                                                                         *)
(* The relay is its record store (module RelayStore) and the behaviour of  *)
(* module Relay as one connection sees it: a backfill, most recent record  *)
(* first, then the announced records that the connection's receiver has    *)
(* not yet consumed.  Records are announced some time after they are       *)
(* stored, in any order, or never when the relay restarts in between.      *)
(***************************************************************************)
EXTENDS RelayStore

CONSTANTS
  Refused,      \* records that verification, policy or ingest turn down for good
  NoReq,        \* no REQ on its way to the relay
  Capacity,     \* ACCEPTED_CHANNEL_CAPACITY of the relay
  MaxBreaks     \* bound: connections lost and processes restarted

ASSUME CursorAssumption ==
  /\ Refused \subseteq Rec
  /\ NoReq \notin Nat
  /\ Capacity \in Nat \ {0} /\ MaxBreaks \in Nat

VARIABLES
  bcast,        \* the relay's announcements, oldest first
  silent,       \* sequences the relay will not announce any more
  open,         \* the gateway's socket is open
  req,          \* the cursor in a REQ frame the relay has not handled
  sub,          \* the cursor of the relay's subscription, or NoReq
  pos,          \* how much of bcast the connection's receiver has consumed
  wire,         \* REC frames sent and not yet received
  handling,     \* handlers that run, with the await each stands at
  since,        \* relay_state.since_seq, persisted
  index,        \* the records table of the gateway, persisted
  seen,         \* history: sequences of the frames received
  lost,         \* history: sequences dropped for a reason the model names
  cut,          \* history: sequences a broken connection or a stopped process left
  breaks        \* history: how often something broke

relayVars == <<storeVars, bcast, silent>>
linkVars == <<open, req, sub, pos, wire>>
gatewayVars == <<handling, since, index, seen>>
vars == <<relayVars, linkVars, gatewayVars, lost, cut, breaks>>

Entry == [seq : Nat, rec : Rec]
Handler == [seq : Nat, rec : Rec, at : {"ingest", "advance"}]

Init ==
  /\ rows = {} /\ lastSeq = 0 /\ assigned = {}
  /\ bcast = <<>> /\ silent = {}
  /\ open = FALSE /\ req = NoReq /\ sub = NoReq /\ pos = 0 /\ wire = <<>>
  /\ handling = {} /\ since = 0 /\ index = {} /\ seen = {}
  /\ lost = {} /\ cut = {} /\ breaks = 0

EntryOf(row) == [seq |-> row.seq, rec |-> row.rec]
Announced(row) == \E i \in 1..Len(bcast) : bcast[i] = EntryOf(row)
Unannounced == {row \in rows : ~Announced(row) /\ row.seq \notin silent}

-----------------------------------------------------------------------------
(* The relay *)

\* Somebody publishes a new record; its announcement is then due.
Publish(r) ==
  /\ ~Stored(r)
  /\ InsertRecord(r, 0)
  /\ UNCHANGED <<bcast, silent, linkVars, gatewayVars, lost, cut, breaks>>

Announce ==
  /\ \E row \in Unannounced : bcast' = Append(bcast, EntryOf(row))
  /\ UNCHANGED <<storeVars, silent, linkVars, gatewayVars, lost, cut, breaks>>

\* The gateway's REQ: no kinds, authors, ids, refs or limit.
SinceFilter(n) == [kinds |-> Absent, authors |-> Absent, ids |-> Absent,
                   refs |-> Absent, since |-> n, limit |-> Absent]

Seqs(S) == {x.seq : x \in S}
ToFrames(q) == [i \in DOMAIN q |-> EntryOf(q[i])]

\* handle_req: subscribe, query, and write the rows.
Backfill ==
  /\ req # NoReq
  /\ \E q \in Descending(QueryRows(SinceFilter(req))) : wire' = wire \o ToFrames(q)
  /\ lost' = lost \cup (Seqs(Selected(SinceFilter(req))) \ Seqs(QueryRows(SinceFilter(req))))
  /\ sub' = req /\ req' = NoReq
  /\ UNCHANGED <<relayVars, open, pos, gatewayVars, cut, breaks>>

\* The query failed: the relay answers EOSE and nothing else.
BackfillFails ==
  /\ req # NoReq
  /\ lost' = lost \cup Seqs(Selected(SinceFilter(req)))
  /\ sub' = req /\ req' = NoReq
  /\ UNCHANGED <<relayVars, open, pos, wire, gatewayVars, cut, breaks>>

Wanted(e) == sub # NoReq /\ Matches(SinceFilter(sub), e.rec, e.seq)

DeliverLive ==
  /\ open
  /\ pos < Len(bcast) /\ Len(bcast) - pos <= Capacity
  /\ LET e == bcast[pos + 1] IN
       wire' = IF Wanted(e) THEN Append(wire, e) ELSE wire
  /\ pos' = pos + 1
  /\ UNCHANGED <<relayVars, open, req, sub, gatewayVars, lost, cut, breaks>>

\* RecvError::Lagged.
Lag ==
  /\ open
  /\ Len(bcast) - pos > Capacity
  /\ pos' = Len(bcast) - Capacity
  /\ lost' = lost \cup
       {bcast[i].seq : i \in {j \in pos + 1 .. pos' : Wanted(bcast[j])}}
  /\ UNCHANGED <<relayVars, open, req, sub, wire, gatewayVars, cut, breaks>>

-----------------------------------------------------------------------------
(* The gateway *)

\* The REQ of a new connection asks for all above the cursor, so what stays lost is
\* below it: what was lost before, and what the last connection left while the record
\* at the cursor was handled.
Connected ==
  /\ ~open
  /\ open' = TRUE
  /\ pos' = Len(bcast)
  /\ lost' = {n \in lost : n <= since} \cup {n \in cut : n < since}
  /\ cut' = {}
  /\ UNCHANGED <<relayVars, sub, wire, gatewayVars, breaks>>

\* Seeded defect: the cursor skips one sequence on resumption.
ConnectPastCursor == Connected /\ req' = since + 1

\* The reconnect timer fires and the socket opens: REQ from the cursor.
Connect == Connected /\ req' = since

\* Seeded defect: setSince is called as the frame arrives, before the await.
ReceiveAndAdvance ==
  /\ wire # <<>>
  /\ handling' = handling \cup
       {[seq |-> Head(wire).seq, rec |-> Head(wire).rec, at |-> "ingest"]}
  /\ seen' = seen \cup {Head(wire).seq}
  /\ wire' = Tail(wire)
  /\ since' = IF Head(wire).seq > since THEN Head(wire).seq ELSE since
  /\ UNCHANGED <<relayVars, open, req, sub, pos, index, lost, cut, breaks>>

\* A frame arrives.  Its handler does not wait for the handlers before it; two
\* handlers of one record at the same await are counted as one.
ReceiveFrame ==
  /\ wire # <<>>
  /\ handling' = handling \cup
       {[seq |-> Head(wire).seq, rec |-> Head(wire).rec, at |-> "ingest"]}
  /\ seen' = seen \cup {Head(wire).seq}
  /\ wire' = Tail(wire)
  /\ UNCHANGED <<relayVars, open, req, sub, pos, since, index, lost, cut, breaks>>

AwaitsAdvance(h) == handling' = (handling \ {h}) \cup {[h EXCEPT !.at = "advance"]}

\* verifyRecord and processRecord return; a refused record is only logged.
Process(h) ==
  /\ h.at = "ingest"
  /\ index' = IF h.rec \in Refused THEN index ELSE index \cup {h.rec}
  /\ AwaitsAdvance(h)
  /\ UNCHANGED <<relayVars, linkVars, since, seen, lost, cut, breaks>>

SetSince(n) == since' = IF n > since THEN n ELSE since

\* processRecord throws, say because the database is busy: the catch logs, and
\* nothing is awaited before setSince.
ProcessFails(h) ==
  /\ h.at = "ingest"
  /\ lost' = lost \cup {h.seq}
  /\ SetSince(h.seq)
  /\ handling' = handling \ {h}
  /\ UNCHANGED <<relayVars, linkVars, index, seen, cut, breaks>>

Advance(h) ==
  /\ h.at = "advance"
  /\ SetSince(h.seq)
  /\ handling' = handling \ {h}
  /\ UNCHANGED <<relayVars, linkVars, index, seen, lost, cut, breaks>>

-----------------------------------------------------------------------------
(* What breaks *)

\* What a pending REQ asks for.
Requested == IF req = NoReq THEN {} ELSE Seqs(Selected(SinceFilter(req)))

\* What the connection still owes: the backfill, frames on their way and
\* announcements to come.
Undelivered ==
  Requested \cup
  {wire[i].seq : i \in DOMAIN wire}
    \cup {bcast[i].seq : i \in {j \in pos + 1 .. Len(bcast) : Wanted(bcast[j])}}
    \cup {row.seq : row \in {x \in Unannounced : Wanted(EntryOf(x))}}

CloseSocket ==
  /\ open' = FALSE /\ req' = NoReq /\ sub' = NoReq /\ wire' = <<>>
  /\ UNCHANGED pos

Break == breaks < MaxBreaks /\ breaks' = breaks + 1

\* The connection is lost.  Handlers of the frames received run on.
Disconnect ==
  /\ open
  /\ Break
  /\ CloseSocket
  /\ cut' = cut \cup Undelivered
  /\ UNCHANGED <<relayVars, gatewayVars, lost>>

\* The relay restarts: what it had stored and not announced it never announces.
RelayRestart ==
  /\ Break
  /\ silent' = silent \cup Seqs(Unannounced)
  /\ CloseSocket
  /\ cut' = cut \cup Undelivered
  /\ UNCHANGED <<storeVars, bcast, gatewayVars, lost>>

\* The gateway process stops and starts: its database is all that survives.
Crash ==
  /\ Break
  /\ CloseSocket
  /\ handling' = {}
  /\ cut' = cut \cup Undelivered \cup Seqs({h \in handling : h.at = "ingest"})
  /\ UNCHANGED <<relayVars, since, index, seen, lost>>

Relay == (\E r \in Rec : Publish(r)) \/ Announce \/ Backfill \/ BackfillFails \/ DeliverLive \/ Lag

Gateway ==
  \/ Connect \/ ReceiveFrame
  \/ \E h \in handling : Process(h) \/ ProcessFails(h) \/ Advance(h)

Next == Relay \/ Gateway \/ Disconnect \/ RelayRestart \/ Crash

Spec == Init /\ [][Next]_vars

\* The relay's task and the gateway's event loop run, and the timer that reconnects
\* fires.
Fairness ==
  /\ WF_vars(Announce) /\ WF_vars(Backfill \/ BackfillFails) /\ WF_vars(DeliverLive \/ Lag)
  /\ WF_vars(Connect) /\ WF_vars(ReceiveFrame)
  /\ \A h \in [seq : 1..MaxSeq, rec : Rec, at : {"ingest", "advance"}] :
       WF_vars(h \in handling /\ (Process(h) \/ ProcessFails(h) \/ Advance(h)))

FairSpec == Spec /\ Fairness

-----------------------------------------------------------------------------
(* Properties *)

\* Every variable has its type, a closed socket carries nothing, and everything
\* on its way to the gateway is in the relay's store.
TypeOK ==
  /\ StoreTypeOK
  /\ bcast \in Seq(Entry) /\ silent \subseteq Nat
  /\ open \in BOOLEAN /\ req \in Nat \cup {NoReq} /\ sub \in Nat \cup {NoReq}
  /\ pos \in 0..Len(bcast)
  /\ wire \in Seq(Entry) /\ handling \subseteq Handler
  /\ since \in Nat /\ index \subseteq Rec
  /\ seen \subseteq Seqs(rows) /\ lost \subseteq Nat /\ cut \subseteq Nat /\ breaks \in 0..MaxBreaks
  /\ ~open => req = NoReq /\ sub = NoReq /\ wire = <<>>
  /\ \A i \in DOMAIN wire : \E row \in rows : EntryOf(row) = wire[i]

\* The cursor never runs ahead of the relay: it is the sequence of a record the
\* relay has stored, so that no later record can fall at or below it.
CursorIsStored == since = 0 \/ \E row \in rows : row.seq = since

\* A record is indexed, or turned down, or its handler is at it.
Settled(row) == row.rec \in index \/ (row.rec \in Refused /\ row.seq \in seen)
Received(row) ==
  Settled(row) \/ \E h \in handling : h.seq = row.seq /\ h.at = "ingest"

\* Below the cursor nothing disappears without a cause: a record the relay stored at
\* or below it has been processed, is being processed or is still to be delivered,
\* unless it was lost to the limit, a failed query, a Lagged receiver or a failed
\* ingest, or a broken connection or a stop left it behind.
GapsHaveCauses ==
  \A row \in rows :
    row.seq <= since => Received(row) \/ row.seq \in Undelivered \cup lost \cup cut

\* Whatever broke before, an open connection carries everything: each stored record
\* has been processed, is being processed or will be delivered on it, unless the limit,
\* a failed query, a Lagged receiver or a failed ingest took it, or an earlier break
\* left it behind while a newer record moved the cursor past it.  A break alone, with
\* frames on the wire, handlers running or announcements due, loses nothing.
ConnectionCarriesAll ==
  open => \A row \in rows : Received(row) \/ row.seq \in Undelivered \cup lost

\* Every record the relay stores reaches the gateway in the end, through the
\* backfill or live, unless it was lost for one of those reasons: what a break leaves
\* above the cursor comes again, and nothing waits for ever.
EventuallyPassed ==
  \A r \in Rec :
    Stored(r) ~> \E row \in rows : row.rec = r /\ (Settled(row) \/ row.seq \in lost)

\* "A client that has seen up to seq = N from this relay passes since: N in its
\* next filter" (spec/006-relay.md section 2): when the gateway resumes from N, it
\* has seen what the relay stored up to N.
ResumesWhereItStopped ==
  [][Connect => \A row \in rows : row.seq <= since => row.seq \in seen]_vars

=============================================================================
