------------------------------ MODULE Federation ------------------------------
(***************************************************************************)
(* Relays that gossip (crates/evermesh-relay/src/gossip.rs).  A link       *)
(* <<p, q>> is relay p configured with peer q: p runs a task that connects *)
(* to q's /sync as a client would, subscribes to everything, pushes what p *)
(* announces, and ingests what q sends.  At q the other end is one         *)
(* handle_socket task (sync.rs).                                           *)
(*                                                                         *)
(* Either end writes in the task that reads: while a write waits for a     *)
(* full socket the task does nothing else.  A relay is its records in      *)
(* receipt order and its broadcast channel, every task with a receiver of  *)
(* its own.  Retention, which deletes records again, is in Retention.      *)
(***************************************************************************)
EXTENDS Naturals, Sequences

CONSTANTS
  Rec,
  Relays,
  Links,          \* the peers configured: a set of <<relay, relay>>
  HomesOf,        \* record -> the relays its author publishes it to
  Req, Answer, None,  \* a REQ; an OK or EOSE, which the peer task ignores; no record
  Room,           \* frames a socket holds in one direction
  Capacity,       \* ACCEPTED_CHANNEL_CAPACITY
  BackfillLimit,  \* DEFAULT_BACKFILL_LIMIT
  MaxBreaks       \* bound: connections lost, relays restarted, calls that fail

ASSUME FederationAssumption ==
  /\ Links \subseteq {l \in Relays \X Relays : l[1] # l[2]}
  /\ HomesOf \in [Rec -> SUBSET Relays]
  /\ {Req, Answer, None} \cap Rec = {}
  /\ Req # None /\ Answer # None
  /\ Room \in Nat \ {0} /\ Capacity \in Nat \ {0}
  /\ BackfillLimit \in Nat /\ MaxBreaks \in Nat

VARIABLES
  store,        \* relay -> its records in receipt order
  announced,    \* relay -> what it has broadcast, oldest first
  pending,      \* relay -> records its own clients published, not yet announced
  peer,         \* link -> the task of gossip.rs
  socket,       \* link -> the handle_socket task at the other end
  up, down,     \* link -> frames from the peer task, frames to it
  unpushed,     \* history: link -> records its first relay will not push, with a cause
  unpulled,     \* history: link -> records its second relay will not send, with a cause
  breaks

relayVars == <<store, announced, pending>>
linkVars == <<peer, socket, up, down>>
historyVars == <<unpushed, unpulled, breaks>>
vars == <<relayVars, linkVars, historyVars>>

From(l) == l[1]
To(l) == l[2]
InSeq(s) == {s[i] : i \in DOMAIN s}
Has(p, r) == r \in InSeq(store[p])

\* A peer task: the frame it waits to write, the record it has stored and not
\* announced, and how much of the channel its receiver has consumed; before
\* `subscribe` it has none.
PeerTask == [on : BOOLEAN, out : Rec \cup {Req, None}, due : Rec \cup {None},
             listens : BOOLEAN, pos : Nat]
NoPeer == [on |-> FALSE, out |-> None, due |-> None, listens |-> FALSE, pos |-> 0]

\* A handle_socket task: the frames it waits to write one by one, the record it
\* announces after them, and its subscription.
SocketTask == [out : Seq(Rec \cup {Answer}), due : Rec \cup {None},
               subscribed : BOOLEAN, pos : Nat]
NoSocket == [out |-> <<>>, due |-> None, subscribed |-> FALSE, pos |-> 0]

TypeOK ==
  /\ store \in [Relays -> Seq(Rec)] /\ announced \in [Relays -> Seq(Rec)]
  /\ pending \in [Relays -> SUBSET Rec]
  /\ peer \in [Links -> PeerTask] /\ socket \in [Links -> SocketTask]
  /\ up \in [Links -> Seq(Rec \cup {Req})] /\ down \in [Links -> Seq(Rec \cup {Answer})]
  /\ unpushed \in [Links -> SUBSET Rec] /\ unpulled \in [Links -> SUBSET Rec]
  /\ breaks \in 0..MaxBreaks

Init ==
  /\ store = [p \in Relays |-> <<>>] /\ announced = [p \in Relays |-> <<>>]
  /\ pending = [p \in Relays |-> {}]
  /\ peer = [l \in Links |-> NoPeer] /\ socket = [l \in Links |-> NoSocket]
  /\ up = [l \in Links |-> <<>>] /\ down = [l \in Links |-> <<>>]
  /\ unpushed = [l \in Links |-> {}] /\ unpulled = [l \in Links |-> {}]
  /\ breaks = 0

\* Records stored at p that the task that stored them has still to announce.
Due(p) ==
  (pending[p] \cup {socket[l].due : l \in {k \in Links : To(k) = p}}
     \cup {peer[l].due : l \in {k \in Links : From(k) = p}}) \ {None}

\* Records p will broadcast, or has broadcast and a receiver at pos has not consumed.
Ahead(p, pos) == {announced[p][i] : i \in pos + 1 .. Len(announced[p])} \cup Due(p)

Skipped(p, pos) == {announced[p][i] : i \in pos + 1 .. Len(announced[p]) - Capacity}
Lagging(p, pos) == Len(announced[p]) - pos > Capacity

PeerSelects(l) ==
  peer[l].on /\ peer[l].out = None /\ peer[l].due = None /\ peer[l].listens
SocketSelects(l) == peer[l].on /\ socket[l].out = <<>> /\ socket[l].due = None

\* insert_record, on a thread of its own: a duplicate changes nothing.
Insert(p, r) == store' = IF Has(p, r) THEN store ELSE [store EXCEPT ![p] = Append(@, r)]

Broadcast(p, r) == announced' = [announced EXCEPT ![p] = Append(@, r)]

\* A client of p publishes a new record; its task announces it some time later.
Publish(p, r) ==
  /\ p \in HomesOf[r] /\ ~Has(p, r)
  /\ Insert(p, r)
  /\ pending' = [pending EXCEPT ![p] = @ \cup {r}]
  /\ UNCHANGED <<announced, linkVars, historyVars>>

ClientAnnounces(p, r) ==
  /\ r \in pending[p]
  /\ Broadcast(p, r)
  /\ pending' = [pending EXCEPT ![p] = @ \ {r}]
  /\ UNCHANGED <<store, linkVars, historyVars>>

-----------------------------------------------------------------------------
(* The peer task *)

\* After a second at least, when what the old tasks did is done.
Connect(l) ==
  /\ ~peer[l].on /\ peer[l].due = None /\ socket[l].due = None
  /\ peer' = [peer EXCEPT ![l] = [NoPeer EXCEPT !.on = TRUE, !.out = Req]]
  /\ socket' = [socket EXCEPT ![l] = [NoSocket EXCEPT !.pos = Len(announced[To(l)])]]
  /\ UNCHANGED <<relayVars, up, down, historyVars>>

\* A write finds room.  After the REQ the task subscribes to the channel: what
\* was announced before that is not pushed on this connection.
PeerWrites(l) ==
  /\ peer[l].on /\ peer[l].out # None /\ Len(up[l]) < Room
  /\ up' = [up EXCEPT ![l] = Append(@, peer[l].out)]
  /\ peer' = [peer EXCEPT ![l] = [peer[l] EXCEPT !.out = None, !.listens = TRUE,
       !.pos = IF peer[l].listens THEN peer[l].pos ELSE Len(announced[From(l)])]]
  /\ unpushed' = [unpushed EXCEPT ![l] =
       IF peer[l].listens THEN @ ELSE InSeq(store[From(l)]) \ Due(From(l))]
  /\ UNCHANGED <<relayVars, socket, down, unpulled, breaks>>

PeerPushes(l) ==
  LET p == From(l) IN
  /\ PeerSelects(l)
  /\ peer[l].pos < Len(announced[p]) /\ ~Lagging(p, peer[l].pos)
  /\ peer' = [peer EXCEPT ![l].pos = @ + 1, ![l].out = announced[p][peer[l].pos + 1]]
  /\ UNCHANGED <<relayVars, socket, up, down, historyVars>>

\* Seeded defect: a lagged receiver is polled again where it stands.
PeerLagsInPlace(l) ==
  /\ PeerSelects(l) /\ Lagging(From(l), peer[l].pos)
  /\ unpushed' = [unpushed EXCEPT ![l] = @ \cup Skipped(From(l), peer[l].pos)]
  /\ UNCHANGED <<relayVars, linkVars, unpulled, breaks>>

\* Seeded defect: a lagged receiver subscribes anew.
PeerLagsToTheEnd(l) ==
  /\ PeerSelects(l) /\ Lagging(From(l), peer[l].pos)
  /\ unpushed' = [unpushed EXCEPT ![l] = @ \cup Skipped(From(l), peer[l].pos)]
  /\ peer' = [peer EXCEPT ![l].pos = Len(announced[From(l)])]
  /\ UNCHANGED <<relayVars, socket, up, down, unpulled, breaks>>

\* RecvError::Lagged: the receiver stands at the oldest value still held.
PeerLags(l) ==
  /\ PeerSelects(l) /\ Lagging(From(l), peer[l].pos)
  /\ unpushed' = [unpushed EXCEPT ![l] = @ \cup Skipped(From(l), peer[l].pos)]
  /\ peer' = [peer EXCEPT ![l].pos = Len(announced[From(l)]) - Capacity]
  /\ UNCHANGED <<relayVars, socket, up, down, unpulled, breaks>>

\* Seeded defect: whatever comes from a peer is announced.
EchoWhatComes(p, r) == r

\* What the peer task will announce: not a record the relay had (loop suppression).
ToAnnounce(p, r) == IF Has(p, r) THEN None ELSE r

\* ingest_from_peer: the check of proof of work and rate is left out on purpose.
PeerReads(l) ==
  LET p == From(l) frame == Head(down[l]) IN
  /\ PeerSelects(l) /\ down[l] # <<>>
  /\ down' = [down EXCEPT ![l] = Tail(@)]
  /\ IF frame \in Rec
       THEN Insert(p, frame) /\ peer' = [peer EXCEPT ![l].due = ToAnnounce(p, frame)]
       ELSE UNCHANGED <<store, peer>>
  /\ UNCHANGED <<announced, pending, socket, up, historyVars>>

\* Then the broadcast, whether or not the connection is still there.
PeerAnnounces(l) ==
  /\ peer[l].due # None
  /\ Broadcast(From(l), peer[l].due)
  /\ peer' = [peer EXCEPT ![l].due = None]
  /\ UNCHANGED <<store, pending, socket, up, down, historyVars>>

\* The insert fails: logged, and the record is not asked for again.
IngestFails(l) ==
  LET frame == Head(down[l]) IN
  /\ PeerSelects(l) /\ down[l] # <<>> /\ frame \in Rec /\ ~Has(From(l), frame)
  /\ breaks < MaxBreaks /\ breaks' = breaks + 1
  /\ down' = [down EXCEPT ![l] = Tail(@)]
  /\ unpulled' = [unpulled EXCEPT ![l] = @ \cup {frame}]
  /\ UNCHANGED <<relayVars, peer, socket, up, unpushed>>

-----------------------------------------------------------------------------
(* The other end *)

\* handle_req: the newest rows, newest first, and EOSE.
Newest(s) ==
  LET n == IF Len(s) < BackfillLimit THEN Len(s) ELSE BackfillLimit IN
  [i \in 1..n |-> s[Len(s) + 1 - i]]

SocketAnswersReq(l, rows) ==
  /\ SocketSelects(l) /\ up[l] # <<>> /\ Head(up[l]) = Req
  /\ up' = [up EXCEPT ![l] = Tail(@)]
  /\ socket' = [socket EXCEPT ![l].out = Append(rows, Answer), ![l].subscribed = TRUE]
  /\ unpulled' = [unpulled EXCEPT ![l] =
       InSeq(store[To(l)]) \ (InSeq(rows) \cup Ahead(To(l), socket[l].pos))]
  /\ UNCHANGED <<relayVars, peer, down, unpushed>>

SocketServesReq(l) == SocketAnswersReq(l, Newest(store[To(l)])) /\ UNCHANGED breaks

\* The query fails, or its thread panics: no rows, and an EOSE as if there were none.
SocketQueryFails(l) ==
  /\ breaks < MaxBreaks /\ breaks' = breaks + 1
  /\ SocketAnswersReq(l, <<>>)

\* handle_pub: OK, and then the announcement if the record was new.
SocketServesPub(l) ==
  LET q == To(l) r == Head(up[l]) IN
  /\ SocketSelects(l) /\ up[l] # <<>> /\ r \in Rec
  /\ up' = [up EXCEPT ![l] = Tail(@)]
  /\ Insert(q, r)
  /\ socket' = [socket EXCEPT ![l].out = <<Answer>>,
                              ![l].due = IF Has(q, r) THEN None ELSE r]
  /\ UNCHANGED <<announced, pending, peer, down, historyVars>>

\* Refused for its author's rate, or for a failed insert: the peer ignores the OK.
SocketRefusesPub(l) ==
  LET r == Head(up[l]) IN
  /\ SocketSelects(l) /\ up[l] # <<>> /\ r \in Rec
  /\ breaks < MaxBreaks /\ breaks' = breaks + 1
  /\ up' = [up EXCEPT ![l] = Tail(@)]
  /\ socket' = [socket EXCEPT ![l].out = <<Answer>>]
  /\ unpushed' = [unpushed EXCEPT ![l] = @ \cup {r}]
  /\ UNCHANGED <<relayVars, peer, down, unpulled>>

SocketWrites(l) ==
  /\ peer[l].on /\ socket[l].out # <<>> /\ Len(down[l]) < Room
  /\ down' = [down EXCEPT ![l] = Append(@, Head(socket[l].out))]
  /\ socket' = [socket EXCEPT ![l].out = Tail(@)]
  /\ UNCHANGED <<relayVars, peer, up, historyVars>>

\* The connection may be gone by now: handle_pub announces all the same.
SocketAnnounces(l) ==
  /\ socket[l].out = <<>> /\ socket[l].due # None
  /\ Broadcast(To(l), socket[l].due)
  /\ socket' = [socket EXCEPT ![l].due = None]
  /\ UNCHANGED <<store, pending, peer, up, down, historyVars>>

\* deliver_live: the peer that pushed a record gets it back.
SocketDelivers(l) ==
  LET q == To(l) IN
  /\ SocketSelects(l)
  /\ socket[l].pos < Len(announced[q]) /\ ~Lagging(q, socket[l].pos)
  /\ socket' = [socket EXCEPT ![l].pos = @ + 1,
       ![l].out = IF socket[l].subscribed THEN <<announced[q][socket[l].pos + 1]>> ELSE <<>>]
  /\ UNCHANGED <<relayVars, peer, up, down, historyVars>>

SocketLags(l) ==
  /\ SocketSelects(l) /\ Lagging(To(l), socket[l].pos)
  /\ unpulled' = [unpulled EXCEPT ![l] = @ \cup Skipped(To(l), socket[l].pos)]
  /\ socket' = [socket EXCEPT ![l].pos = Len(announced[To(l)]) - Capacity]
  /\ UNCHANGED <<relayVars, peer, up, down, unpushed, breaks>>

-----------------------------------------------------------------------------
(* What breaks *)

\* Frames on their way are lost; both tasks end, after the announcement they owe.
Break(l) ==
  /\ peer[l].on /\ breaks < MaxBreaks
  /\ breaks' = breaks + 1
  /\ peer' = [peer EXCEPT ![l] = [NoPeer EXCEPT !.due = peer[l].due]]
  /\ socket' = [socket EXCEPT ![l] = [NoSocket EXCEPT !.due = socket[l].due]]
  /\ up' = [up EXCEPT ![l] = <<>>] /\ down' = [down EXCEPT ![l] = <<>>]
  /\ UNCHANGED <<relayVars, unpushed, unpulled>>

\* The relay's process stops: announcements that were due are never made.
Restart(p) ==
  LET mine == {l \in Links : p \in {From(l), To(l)}} IN
  /\ breaks < MaxBreaks
  /\ breaks' = breaks + 1
  /\ pending' = [pending EXCEPT ![p] = {}]
  /\ peer' = [l \in Links |->
       IF l \notin mine THEN peer[l]
       ELSE [NoPeer EXCEPT !.due = IF From(l) = p THEN None ELSE peer[l].due]]
  /\ socket' = [l \in Links |->
       IF l \notin mine THEN socket[l]
       ELSE [NoSocket EXCEPT !.due = IF To(l) = p THEN None ELSE socket[l].due]]
  /\ up' = [l \in Links |-> IF l \in mine THEN <<>> ELSE up[l]]
  /\ down' = [l \in Links |-> IF l \in mine THEN <<>> ELSE down[l]]
  /\ UNCHANGED <<store, announced, unpushed, unpulled>>

PeerStep(l) ==
  \/ Connect(l) \/ PeerWrites(l) \/ PeerPushes(l) \/ PeerLags(l)
  \/ PeerReads(l) \/ PeerAnnounces(l)

SocketStep(l) ==
  \/ SocketServesReq(l) \/ SocketServesPub(l) \/ SocketWrites(l)
  \/ SocketAnnounces(l) \/ SocketDelivers(l) \/ SocketLags(l)

Next ==
  \/ \E p \in Relays, r \in Rec : Publish(p, r) \/ ClientAnnounces(p, r)
  \/ \E l \in Links : PeerStep(l) \/ SocketStep(l)
  \/ \E l \in Links : IngestFails(l) \/ SocketQueryFails(l) \/ SocketRefusesPub(l) \/ Break(l)
  \/ \E p \in Relays : Restart(p)

\* Every task that can run runs again, and a disconnected one reconnects.
Fairness ==
  /\ \A l \in Links : WF_vars(PeerStep(l)) /\ WF_vars(SocketStep(l))
  /\ \A p \in Relays, r \in Rec : WF_vars(ClientAnnounces(p, r))

Spec == Init /\ [][Next]_vars /\ Fairness

-----------------------------------------------------------------------------
(* Properties *)

\* The peer task waits to write while the socket's task waits to write to it,
\* and neither reads: nothing but a broken connection ends this.
Wedged(l) ==
  /\ peer[l].on /\ peer[l].out # None /\ Len(up[l]) = Room
  /\ socket[l].out # <<>> /\ Len(down[l]) = Room

\* The link has nothing left to do.
Settled(l) ==
  /\ peer[l].on /\ peer[l].listens /\ socket[l].subscribed
  /\ peer[l].out = None /\ socket[l].out = <<>> /\ Due(From(l)) = {} /\ Due(To(l)) = {}
  /\ up[l] = <<>> /\ down[l] = <<>>
  /\ peer[l].pos = Len(announced[From(l)]) /\ socket[l].pos = Len(announced[To(l)])

\* A record that a relay holds and its peer does not is on its way over the
\* link, or the link will not carry it for a cause the code has: accepted
\* before the subscription, older than the backfill goes, in a backfill whose
\* query failed (the peer sees an EOSE like any other), skipped by a lagging
\* receiver, or refused by an insert or a limit at the receiving end.  In both
\* directions, while the link is up.
NothingLostSilently ==
  \A l \in Links :
    /\ peer[l].on /\ peer[l].listens =>
         InSeq(store[From(l)]) \subseteq
           InSeq(store[To(l)]) \cup Ahead(From(l), peer[l].pos)
             \cup {peer[l].out} \cup InSeq(up[l]) \cup unpushed[l]
    /\ peer[l].on /\ socket[l].subscribed =>
         InSeq(store[To(l)]) \subseteq
           InSeq(store[From(l)]) \cup Ahead(To(l), socket[l].pos)
             \cup InSeq(socket[l].out) \cup InSeq(down[l]) \cup unpulled[l]

\* Loop suppression: whatever the topology, a relay announces a record once,
\* and only after it holds it.
CyclesAreHarmless ==
  \A p \in Relays :
    /\ InSeq(announced[p]) \subseteq InSeq(store[p])
    /\ \A i, j \in DOMAIN announced[p] : announced[p][i] = announced[p][j] => i = j

\* Once nothing breaks any more gossip comes to rest: every link has carried
\* what it will carry, or both of its ends wait for the other to read.
GossipSettles == <>[](\A l \in Links : Settled(l) \/ Wedged(l))

=============================================================================
