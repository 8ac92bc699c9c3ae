----------------------------- MODULE RelayPublish -----------------------------
(***************************************************************************)
(* A gateway publishing to one relay (RelayClient.publish and its outbox   *)
(* in apps/gateway/server/src/relay.ts).  RelayManager.publish gives every *)
(* relay's client the same record, and the clients share nothing.          *)
(*                                                                         *)
(* A record goes out on an open socket and its call waits for the OK that  *)
(* names the record, for as long as a timer of its own lets it; on a       *)
(* closed socket it waits in the outbox, in memory, for the next one.      *)
(* publish awaits a derivation that is ready at once, so no event of the   *)
(* socket comes between its check of the socket and its send.              *)
(***************************************************************************)
EXTENDS Naturals, Sequences, SequencesExt, FiniteSets, Functions

CONSTANTS
  Rec,
  NoCall,       \* no pending entry
  MaxPublish,   \* bound: publish calls of the gateway's routes
  MaxBreaks     \* bound: connections lost and processes stopped

VARIABLES
  open,         \* readyState is OPEN
  outbox,       \* outboxWhileDisconnected
  calls,        \* the calls of publish in their order: waiting, or what they were told
  pending,      \* record -> the call whose resolver its entry holds
  wire,         \* PUB frames the relay has not read
  answers,      \* OK frames the gateway has not read
  store,        \* the records the relay has accepted
  asked,        \* history: record -> publish calls of the routes
  sent,         \* history: record -> PUB frames written
  refused,      \* history: the records the relay turned down
  lost,         \* history: the records a broken connection or a stop took away
  breaks

callVars == <<outbox, calls, pending, asked, sent>>
relayVars == <<wire, answers, store, refused>>
vars == <<open, callVars, relayVars, lost, breaks>>

\* A call is waiting, or was told queued, accepted, refused, timeout or nothing.
Ids == DOMAIN calls

Init ==
  /\ open = FALSE /\ outbox = <<>> /\ calls = <<>>
  /\ pending = [r \in Rec |-> NoCall]
  /\ wire = <<>> /\ answers = <<>> /\ store = {}
  /\ asked = [r \in Rec |-> 0] /\ sent = [r \in Rec |-> 0]
  /\ refused = {} /\ lost = {} /\ breaks = 0

Waiting(i) == calls[i].at = "waiting"
Asked == SumFunction(asked)
Times(r, q) == Cardinality({k \in DOMAIN q : q[k] = r})

-----------------------------------------------------------------------------
(* publish *)

\* The records in q, one after the other, on an open socket: a later call of a
\* record takes the pending entry of an earlier one.
Send(q) ==
  /\ calls' = calls \o [k \in DOMAIN q |-> [rec |-> q[k], at |-> "waiting"]]
  /\ pending' = [r \in Rec |->
       IF r \in ToSet(q) THEN Len(calls) + SelectLastInSeq(q, LAMBDA x : x = r)
       ELSE pending[r]]
  /\ wire' = wire \o q
  /\ sent' = [r \in Rec |-> sent[r] + Times(r, q)]

PublishNow(r) ==
  /\ open /\ Asked < MaxPublish
  /\ Send(<<r>>)
  /\ asked' = [asked EXCEPT ![r] = @ + 1]
  /\ UNCHANGED <<open, outbox, answers, store, refused, lost, breaks>>

PublishLater(r) ==
  /\ ~open /\ Asked < MaxPublish
  /\ outbox' = Append(outbox, r)
  /\ calls' = Append(calls, [rec |-> r, at |-> "queued"])
  /\ asked' = [asked EXCEPT ![r] = @ + 1]
  /\ UNCHANGED <<open, pending, sent, relayVars, lost, breaks>>

\* Seeded defect: the outbox is copied and not emptied.
ConnectKeepingOutbox ==
  /\ ~open
  /\ open' = TRUE
  /\ Send(outbox)
  /\ UNCHANGED <<outbox, asked, answers, store, refused, lost, breaks>>

\* Seeded defect: one record is taken from the outbox.
ConnectSendingOne ==
  /\ ~open
  /\ open' = TRUE
  /\ Send(IF outbox = <<>> THEN <<>> ELSE <<Head(outbox)>>)
  /\ outbox' = <<>>
  /\ UNCHANGED <<asked, answers, store, refused, lost, breaks>>

\* The "open" event, first or after a reconnect timer: REQ, then the outbox.
Connect ==
  /\ ~open
  /\ open' = TRUE
  /\ Send(outbox)
  /\ outbox' = <<>>
  /\ UNCHANGED <<asked, answers, store, refused, lost, breaks>>

\* Seeded defect: the timer gives up only on what is still pending.
TimeoutIfPending(i) ==
  /\ Waiting(i) /\ pending[calls[i].rec] = i
  /\ calls' = [calls EXCEPT ![i].at = "timeout"]
  /\ pending' = [pending EXCEPT ![calls[i].rec] = NoCall]
  /\ UNCHANGED <<open, outbox, asked, sent, relayVars, lost, breaks>>

\* The timer of a call that waits; it deletes the entry of its record, whose ever
\* that is by now.
Timeout(i) ==
  /\ Waiting(i)
  /\ calls' = [calls EXCEPT ![i].at = "timeout"]
  /\ pending' = [pending EXCEPT ![calls[i].rec] = NoCall]
  /\ UNCHANGED <<open, outbox, asked, sent, relayVars, lost, breaks>>

Verdict(ok) == IF ok THEN "accepted" ELSE "refused"

\* Seeded defect: an OK resolves the call that has waited longest.
ReceiveOKInOrder ==
  /\ answers # <<>>
  /\ answers' = Tail(answers)
  /\ \E i \in Ids \cup {NoCall} :
       /\ IF \E j \in Ids : Waiting(j) THEN i \in Ids /\ Waiting(i) /\ \A j \in Ids : Waiting(j) => i <= j
          ELSE i = NoCall
       /\ calls' = IF i = NoCall THEN calls ELSE [calls EXCEPT ![i].at = Verdict(Head(answers).ok)]
       /\ pending' = IF i = NoCall THEN pending ELSE [pending EXCEPT ![calls[i].rec] = NoCall]
  /\ UNCHANGED <<open, outbox, asked, sent, wire, store, refused, lost, breaks>>

\* handleFrame, OK: it resolves the call its record's entry holds, if there is one.
ReceiveOK ==
  LET a == Head(answers)
      i == pending[a.rec] IN
  /\ answers # <<>>
  /\ answers' = Tail(answers)
  /\ calls' = IF i = NoCall THEN calls ELSE [calls EXCEPT ![i].at = Verdict(a.ok)]
  /\ pending' = [pending EXCEPT ![a.rec] = NoCall]
  /\ UNCHANGED <<open, outbox, asked, sent, wire, store, refused, lost, breaks>>

-----------------------------------------------------------------------------
(* The relay, as handle_pub answers *)

RelayAnswers(ok) ==
  LET r == Head(wire) IN
  /\ wire # <<>>
  /\ wire' = Tail(wire)
  /\ answers' = Append(answers, [rec |-> r, ok |-> ok])
  /\ store' = IF ok THEN store \cup {r} ELSE store
  /\ refused' = IF ok THEN refused ELSE refused \cup {r}
  /\ UNCHANGED <<open, callVars, lost, breaks>>

-----------------------------------------------------------------------------
(* What breaks *)

Break == breaks < MaxBreaks /\ breaks' = breaks + 1

\* The socket closes.  The calls that wait go on waiting for their timers.
Disconnect ==
  /\ open /\ Break
  /\ open' = FALSE /\ wire' = <<>> /\ answers' = <<>>
  /\ lost' = lost \cup ToSet(wire)
  /\ UNCHANGED <<callVars, store, refused>>

\* The process stops, by a signal or a crash: the outbox goes with it.
Stop ==
  /\ Break
  /\ open' = FALSE /\ wire' = <<>> /\ answers' = <<>>
  /\ outbox' = <<>> /\ pending' = [r \in Rec |-> NoCall]
  /\ calls' = [i \in Ids |-> IF Waiting(i) THEN [calls[i] EXCEPT !.at = "nothing"] ELSE calls[i]]
  /\ lost' = lost \cup ToSet(wire) \cup ToSet(outbox)
  /\ UNCHANGED <<asked, sent, store, refused>>

Next ==
  \/ \E r \in Rec : PublishNow(r) \/ PublishLater(r)
  \/ Connect
  \/ \E i \in Ids : Timeout(i)
  \/ ReceiveOK
  \/ \E ok \in BOOLEAN : RelayAnswers(ok)
  \/ Disconnect
  \/ Stop

Spec == Init /\ [][Next]_vars

\* The reconnect timer and a call's own timer fire; the relay answers and the
\* gateway's event loop reads.
Fairness ==
  /\ WF_vars(Connect) /\ WF_vars(ReceiveOK)
  /\ WF_vars(RelayAnswers(TRUE) \/ RelayAnswers(FALSE))
  /\ \A i \in 1..2 * MaxPublish : WF_vars(i \in Ids /\ Timeout(i))

FairSpec == Spec /\ Fairness

-----------------------------------------------------------------------------
(* Properties *)

\* A caller that is told a record was accepted is told so by the relay that has it
\* (handleFrame, publish): answers to other records, late ones and those to an
\* earlier publish of the record notwithstanding.  And however often the connection
\* comes and goes, a record is written to the wire at most once for every time it
\* was published.
PublishHolds ==
  /\ \A i \in Ids : calls[i].at = "accepted" => calls[i].rec \in store
  /\ \A r \in Rec : sent[r] + Times(r, outbox) <= asked[r]

\* Every record that is published reaches the relay's judgement in the end, by way
\* of the outbox too, unless a lost connection or a stop took it away.
ReachesTheRelay ==
  \A r \in Rec :
    (\E i \in Ids : calls[i].rec = r) ~> r \in store \cup refused \cup lost

\* Every call of publish returns, whatever becomes of the socket and of other
\* calls for the same record.
EveryCallReturns ==
  \A i \in 1..2 * MaxPublish :
    (i \in Ids /\ Waiting(i)) ~> (i \in Ids /\ ~Waiting(i))

=============================================================================
