-------------------------- MODULE Federation_proofs ---------------------------
(***************************************************************************)
(* Theorems about Federation, for any relays, any links between them (rings *)
(* included), any records and any capacities.                              *)
(***************************************************************************)
EXTENDS Federation, SequenceTheorems, TLAPS

USE FederationAssumption

\* Reading and writing one frame of a socket.
LEMMA ReadOne ==
  ASSUME NEW S, NEW s \in Seq(S), s # <<>>
  PROVE  Head(s) \in S /\ Tail(s) \in Seq(S) /\ InSeq(s) = {Head(s)} \cup InSeq(Tail(s))
<1>1. Head(s) \in S /\ Tail(s) \in Seq(S) /\ Len(Tail(s)) = Len(s) - 1 /\ Len(s) \in Nat \ {0}
      /\ \A i \in 1 .. Len(Tail(s)) : Tail(s)[i] = s[i + 1]
  BY HeadTailProperties, EmptySeq
<1>2. Head(s) = s[1] /\ DOMAIN s = 1 .. Len(s) /\ DOMAIN Tail(s) = 1 .. Len(s) - 1
  BY <1>1
<1>3. ASSUME NEW i \in DOMAIN s PROVE s[i] = Head(s) \/ s[i] \in InSeq(Tail(s))
  <2>1. CASE i = 1
    BY <1>2, <2>1
  <2>2. CASE i # 1
    <3>1. i - 1 \in DOMAIN Tail(s) /\ Tail(s)[i - 1] = s[i]
      BY <1>1, <1>2, <2>2
    <3> QED
      BY <3>1 DEF InSeq
  <2> QED
    BY <2>1, <2>2
<1>4. ASSUME NEW i \in DOMAIN Tail(s) PROVE Tail(s)[i] \in InSeq(s)
  <2>1. i + 1 \in DOMAIN s /\ Tail(s)[i] = s[i + 1]
    BY <1>1, <1>2
  <2> QED
    BY <2>1 DEF InSeq
<1>5. Head(s) \in InSeq(s)
  BY <1>1, <1>2 DEF InSeq
<1> QED
  BY <1>1, <1>3, <1>4, <1>5 DEF InSeq

LEMMA WriteOne ==
  ASSUME NEW S, NEW s \in Seq(S), NEW e \in S
  PROVE  Append(s, e) \in Seq(S) /\ InSeq(Append(s, e)) = InSeq(s) \cup {e}
         /\ Len(Append(s, e)) = Len(s) + 1
<1>1. Append(s, e) \in Seq(S) /\ Len(Append(s, e)) = Len(s) + 1
      /\ \A i \in 1 .. Len(s) : Append(s, e)[i] = s[i]
      /\ Append(s, e)[Len(s) + 1] = e
  BY AppendProperties
<1>2. DOMAIN s = 1 .. Len(s) /\ DOMAIN Append(s, e) = 1 .. Len(s) + 1 /\ Len(s) \in Nat
  BY <1>1
<1> QED
  BY <1>1, <1>2 DEF InSeq

\* What a subscription is answered with.
LEMMA NewestTyped ==
  ASSUME NEW s \in Seq(Rec)
  PROVE  Newest(s) \in Seq(Rec) /\ InSeq(Newest(s)) \subseteq InSeq(s)
<1> DEFINE n == IF Len(s) < BackfillLimit THEN Len(s) ELSE BackfillLimit
<1>1. n \in Nat /\ n <= Len(s) /\ DOMAIN s = 1 .. Len(s)
  OBVIOUS
<1>2. \A i \in 1 .. n : Len(s) + 1 - i \in 1 .. Len(s)
  BY <1>1
<1>3. Newest(s) = [i \in 1 .. n |-> s[Len(s) + 1 - i]]
  BY DEF Newest
<1> HIDE DEF n
<1>4. \A i \in 1 .. n : s[Len(s) + 1 - i] \in Rec /\ s[Len(s) + 1 - i] \in InSeq(s)
  BY <1>1, <1>2 DEF InSeq
<1>5. Newest(s) \in Seq(Rec)
  BY <1>1, <1>3, <1>4, IsASeq
<1> QED
  BY <1>3, <1>4, <1>5 DEF InSeq

LEMMA InSeqTyped == ASSUME NEW S, NEW s \in Seq(S) PROVE InSeq(s) \subseteq S
BY DEF InSeq

LEMMA SkippedTyped ==
  ASSUME NEW p \in Relays, announced[p] \in Seq(Rec), NEW pos \in Nat
  PROVE  Skipped(p, pos) \subseteq Rec
<1>1. \A i \in pos + 1 .. Len(announced[p]) - Capacity : i \in 1 .. Len(announced[p])
  OBVIOUS
<1> QED
  BY <1>1, ElementOfSeq DEF Skipped

-----------------------------------------------------------------------------
(* Types *)

\* A REQ is answered with rows, whatever became of the query.
ReqAnswered(l) == SocketServesReq(l) \/ SocketQueryFails(l)

LEMMA RowsAnswered ==
  ASSUME NEW l \in Links, ReqAnswered(l), store[To(l)] \in Seq(Rec), breaks \in 0..MaxBreaks
  PROVE  \E rows \in Seq(Rec) : SocketAnswersReq(l, rows) /\ breaks' \in 0..MaxBreaks
<1>1. CASE SocketServesReq(l)
  BY <1>1, NewestTyped DEF SocketServesReq
<1>2. CASE SocketQueryFails(l)
  <2>1. <<>> \in Seq(Rec) /\ breaks' \in 0..MaxBreaks
    BY <1>2 DEF SocketQueryFails
  <2> QED
    BY <1>2, <2>1 DEF SocketQueryFails
<1> QED
  BY <1>1, <1>2 DEF ReqAnswered

LEMMA PlainTasks ==
  /\ NoPeer \in PeerTask /\ NoSocket \in SocketTask
  /\ \A d \in Rec \cup {None} : [NoPeer EXCEPT !.due = d] \in PeerTask
                                /\ [NoSocket EXCEPT !.due = d] \in SocketTask
  /\ \A n \in Nat : [NoSocket EXCEPT !.pos = n] \in SocketTask
  /\ [NoPeer EXCEPT !.on = TRUE, !.out = Req] \in PeerTask
<1>1. <<>> \in Seq(Rec \cup {Answer})
  OBVIOUS
<1>2. NoPeer \in PeerTask /\ NoSocket \in SocketTask
  BY <1>1 DEF NoPeer, NoSocket, PeerTask, SocketTask
<1>3. \A d \in Rec \cup {None} : [NoPeer EXCEPT !.due = d] \in PeerTask
                                /\ [NoSocket EXCEPT !.due = d] \in SocketTask
  BY <1>2 DEF PeerTask, SocketTask
<1>4. \A n \in Nat : [NoSocket EXCEPT !.pos = n] \in SocketTask
  BY <1>2 DEF SocketTask
<1>5. [NoPeer EXCEPT !.on = TRUE, !.out = Req] \in PeerTask
  <2>1. \A c \in PeerTask : [c EXCEPT !.on = TRUE, !.out = Req] \in PeerTask
    BY DEF PeerTask
  <2> QED
    BY <1>2, <2>1
<1> QED
  BY <1>2, <1>3, <1>4, <1>5

LEMMA TypeStep ==
  ASSUME TypeOK, Next
  PROVE  TypeOK'
<1> USE DEF relayVars, linkVars, historyVars
<1>0. ASSUME NEW l \in Links
      PROVE  /\ From(l) \in Relays /\ To(l) \in Relays
             /\ peer[l] \in PeerTask /\ socket[l] \in SocketTask
             /\ up[l] \in Seq(Rec \cup {Req}) /\ down[l] \in Seq(Rec \cup {Answer})
             /\ store[From(l)] \in Seq(Rec) /\ store[To(l)] \in Seq(Rec)
             /\ announced[From(l)] \in Seq(Rec) /\ announced[To(l)] \in Seq(Rec)
             /\ Len(announced[From(l)]) \in Nat /\ Len(announced[To(l)]) \in Nat
             /\ peer[l].pos \in Nat /\ socket[l].pos \in Nat
             /\ socket[l].out \in Seq(Rec \cup {Answer})
             /\ peer[l].due \in Rec \cup {None} /\ socket[l].due \in Rec \cup {None}
  BY DEF TypeOK, From, To, PeerTask, SocketTask
<1>a. ASSUME NEW p \in Relays, NEW r \in Rec, Insert(p, r)
      PROVE  store' \in [Relays -> Seq(Rec)]
  BY <1>a, WriteOne DEF Insert, TypeOK
<1>b. ASSUME NEW p \in Relays, NEW r \in Rec, Broadcast(p, r)
      PROVE  announced' \in [Relays -> Seq(Rec)]
  BY <1>b, WriteOne DEF Broadcast, TypeOK
<1>1. ASSUME NEW p \in Relays, NEW r \in Rec, Publish(p, r) PROVE TypeOK'
  BY <1>1, <1>a DEF Publish, TypeOK
<1>2. ASSUME NEW p \in Relays, NEW r \in Rec, ClientAnnounces(p, r) PROVE TypeOK'
  BY <1>2, <1>b DEF ClientAnnounces, TypeOK
<1>3. ASSUME NEW l \in Links, Connect(l) PROVE TypeOK'
  BY <1>0, <1>3, PlainTasks DEF Connect, TypeOK
<1>4. ASSUME NEW l \in Links, PeerWrites(l) PROVE TypeOK'
  <2> DEFINE n == IF peer[l].listens THEN peer[l].pos ELSE Len(announced[From(l)])
             c == [peer[l] EXCEPT !.out = None, !.listens = TRUE, !.pos = n]
  <2>1. n \in Nat
    BY <1>0
  <2>2. c \in PeerTask
    <3>1. \A x \in PeerTask, k \in Nat :
            [x EXCEPT !.out = None, !.listens = TRUE, !.pos = k] \in PeerTask
      BY DEF PeerTask
    <3> QED
      BY <1>0, <2>1, <3>1
  <2>3. peer' = [peer EXCEPT ![l] = c]
    BY <1>4 DEF PeerWrites
  <2>4. peer[l].out \in Rec \cup {Req}
    BY <1>0, <1>4 DEF PeerWrites, PeerTask
  <2>5. up' \in [Links -> Seq(Rec \cup {Req})]
    BY <1>0, <1>4, <2>4, WriteOne DEF PeerWrites, TypeOK
  <2>6. unpushed' \in [Links -> SUBSET Rec]
    <3>1. InSeq(store[From(l)]) \subseteq Rec
      BY <1>0, InSeqTyped
    <3> QED
      BY <1>4, <3>1 DEF PeerWrites, TypeOK
  <2>7. UNCHANGED <<store, announced, pending, socket, down, unpulled, breaks>>
    BY <1>4 DEF PeerWrites
  <2>8. peer' \in [Links -> PeerTask]
    BY <2>2, <2>3 DEF TypeOK
  <2> HIDE DEF c, n
  <2> QED
    BY <2>5, <2>6, <2>7, <2>8 DEF TypeOK
<1>5. ASSUME NEW l \in Links, PeerPushes(l) PROVE TypeOK'
  <2>1. peer[l].pos + 1 \in 1 .. Len(announced[From(l)])
    BY <1>0, <1>5 DEF PeerPushes
  <2>2. announced[From(l)][peer[l].pos + 1] \in Rec
    BY <1>0, <2>1, ElementOfSeq
  <2>3. peer' \in [Links -> PeerTask]
    <3> DEFINE r == announced[From(l)][peer[l].pos + 1]
               c == [peer[l] EXCEPT !.pos = peer[l].pos + 1, !.out = r]
    <3>1. \A x \in PeerTask, k \in Nat, e \in Rec : [x EXCEPT !.pos = k, !.out = e] \in PeerTask
      BY DEF PeerTask
    <3>2. c \in PeerTask
      <4>1. peer[l].pos + 1 \in Nat /\ r \in Rec
        BY <1>0, <2>2
      <4> HIDE DEF r
      <4> QED
        BY <1>0, <3>1, <4>1
    <3>3. peer' = [peer EXCEPT ![l] = c]
      BY <1>5, <1>0 DEF PeerPushes, TypeOK, PeerTask
    <3> HIDE DEF c
    <3> QED
      BY <3>2, <3>3 DEF TypeOK
  <2> QED
    BY <1>5, <2>3 DEF PeerPushes, TypeOK
<1>6. ASSUME NEW l \in Links, PeerLags(l) PROVE TypeOK'
  <2>0. Skipped(From(l), peer[l].pos) \subseteq Rec
    BY <1>0, SkippedTyped
  <2>1. Skipped(From(l), peer[l].pos) \subseteq Rec
        /\ Len(announced[From(l)]) - Capacity \in Nat
    <3>1. Len(announced[From(l)]) - peer[l].pos > Capacity
      BY <1>6 DEF PeerLags, Lagging
    <3>2. Len(announced[From(l)]) \in Nat /\ peer[l].pos \in Nat
      BY <1>0
    <3> QED
      BY <2>0, <3>1, <3>2
  <2>2. peer' \in [Links -> PeerTask]
    <3>1. \A x \in PeerTask, k \in Nat : [x EXCEPT !.pos = k] \in PeerTask
      BY DEF PeerTask
    <3> QED
      BY <1>0, <1>6, <2>1, <3>1 DEF PeerLags, TypeOK
  <2> QED
    BY <1>6, <2>1, <2>2 DEF PeerLags, TypeOK
<1>7. ASSUME NEW l \in Links, PeerReads(l) PROVE TypeOK'
  <2>1. Head(down[l]) \in Rec \cup {Answer} /\ Tail(down[l]) \in Seq(Rec \cup {Answer})
    BY <1>0, <1>7, ReadOne DEF PeerReads
  <2>2. store' \in [Relays -> Seq(Rec)] /\ peer' \in [Links -> PeerTask]
    <3>1. CASE Head(down[l]) \in Rec
      <4>1. \A x \in PeerTask, d \in Rec \cup {None} : [x EXCEPT !.due = d] \in PeerTask
        BY DEF PeerTask
      <4>2. ToAnnounce(From(l), Head(down[l])) \in Rec \cup {None}
        BY <3>1 DEF ToAnnounce
      <4> DEFINE d == ToAnnounce(From(l), Head(down[l]))
      <4>3. Insert(From(l), Head(down[l])) /\ peer' = [peer EXCEPT ![l].due = d]
        BY <1>7, <3>1 DEF PeerReads
      <4>4. [peer[l] EXCEPT !.due = d] \in PeerTask
        BY <1>0, <4>1, <4>2
      <4> HIDE DEF d
      <4>5. peer' \in [Links -> PeerTask]
        BY <4>3, <4>4 DEF TypeOK
      <4> QED
        BY <1>0, <1>a, <3>1, <4>3, <4>5
    <3>2. CASE Head(down[l]) \notin Rec
      BY <1>7, <3>2 DEF PeerReads, TypeOK
    <3> QED
      BY <3>1, <3>2
  <2> QED
    BY <1>7, <2>1, <2>2 DEF PeerReads, TypeOK
<1>8. ASSUME NEW l \in Links, PeerAnnounces(l) PROVE TypeOK'
  <2>1. peer' \in [Links -> PeerTask]
    <3>1. \A x \in PeerTask : [x EXCEPT !.due = None] \in PeerTask
      BY DEF PeerTask
    <3> QED
      BY <1>0, <1>8, <3>1 DEF PeerAnnounces, TypeOK
  <2> QED
    BY <1>0, <1>8, <1>b, <2>1 DEF PeerAnnounces, TypeOK
<1>9. ASSUME NEW l \in Links, IngestFails(l) PROVE TypeOK'
  <2>1. Tail(down[l]) \in Seq(Rec \cup {Answer})
    BY <1>0, <1>9, ReadOne DEF IngestFails
  <2> QED
    <3>1. /\ down' = [down EXCEPT ![l] = Tail(down[l])]
          /\ unpulled' = [unpulled EXCEPT ![l] = @ \cup {Head(down[l])}] /\ Head(down[l]) \in Rec
          /\ breaks < MaxBreaks /\ breaks' = breaks + 1
          /\ UNCHANGED <<relayVars, peer, socket, up, unpushed>>
      BY <1>9 DEF IngestFails
    <3>2. down' \in [Links -> Seq(Rec \cup {Answer})]
      BY <2>1, <3>1 DEF TypeOK
    <3>3. unpulled' \in [Links -> SUBSET Rec] /\ breaks' \in 0..MaxBreaks
      BY <3>1 DEF TypeOK
    <3> QED
      BY <3>1, <3>2, <3>3 DEF TypeOK, relayVars
<1>10. ASSUME NEW l \in Links, ReqAnswered(l) PROVE TypeOK'
  <2>0. PICK rows \in Seq(Rec) : SocketAnswersReq(l, rows) /\ breaks' \in 0..MaxBreaks
    BY <1>0, <1>10, RowsAnswered DEF TypeOK
  <2> DEFINE c == [socket[l] EXCEPT !.out = Append(rows, Answer), !.subscribed = TRUE]
  <2>1. Append(rows, Answer) \in Seq(Rec \cup {Answer})
    BY SeqMonotonic, WriteOne
  <2>2. c \in SocketTask
    <3>1. \A x \in SocketTask, q \in Seq(Rec \cup {Answer}) :
            [x EXCEPT !.out = q, !.subscribed = TRUE] \in SocketTask
      BY DEF SocketTask
    <3> QED
      BY <1>0, <2>1, <3>1
  <2>3. socket' = [socket EXCEPT ![l] = c]
    BY <2>0, <1>0 DEF SocketAnswersReq, TypeOK, SocketTask
  <2>4. Tail(up[l]) \in Seq(Rec \cup {Req})
    BY <1>0, <2>0, ReadOne DEF SocketAnswersReq
  <2>5. InSeq(store[To(l)]) \subseteq Rec
    BY <1>0, InSeqTyped
  <2>6. unpulled' \in [Links -> SUBSET Rec]
    BY <2>0, <2>5 DEF SocketAnswersReq, TypeOK
  <2> HIDE DEF c
  <2>7. socket' \in [Links -> SocketTask]
    BY <2>2, <2>3 DEF TypeOK
  <2> QED
    BY <2>0, <2>4, <2>6, <2>7 DEF SocketAnswersReq, TypeOK
<1>11. ASSUME NEW l \in Links, SocketServesPub(l) \/ SocketRefusesPub(l) PROVE TypeOK'
  <2>1. Head(up[l]) \in Rec /\ Tail(up[l]) \in Seq(Rec \cup {Req})
    BY <1>0, <1>11, ReadOne DEF SocketServesPub, SocketRefusesPub
  <2>2. <<Answer>> \in Seq(Rec \cup {Answer})
    OBVIOUS
  <2>3. CASE SocketServesPub(l)
    <3> DEFINE d == IF Has(To(l), Head(up[l])) THEN None ELSE Head(up[l])
               c == [socket[l] EXCEPT !.out = <<Answer>>, !.due = d]
    <3>1. c \in SocketTask
      <4>1. \A x \in SocketTask, q \in Seq(Rec \cup {Answer}), e \in Rec \cup {None} :
              [x EXCEPT !.out = q, !.due = e] \in SocketTask
        BY DEF SocketTask
      <4>2. d \in Rec \cup {None}
        BY <2>1
      <4> QED
        BY <1>0, <2>2, <4>1, <4>2
    <3>2. socket' = [socket EXCEPT ![l] = c]
      BY <2>3, <1>0 DEF SocketServesPub, TypeOK, SocketTask
    <3> HIDE DEF c
    <3>3. socket' \in [Links -> SocketTask]
      BY <3>1, <3>2 DEF TypeOK
    <3>4. store' \in [Relays -> Seq(Rec)]
      BY <1>0, <1>a, <2>1, <2>3 DEF SocketServesPub
    <3> QED
      BY <2>1, <2>3, <3>3, <3>4 DEF SocketServesPub, TypeOK
  <2>4. CASE SocketRefusesPub(l)
    <3>1. socket' \in [Links -> SocketTask]
      <4>1. \A x \in SocketTask, q \in Seq(Rec \cup {Answer}) : [x EXCEPT !.out = q] \in SocketTask
        BY DEF SocketTask
      <4> QED
        BY <1>0, <2>2, <2>4, <4>1 DEF SocketRefusesPub, TypeOK
    <3>2. unpushed' \in [Links -> SUBSET Rec]
      BY <2>1, <2>4 DEF SocketRefusesPub, TypeOK
    <3>3. breaks' \in 0 .. MaxBreaks
      BY <2>4 DEF SocketRefusesPub, TypeOK
    <3>4. up' \in [Links -> Seq(Rec \cup {Req})]
      BY <2>1, <2>4 DEF SocketRefusesPub, TypeOK
    <3>5. UNCHANGED <<store, announced, pending, peer, down, unpulled>>
      BY <2>4 DEF SocketRefusesPub
    <3> QED
      BY <3>1, <3>2, <3>3, <3>4, <3>5 DEF TypeOK
  <2> QED
    BY <1>11, <2>3, <2>4
<1>12. ASSUME NEW l \in Links, SocketWrites(l) PROVE TypeOK'
  <2>1. Head(socket[l].out) \in Rec \cup {Answer} /\ Tail(socket[l].out) \in Seq(Rec \cup {Answer})
    BY <1>0, <1>12, ReadOne DEF SocketWrites
  <2>2. down' \in [Links -> Seq(Rec \cup {Answer})]
    BY <1>0, <1>12, <2>1, WriteOne DEF SocketWrites, TypeOK
  <2>3. socket' \in [Links -> SocketTask]
    <3>1. \A x \in SocketTask, q \in Seq(Rec \cup {Answer}) : [x EXCEPT !.out = q] \in SocketTask
      BY DEF SocketTask
    <3>2. socket' = [socket EXCEPT ![l] = [socket[l] EXCEPT !.out = Tail(socket[l].out)]]
      BY <1>12, <1>0 DEF SocketWrites, TypeOK, SocketTask
    <3> QED
      BY <1>0, <2>1, <3>1, <3>2 DEF TypeOK
  <2> QED
    BY <1>12, <2>2, <2>3 DEF SocketWrites, TypeOK
<1>13. ASSUME NEW l \in Links, SocketAnnounces(l) PROVE TypeOK'
  <2>1. socket' \in [Links -> SocketTask]
    <3>1. \A x \in SocketTask : [x EXCEPT !.due = None] \in SocketTask
      BY DEF SocketTask
    <3> QED
      BY <1>0, <1>13, <3>1 DEF SocketAnnounces, TypeOK
  <2> QED
    BY <1>0, <1>13, <1>b, <2>1 DEF SocketAnnounces, TypeOK
<1>14. ASSUME NEW l \in Links, SocketDelivers(l) PROVE TypeOK'
  <2> DEFINE r == announced[To(l)][socket[l].pos + 1]
             q == IF socket[l].subscribed THEN <<r>> ELSE <<>>
             c == [socket[l] EXCEPT !.pos = socket[l].pos + 1, !.out = q]
  <2>1. socket[l].pos + 1 \in 1 .. Len(announced[To(l)])
    BY <1>0, <1>14 DEF SocketDelivers
  <2>2. r \in Rec
    BY <1>0, <2>1, ElementOfSeq
  <2>3. q \in Seq(Rec \cup {Answer})
    BY <2>2
  <2>4. c \in SocketTask
    <3>1. \A x \in SocketTask, k \in Nat, s \in Seq(Rec \cup {Answer}) :
            [x EXCEPT !.pos = k, !.out = s] \in SocketTask
      BY DEF SocketTask
    <3>2. socket[l].pos + 1 \in Nat
      BY <1>0
    <3> HIDE DEF q
    <3> QED
      BY <1>0, <2>3, <3>1, <3>2
  <2>5. socket' = [socket EXCEPT ![l] = c]
    BY <1>14, <1>0 DEF SocketDelivers, TypeOK, SocketTask
  <2> HIDE DEF c
  <2>6. socket' \in [Links -> SocketTask]
    BY <2>4, <2>5 DEF TypeOK
  <2> QED
    BY <1>14, <2>6 DEF SocketDelivers, TypeOK
<1>15. ASSUME NEW l \in Links, SocketLags(l) PROVE TypeOK'
  <2>0. Skipped(To(l), socket[l].pos) \subseteq Rec
    BY <1>0, SkippedTyped
  <2>1. Skipped(To(l), socket[l].pos) \subseteq Rec
        /\ Len(announced[To(l)]) - Capacity \in Nat
    <3>1. Len(announced[To(l)]) - socket[l].pos > Capacity
      BY <1>15 DEF SocketLags, Lagging
    <3>2. Len(announced[To(l)]) \in Nat /\ socket[l].pos \in Nat
      BY <1>0
    <3> QED
      BY <2>0, <3>1, <3>2
  <2>2. socket' \in [Links -> SocketTask]
    <3>1. \A x \in SocketTask, k \in Nat : [x EXCEPT !.pos = k] \in SocketTask
      BY DEF SocketTask
    <3> QED
      BY <1>0, <1>15, <2>1, <3>1 DEF SocketLags, TypeOK
  <2> QED
    BY <1>15, <2>1, <2>2 DEF SocketLags, TypeOK
<1>16. ASSUME NEW l \in Links, Break(l) PROVE TypeOK'
  <2>1. peer' = [peer EXCEPT ![l] = [NoPeer EXCEPT !.due = peer[l].due]]
        /\ socket' = [socket EXCEPT ![l] = [NoSocket EXCEPT !.due = socket[l].due]]
    BY <1>16 DEF Break
  <2>2. [NoPeer EXCEPT !.due = peer[l].due] \in PeerTask
        /\ [NoSocket EXCEPT !.due = socket[l].due] \in SocketTask
    BY <1>0, PlainTasks
  <2>3. peer' \in [Links -> PeerTask] /\ socket' \in [Links -> SocketTask]
    BY <2>1, <2>2 DEF TypeOK
  <2>4. up' \in [Links -> Seq(Rec \cup {Req})] /\ down' \in [Links -> Seq(Rec \cup {Answer})]
    <3>1. up' = [up EXCEPT ![l] = <<>>] /\ down' = [down EXCEPT ![l] = <<>>]
      BY <1>16 DEF Break
    <3>2. <<>> \in Seq(Rec \cup {Req}) /\ <<>> \in Seq(Rec \cup {Answer})
      OBVIOUS
    <3> QED
      BY <3>1, <3>2 DEF TypeOK
  <2>5. breaks' \in 0 .. MaxBreaks
    BY <1>16 DEF Break, TypeOK
  <2> QED
    BY <1>16, <2>3, <2>4, <2>5 DEF Break, TypeOK
<1>17. ASSUME NEW p \in Relays, Restart(p) PROVE TypeOK'
  <2>1. ASSUME NEW l \in Links PROVE peer'[l] \in PeerTask /\ socket'[l] \in SocketTask
    <3> DEFINE c == [NoPeer EXCEPT !.due = IF From(l) = p THEN None ELSE peer[l].due]
               d == [NoSocket EXCEPT !.due = IF To(l) = p THEN None ELSE socket[l].due]
    <3>1. c \in PeerTask /\ d \in SocketTask
      BY <1>0, PlainTasks
    <3>2. peer'[l] \in {c, peer[l]} /\ socket'[l] \in {d, socket[l]}
      BY <1>17 DEF Restart
    <3> HIDE DEF c, d
    <3> QED
      BY <1>0, <3>1, <3>2
  <2>2. peer' \in [Links -> PeerTask] /\ socket' \in [Links -> SocketTask]
    BY <1>17, <2>1 DEF Restart
  <2>3. up' \in [Links -> Seq(Rec \cup {Req})] /\ down' \in [Links -> Seq(Rec \cup {Answer})]
    BY <1>0, <1>17 DEF Restart
  <2>4. pending' \in [Relays -> SUBSET Rec] /\ breaks' \in 0 .. MaxBreaks
    BY <1>17 DEF Restart, TypeOK
  <2> QED
    BY <1>17, <2>2, <2>3, <2>4 DEF Restart, TypeOK
<1> QED
  BY <1>1, <1>2, <1>3, <1>4, <1>5, <1>6, <1>7, <1>8, <1>9, <1>10, <1>11, <1>12, <1>13,
     <1>14, <1>15, <1>16, <1>17 DEF Next, PeerStep, SocketStep, ReqAnswered

\* Every variable of the relays and their links keeps its type.
THEOREM TypeCorrect == Spec => []TypeOK
<1>1. Init => TypeOK
  BY PlainTasks DEF Init, TypeOK
<1>2. TypeOK /\ UNCHANGED vars => TypeOK'
  BY DEF TypeOK, vars, relayVars, linkVars, historyVars
<1> QED
  BY <1>1, <1>2, TypeStep, PTL DEF Spec

-----------------------------------------------------------------------------
(* A record is announced once *)

New(p, r) == r \in InSeq(store[p]) /\ r \notin InSeq(announced[p])

AnnouncedApart ==
  \A p \in Relays :
    /\ InSeq(announced[p]) \subseteq InSeq(store[p])
    /\ \A i, j \in DOMAIN announced[p] : announced[p][i] = announced[p][j] => i = j

\* What is owed to the subscribers of a relay is stored and not announced, and one
\* task owes it: a client's, a peer's or a socket's.
OwedOnce ==
  /\ \A p \in Relays : \A r \in pending[p] : New(p, r)
  /\ \A l \in Links : peer[l].due # None =>
       New(From(l), peer[l].due) /\ peer[l].due \notin pending[From(l)]
  /\ \A l \in Links : socket[l].due # None =>
       New(To(l), socket[l].due) /\ socket[l].due \notin pending[To(l)]
  /\ \A l, k \in Links : From(l) = From(k) /\ peer[l].due # None /\ peer[l].due = peer[k].due => l = k
  /\ \A l, k \in Links : To(l) = To(k) /\ socket[l].due # None /\ socket[l].due = socket[k].due => l = k
  /\ \A l, k \in Links : From(l) = To(k) /\ peer[l].due # None => peer[l].due # socket[k].due

Once == AnnouncedApart /\ OwedOnce

LEMMA InsertAdds ==
  ASSUME TypeOK, NEW p \in Relays, NEW r \in Rec, Insert(p, r)
  PROVE  \A q \in Relays : InSeq(store'[q]) = InSeq(store[q]) \cup (IF q = p THEN {r} ELSE {})
<1>1. CASE Has(p, r)
  BY <1>1 DEF Has, Insert
<1>2. CASE ~Has(p, r)
  <2>1. store' = [store EXCEPT ![p] = Append(store[p], r)]
    BY <1>2 DEF Insert, TypeOK
  <2>2. InSeq(Append(store[p], r)) = InSeq(store[p]) \cup {r}
    BY WriteOne DEF TypeOK
  <2> QED
    BY <2>1, <2>2 DEF TypeOK
<1> QED
  BY <1>1, <1>2

LEMMA BroadcastAdds ==
  ASSUME TypeOK, NEW p \in Relays, NEW r \in Rec, Broadcast(p, r)
  PROVE  /\ \A q \in Relays : InSeq(announced'[q]) = InSeq(announced[q]) \cup (IF q = p THEN {r} ELSE {})
         /\ AnnouncedApart /\ New(p, r) /\ store' = store => AnnouncedApart'
<1>1. announced' = [announced EXCEPT ![p] = Append(announced[p], r)] /\ announced[p] \in Seq(Rec)
  BY DEF Broadcast, TypeOK
<1>2. InSeq(Append(announced[p], r)) = InSeq(announced[p]) \cup {r}
  BY <1>1, WriteOne
<1>3. \A q \in Relays : InSeq(announced'[q]) = InSeq(announced[q]) \cup (IF q = p THEN {r} ELSE {})
  BY <1>1, <1>2 DEF TypeOK
<1>4. ASSUME AnnouncedApart, New(p, r), store' = store PROVE AnnouncedApart'
  <2> SUFFICES ASSUME NEW q \in Relays
               PROVE  /\ InSeq(announced'[q]) \subseteq InSeq(store[q])
                      /\ \A i, j \in DOMAIN announced'[q] :
                           announced'[q][i] = announced'[q][j] => i = j
    BY <1>4 DEF AnnouncedApart
  <2>1. CASE q # p
    BY <1>1, <1>4, <2>1 DEF AnnouncedApart, TypeOK
  <2>2. CASE q = p
    <3> DEFINE s == announced[p]
    <3>1. announced'[q] = Append(s, r) /\ DOMAIN s = 1 .. Len(s) /\ Len(s) \in Nat
          /\ DOMAIN Append(s, r) = 1 .. Len(s) + 1
          /\ Append(s, r)[Len(s) + 1] = r /\ \A i \in 1 .. Len(s) : Append(s, r)[i] = s[i]
      BY <1>1, <2>2, AppendProperties DEF TypeOK
    <3>2. \A i \in 1 .. Len(s) : s[i] # r
      BY <1>4, <3>1 DEF New, InSeq
    <3>3. \A i, j \in 1 .. Len(s) : s[i] = s[j] => i = j
      BY <1>4, <3>1 DEF AnnouncedApart
    <3> HIDE DEF s
    <3>4. \A i, j \in 1 .. Len(s) + 1 : Append(s, r)[i] = Append(s, r)[j] => i = j
      <4>1. \A i \in 1 .. Len(s) + 1 : i \in 1 .. Len(s) \/ i = Len(s) + 1
        BY <3>1
      <4> QED
        BY <3>1, <3>2, <3>3, <4>1
    <3>5. InSeq(announced'[q]) \subseteq InSeq(store[q])
      BY <1>3, <1>4, <2>2 DEF AnnouncedApart, New
    <3> QED
      BY <3>1, <3>4, <3>5
  <2> QED
    BY <2>1, <2>2
<1> QED
  BY <1>3, <1>4

LEMMA DueSet ==
  /\ \A d : \A c \in PeerTask : [c EXCEPT !.due = d].due = d
  /\ \A d : \A c \in SocketTask : [c EXCEPT !.due = d].due = d
  /\ \A q, d : \A c \in SocketTask : [c EXCEPT !.out = q, !.due = d].due = d
BY DEF PeerTask, SocketTask

LEMMA DueKept ==
  /\ \A q, b, n : \A c \in PeerTask : [c EXCEPT !.out = q, !.listens = b, !.pos = n].due = c.due
  /\ \A q, n : \A c \in PeerTask : [c EXCEPT !.pos = n, !.out = q].due = c.due
  /\ \A n : \A c \in PeerTask : [c EXCEPT !.pos = n].due = c.due
  /\ \A q, b : \A c \in SocketTask : [c EXCEPT !.out = q, !.subscribed = b].due = c.due
  /\ \A q : \A c \in SocketTask : [c EXCEPT !.out = q].due = c.due
  /\ \A n, q : \A c \in SocketTask : [c EXCEPT !.pos = n, !.out = q].due = c.due
  /\ \A n : \A c \in SocketTask : [c EXCEPT !.pos = n].due = c.due
BY DEF PeerTask, SocketTask

\* The steps that store nothing and announce nothing owe what they owed.
LEMMA QuietSteps ==
  ASSUME TypeOK, NEW l \in Links,
         PeerWrites(l) \/ PeerPushes(l) \/ PeerLags(l) \/ ReqAnswered(l)
           \/ SocketRefusesPub(l) \/ SocketWrites(l) \/ SocketDelivers(l) \/ SocketLags(l)
  PROVE  /\ UNCHANGED relayVars
         /\ \A k \in Links \ {l} : peer'[k] = peer[k] /\ socket'[k] = socket[k]
         /\ \A k \in Links : peer'[k].due = peer[k].due /\ socket'[k].due = socket[k].due
<1> USE DEF relayVars, linkVars, historyVars
<1>0. peer[l] \in PeerTask /\ socket[l] \in SocketTask
  BY DEF TypeOK
<1>1. peer'[l].due = peer[l].due /\ socket'[l].due = socket[l].due
  <2>1. CASE PeerWrites(l)
    BY <1>0, <2>1, DueKept DEF PeerWrites, TypeOK
  <2>2. CASE PeerPushes(l)
    BY <1>0, <2>2, DueKept DEF PeerPushes, TypeOK
  <2>3. CASE PeerLags(l)
    BY <1>0, <2>3, DueKept DEF PeerLags, TypeOK
  <2>4. CASE ReqAnswered(l)
    <3>1. PICK rows : SocketAnswersReq(l, rows)
      BY <2>4 DEF ReqAnswered, SocketServesReq, SocketQueryFails
    <3> QED
      BY <1>0, <3>1, DueKept DEF SocketAnswersReq, TypeOK
  <2>5. CASE SocketRefusesPub(l)
    BY <1>0, <2>5, DueKept DEF SocketRefusesPub, TypeOK
  <2>6. CASE SocketWrites(l)
    BY <1>0, <2>6, DueKept DEF SocketWrites, TypeOK
  <2>7. CASE SocketDelivers(l)
    BY <1>0, <2>7, DueKept DEF SocketDelivers, TypeOK
  <2>8. CASE SocketLags(l)
    BY <1>0, <2>8, DueKept DEF SocketLags, TypeOK
  <2> QED
    BY <2>1, <2>2, <2>3, <2>4, <2>5, <2>6, <2>7, <2>8
<1>2. UNCHANGED relayVars /\ \A k \in Links \ {l} : peer'[k] = peer[k] /\ socket'[k] = socket[k]
  BY DEF PeerWrites, PeerPushes, PeerLags, ReqAnswered, SocketServesReq, SocketQueryFails,
         SocketAnswersReq, SocketRefusesPub, SocketWrites,
         SocketDelivers, SocketLags, TypeOK
<1> QED
  BY <1>1, <1>2

\* Nobody owes anything new.
LEMMA NothingNew ==
  ASSUME Once, UNCHANGED <<store, announced>>,
         \A p \in Relays : pending'[p] \subseteq pending[p],
         \A l \in Links : peer'[l].due \in {peer[l].due, None}
                          /\ socket'[l].due \in {socket[l].due, None}
  PROVE  Once'
<1>1. AnnouncedApart'
  BY DEF Once, AnnouncedApart
<1>2. \A l \in Links : From(l) \in Relays /\ To(l) \in Relays
  BY DEF From, To
<1>3. \A p \in Relays, r \in Rec \cup {None} : New(p, r)' <=> New(p, r)
  BY DEF New
<1>4. OwedOnce'
  BY <1>2 DEF Once, OwedOnce, New
<1> QED
  BY <1>1, <1>4 DEF Once

\* A record that a relay did not have is stored, and one task will announce it.
LEMMA DebtMade ==
  ASSUME Once, TypeOK, NEW p \in Relays, NEW r \in Rec, r \notin InSeq(store[p]), Insert(p, r),
         announced' = announced,
         \A q \in Relays : pending'[q] = pending[q] \/ (q = p /\ pending'[q] = pending[q] \cup {r}),
         \A l \in Links : peer'[l].due = peer[l].due \/ (From(l) = p /\ peer'[l].due = r),
         \A l \in Links : socket'[l].due = socket[l].due \/ (To(l) = p /\ socket'[l].due = r),
         pending'[p] = pending[p] \/ \A l \in Links : peer'[l].due = peer[l].due
                                                        /\ socket'[l].due = socket[l].due,
         \A l, k \in Links : peer'[l].due # peer[l].due => socket'[k].due = socket[k].due,
         \A l, k \in Links : peer'[l].due # peer[l].due /\ peer'[k].due # peer[k].due => l = k,
         \A l, k \in Links : socket'[l].due # socket[l].due /\ socket'[k].due # socket[k].due => l = k
  PROVE  Once'
<1> DEFINE NewNow(q, x) == x \in InSeq(store'[q]) /\ x \notin InSeq(announced'[q])
<1>0. \A l \in Links : From(l) \in Relays /\ To(l) \in Relays
  BY DEF From, To
<1>1. \A q \in Relays : InSeq(store'[q]) = InSeq(store[q]) \cup (IF q = p THEN {r} ELSE {})
  BY InsertAdds
<1>2. AnnouncedApart'
  BY <1>1 DEF Once, AnnouncedApart
<1>3. NewNow(p, r) /\ \A q \in Relays : \A x : New(q, x) => NewNow(q, x)
  BY <1>1 DEF New, Once, AnnouncedApart
<1>4. r \notin pending[p] /\ \A l \in Links : (From(l) = p => peer[l].due # r) /\ (To(l) = p => socket[l].due # r)
  BY DEF Once, OwedOnce, New
<1>5. \A q \in Relays : \A x \in pending'[q] : NewNow(q, x)
  BY <1>3 DEF Once, OwedOnce
<1>6. ASSUME NEW l \in Links, peer'[l].due # None
      PROVE  NewNow(From(l), peer'[l].due) /\ peer'[l].due \notin pending'[From(l)]
  <2>1. CASE peer'[l].due = peer[l].due
    <3>1. New(From(l), peer[l].due) /\ peer[l].due \notin pending[From(l)]
      BY <1>6, <2>1 DEF Once, OwedOnce
    <3> QED
      BY <1>0, <1>3, <1>4, <2>1, <3>1
  <2>2. CASE peer'[l].due # peer[l].due
    BY <1>3, <1>4, <2>2
  <2> QED
    BY <2>1, <2>2
<1>7. ASSUME NEW l \in Links, socket'[l].due # None
      PROVE  NewNow(To(l), socket'[l].due) /\ socket'[l].due \notin pending'[To(l)]
  <2>1. CASE socket'[l].due = socket[l].due
    <3>1. New(To(l), socket[l].due) /\ socket[l].due \notin pending[To(l)]
      BY <1>7, <2>1 DEF Once, OwedOnce
    <3> QED
      BY <1>0, <1>3, <1>4, <2>1, <3>1
  <2>2. CASE socket'[l].due # socket[l].due
    BY <1>3, <1>4, <2>2
  <2> QED
    BY <2>1, <2>2
<1>8. \A l, k \in Links : From(l) = From(k) /\ peer'[l].due # None /\ peer'[l].due = peer'[k].due => l = k
  BY <1>4 DEF Once, OwedOnce
<1>9. \A l, k \in Links : To(l) = To(k) /\ socket'[l].due # None /\ socket'[l].due = socket'[k].due => l = k
  BY <1>4 DEF Once, OwedOnce
<1>10. \A l, k \in Links : From(l) = To(k) /\ peer'[l].due # None => peer'[l].due # socket'[k].due
  BY <1>4 DEF Once, OwedOnce
<1>11. OwedOnce'
  <2> QED
    BY <1>5, <1>6, <1>7, <1>8, <1>9, <1>10 DEF OwedOnce, New
<1> QED
  BY <1>2, <1>11 DEF Once

\* A record is announced, and nobody owes it any more.
LEMMA DebtPaid ==
  ASSUME Once, TypeOK, NEW p \in Relays, NEW r \in Rec, New(p, r), Broadcast(p, r),
         store' = store,
         \A q \in Relays : pending'[q] \subseteq pending[q],
         \A l \in Links : peer'[l].due \in {peer[l].due, None}
                          /\ socket'[l].due \in {socket[l].due, None},
         r \notin pending'[p],
         \A l \in Links : (From(l) = p => peer'[l].due # r) /\ (To(l) = p => socket'[l].due # r)
  PROVE  Once'
<1> DEFINE NewNow(q, x) == x \in InSeq(store'[q]) /\ x \notin InSeq(announced'[q])
<1>0. \A l \in Links : From(l) \in Relays /\ To(l) \in Relays
  BY DEF From, To
<1>1. AnnouncedApart' /\ \A q \in Relays :
        InSeq(announced'[q]) = InSeq(announced[q]) \cup (IF q = p THEN {r} ELSE {})
  BY BroadcastAdds DEF Once
<1>2. \A q \in Relays : \A x : New(q, x) /\ ~(q = p /\ x = r) => NewNow(q, x)
  BY <1>1 DEF New
<1>3. \A q \in Relays : \A x \in pending'[q] : NewNow(q, x)
  BY <1>2 DEF Once, OwedOnce
<1>4. ASSUME NEW l \in Links, peer'[l].due # None
      PROVE  NewNow(From(l), peer'[l].due) /\ peer'[l].due \notin pending'[From(l)]
  BY <1>0, <1>2, <1>4 DEF Once, OwedOnce
<1>5. ASSUME NEW l \in Links, socket'[l].due # None
      PROVE  NewNow(To(l), socket'[l].due) /\ socket'[l].due \notin pending'[To(l)]
  BY <1>0, <1>2, <1>5 DEF Once, OwedOnce
<1>6. \A l, k \in Links : From(l) = From(k) /\ peer'[l].due # None /\ peer'[l].due = peer'[k].due => l = k
  BY DEF Once, OwedOnce
<1>7. \A l, k \in Links : To(l) = To(k) /\ socket'[l].due # None /\ socket'[l].due = socket'[k].due => l = k
  BY DEF Once, OwedOnce
<1>8. \A l, k \in Links : From(l) = To(k) /\ peer'[l].due # None => peer'[l].due # socket'[k].due
  BY DEF Once, OwedOnce
<1>9. OwedOnce'
  BY <1>3, <1>4, <1>5, <1>6, <1>7, <1>8 DEF OwedOnce, New
<1> QED
  BY <1>1, <1>9 DEF Once

LEMMA OnceStep ==
  ASSUME Once, TypeOK, Next
  PROVE  Once'
<1> USE DEF relayVars, linkVars, historyVars
<1>0. ASSUME NEW l \in Links
      PROVE  /\ From(l) \in Relays /\ To(l) \in Relays
             /\ peer[l] \in PeerTask /\ socket[l] \in SocketTask
             /\ peer[l].due \in Rec \cup {None} /\ socket[l].due \in Rec \cup {None}
  BY DEF TypeOK, From, To, PeerTask, SocketTask
<1>1. ASSUME NEW p \in Relays, NEW r \in Rec, Publish(p, r) PROVE Once'
  <2>1. r \notin InSeq(store[p]) /\ Insert(p, r) /\ UNCHANGED <<announced, peer, socket>>
    BY <1>1 DEF Publish, Has
  <2>2. pending' = [pending EXCEPT ![p] = pending[p] \cup {r}]
    BY <1>1 DEF Publish
  <2>3. \A q \in Relays : pending'[q] = pending[q] \/ (q = p /\ pending'[q] = pending[q] \cup {r})
    BY <2>2 DEF TypeOK
  <2>4. \A l \in Links : peer'[l].due = peer[l].due /\ socket'[l].due = socket[l].due
    BY <2>1
  <2> QED
    BY <2>1, <2>3, <2>4, DebtMade
<1>2. ASSUME NEW p \in Relays, NEW r \in Rec, ClientAnnounces(p, r) PROVE Once'
  <2>1. r \in pending[p] /\ Broadcast(p, r) /\ UNCHANGED <<store, peer, socket>>
        /\ r \notin pending'[p] /\ \A q \in Relays : pending'[q] \subseteq pending[q]
    BY <1>2 DEF ClientAnnounces, TypeOK
  <2>2. New(p, r) /\ \A l \in Links : (From(l) = p => peer[l].due # r) /\ (To(l) = p => socket[l].due # r)
    BY <2>1 DEF Once, OwedOnce
  <2> QED
    BY <2>1, <2>2, DebtPaid
<1>3. ASSUME NEW l \in Links, PeerReads(l) PROVE Once'
  <2>1. CASE Head(down[l]) \in Rec /\ ~Has(From(l), Head(down[l]))
    <3>1. PICK p \in Relays, r \in Rec : p = From(l) /\ r = Head(down[l])
      BY <1>0, <2>1
    <3>2. Insert(p, r) /\ UNCHANGED <<announced, pending, socket>>
          /\ peer' = [peer EXCEPT ![l] = [peer[l] EXCEPT !.due = r]]
      BY <1>3, <2>1, <3>1 DEF PeerReads, ToAnnounce
    <3>3. r \notin InSeq(store[p])
      BY <2>1, <3>1 DEF Has
    <3>4. peer'[l].due = r /\ \A k \in Links \ {l} : peer'[k].due = peer[k].due
      BY <1>0, <3>2, DueSet DEF TypeOK
    <3>5. \A q \in Relays : pending'[q] = pending[q]
      BY <3>2
    <3>6. \A k \in Links : socket'[k].due = socket[k].due
      BY <3>2
    <3>7. \A k \in Links : peer'[k].due # peer[k].due => k = l
      BY <3>4
    <3>8. \A k \in Links : peer'[k].due = peer[k].due \/ (From(k) = p /\ peer'[k].due = r)
      BY <3>1, <3>4
    <3> QED
      BY <3>2, <3>3, <3>5, <3>6, <3>7, <3>8, DebtMade
  <2>2. CASE ~(Head(down[l]) \in Rec /\ ~Has(From(l), Head(down[l])))
    <3>1. UNCHANGED <<store, announced, pending, socket>>
          /\ (peer' = peer \/ peer' = [peer EXCEPT ![l] = [peer[l] EXCEPT !.due = None]])
      BY <1>3, <2>2 DEF PeerReads, ToAnnounce, Insert
    <3>2. \A k \in Links : peer'[k].due \in {peer[k].due, None}
      <4>1. CASE peer' = peer
        BY <4>1
      <4>2. CASE peer' = [peer EXCEPT ![l] = [peer[l] EXCEPT !.due = None]]
        BY <1>0, <4>2, DueSet DEF TypeOK
      <4> QED
        BY <3>1, <4>1, <4>2
    <3> QED
      BY <3>1, <3>2, NothingNew
  <2> QED
    BY <2>1, <2>2
<1>4. ASSUME NEW l \in Links, PeerAnnounces(l) PROVE Once'
  <2>1. PICK p \in Relays, r \in Rec : p = From(l) /\ r = peer[l].due
    BY <1>0, <1>4 DEF PeerAnnounces
  <2>2. Broadcast(p, r) /\ UNCHANGED <<store, pending, socket>>
        /\ peer' = [peer EXCEPT ![l] = [peer[l] EXCEPT !.due = None]]
    BY <1>4, <2>1 DEF PeerAnnounces
  <2>3. peer'[l].due = None /\ \A k \in Links \ {l} : peer'[k].due = peer[k].due
    BY <1>0, <2>2, DueSet DEF TypeOK
  <2>4. /\ New(p, r) /\ r \notin pending[p] /\ r # None
        /\ \A k \in Links \ {l} : From(k) = p => peer[k].due # r
        /\ \A k \in Links : To(k) = p => socket[k].due # r
    BY <2>1 DEF Once, OwedOnce
  <2> QED
    BY <2>1, <2>2, <2>3, <2>4, DebtPaid
<1>5. ASSUME NEW l \in Links, SocketServesPub(l) PROVE Once'
  <2>1. PICK p \in Relays, r \in Rec : p = To(l) /\ r = Head(up[l])
    BY <1>0, <1>5 DEF SocketServesPub
  <2>2. Insert(p, r) /\ UNCHANGED <<announced, pending, peer>> /\ socket[l].due = None
        /\ socket' = [socket EXCEPT ![l] = [socket[l] EXCEPT !.out = <<Answer>>,
             !.due = IF Has(p, r) THEN None ELSE r]]
    BY <1>0, <1>5, <2>1 DEF SocketServesPub, SocketSelects, TypeOK, SocketTask
  <2>3. /\ socket'[l].due = IF Has(p, r) THEN None ELSE r
        /\ \A k \in Links \ {l} : socket'[k].due = socket[k].due
    BY <1>0, <2>2, DueSet DEF TypeOK
  <2>4. CASE ~Has(p, r)
    <3>1. r \notin InSeq(store[p])
      BY <2>4 DEF Has
    <3>2. \A k \in Links : peer'[k].due = peer[k].due
      BY <2>2
    <3>3. \A k \in Links : socket'[k].due # socket[k].due => k = l
      BY <2>3
    <3>4. \A k \in Links : socket'[k].due = socket[k].due \/ (To(k) = p /\ socket'[k].due = r)
      BY <2>1, <2>3, <2>4
    <3>5. \A q \in Relays : pending'[q] = pending[q]
      BY <2>2
    <3> QED
      BY <2>2, <3>1, <3>2, <3>3, <3>4, <3>5, DebtMade
  <2>5. CASE Has(p, r)
    <3>1. store' = store /\ \A k \in Links : socket'[k].due \in {socket[k].due, None}
      BY <2>2, <2>3, <2>5 DEF Insert
    <3> QED
      BY <2>2, <3>1, NothingNew
  <2> QED
    BY <2>4, <2>5
<1>6. ASSUME NEW l \in Links, SocketAnnounces(l) PROVE Once'
  <2>1. PICK p \in Relays, r \in Rec : p = To(l) /\ r = socket[l].due
    BY <1>0, <1>6 DEF SocketAnnounces
  <2>2. Broadcast(p, r) /\ UNCHANGED <<store, pending, peer>>
        /\ socket' = [socket EXCEPT ![l] = [socket[l] EXCEPT !.due = None]]
    BY <1>6, <2>1 DEF SocketAnnounces
  <2>3. socket'[l].due = None /\ \A k \in Links \ {l} : socket'[k].due = socket[k].due
    BY <1>0, <2>2, DueSet DEF TypeOK
  <2>4. /\ New(p, r) /\ r \notin pending[p] /\ r # None
        /\ \A k \in Links \ {l} : To(k) = p => socket[k].due # r
        /\ \A k \in Links : From(k) = p => peer[k].due # r
    BY <2>1 DEF Once, OwedOnce
  <2> QED
    BY <2>1, <2>2, <2>3, <2>4, DebtPaid
<1>7. ASSUME NEW l \in Links, Connect(l) PROVE Once'
  <2>1. peer[l].due = None /\ socket[l].due = None /\ UNCHANGED relayVars
        /\ peer' = [peer EXCEPT ![l] = [NoPeer EXCEPT !.on = TRUE, !.out = Req]]
        /\ socket' = [socket EXCEPT ![l] = [NoSocket EXCEPT !.pos = Len(announced[To(l)])]]
    BY <1>7 DEF Connect
  <2>2. \A k \in Links : peer'[k].due = peer[k].due /\ socket'[k].due = socket[k].due
    BY <2>1 DEF NoPeer, NoSocket, TypeOK
  <2> QED
    BY <2>1, <2>2, NothingNew
<1>8. ASSUME NEW l \in Links, Break(l) PROVE Once'
  <2>1. UNCHANGED relayVars
        /\ peer' = [peer EXCEPT ![l] = [NoPeer EXCEPT !.due = peer[l].due]]
        /\ socket' = [socket EXCEPT ![l] = [NoSocket EXCEPT !.due = socket[l].due]]
    BY <1>8 DEF Break
  <2>2. \A k \in Links : peer'[k].due = peer[k].due /\ socket'[k].due = socket[k].due
    BY <2>1 DEF NoPeer, NoSocket, TypeOK
  <2> QED
    BY <2>1, <2>2, NothingNew
<1>9. ASSUME NEW l \in Links,
             PeerWrites(l) \/ PeerPushes(l) \/ PeerLags(l) \/ ReqAnswered(l)
               \/ SocketRefusesPub(l) \/ SocketWrites(l) \/ SocketDelivers(l) \/ SocketLags(l)
      PROVE  Once'
  <2>1. UNCHANGED relayVars
        /\ \A k \in Links : peer'[k].due = peer[k].due /\ socket'[k].due = socket[k].due
    BY <1>9, QuietSteps
  <2> QED
    BY <2>1, NothingNew
<1>10. ASSUME NEW l \in Links, IngestFails(l) PROVE Once'
  BY <1>10, NothingNew DEF IngestFails
<1>11. ASSUME NEW p \in Relays, Restart(p) PROVE Once'
  <2>1. \A k \in Links : peer'[k].due \in {peer[k].due, None} /\ socket'[k].due \in {socket[k].due, None}
    BY <1>0, <1>11 DEF Restart, NoPeer, NoSocket
  <2>2. \A q \in Relays : pending'[q] \subseteq pending[q]
    BY <1>11 DEF Restart, TypeOK
  <2> QED
    BY <1>11, <2>1, <2>2, NothingNew DEF Restart
<1> QED
  BY <1>1, <1>2, <1>3, <1>4, <1>5, <1>6, <1>7, <1>8, <1>9, <1>10, <1>11
     DEF Next, PeerStep, SocketStep, ReqAnswered

\* Loop suppression (ingest_from_peer, insert_record): in any topology, rings and
\* relays that peer with each other included, a relay announces a record at most
\* once and only what it stores.
THEOREM CyclesHarmless == Spec => []CyclesAreHarmless
<1>1. Init => Once
  BY DEF Init, Once, AnnouncedApart, OwedOnce, NoPeer, NoSocket, InSeq
<1>2. Once /\ UNCHANGED vars => Once'
  BY DEF Once, AnnouncedApart, OwedOnce, New, vars, relayVars, linkVars
<1>3. Once => CyclesAreHarmless
  BY DEF Once, AnnouncedApart, CyclesAreHarmless
<1> QED
  BY <1>1, <1>2, <1>3, OnceStep, TypeCorrect, PTL DEF Spec

-----------------------------------------------------------------------------
(* Nothing is lost silently *)

\* Receivers stand within the channel they read.
PosInv ==
  \A l \in Links :
    peer[l].pos <= Len(announced[From(l)]) /\ socket[l].pos <= Len(announced[To(l)])

\* The two halves of NothingLostSilently, of one link.
PushAccounted(l) ==
  peer[l].on /\ peer[l].listens =>
    InSeq(store[From(l)]) \subseteq
      InSeq(store[To(l)]) \cup Ahead(From(l), peer[l].pos)
        \cup {peer[l].out} \cup InSeq(up[l]) \cup unpushed[l]

PullAccounted(l) ==
  peer[l].on /\ socket[l].subscribed =>
    InSeq(store[To(l)]) \subseteq
      InSeq(store[From(l)]) \cup Ahead(To(l), socket[l].pos)
        \cup InSeq(socket[l].out) \cup InSeq(down[l]) \cup unpulled[l]

LossInv == PosInv /\ NothingLostSilently

LEMMA LossHalves ==
  NothingLostSilently <=> \A l \in Links : PushAccounted(l) /\ PullAccounted(l)
BY DEF NothingLostSilently, PushAccounted, PullAccounted

\* What a step may do to a relay that goes on running: a record it stores is due to be
\* announced, and what was due is still due or stands at the end of its channel.
Runs(p) ==
  /\ InSeq(store[p]) \subseteq InSeq(store'[p])
  /\ InSeq(store'[p]) \subseteq InSeq(store[p]) \cup Due(p)'
  /\ Len(announced[p]) <= Len(announced'[p])
  /\ \A i \in 1 .. Len(announced[p]) : announced'[p][i] = announced[p][i]
  /\ \A r \in Due(p) :
       \/ r \in Due(p)'
       \/ \E i \in Len(announced[p]) + 1 .. Len(announced'[p]) : announced'[p][i] = r

\* Who owes what at a relay, record by record.
LEMMA DueMembers ==
  ASSUME NEW p, NEW r
  PROVE  /\ r \in Due(p) <=> /\ r # None
                             /\ \/ r \in pending[p]
                                \/ \E l \in Links : To(l) = p /\ socket[l].due = r
                                \/ \E l \in Links : From(l) = p /\ peer[l].due = r
         /\ r \in Due(p)' <=> /\ r # None
                              /\ \/ r \in pending'[p]
                                 \/ \E l \in Links : To(l) = p /\ socket'[l].due = r
                                 \/ \E l \in Links : From(l) = p /\ peer'[l].due = r
BY DEF Due

LEMMA OwedKept ==
  ASSUME NEW q \in Relays, pending'[q] = pending[q],
         \A j \in Links : peer'[j].due = peer[j].due /\ socket'[j].due = socket[j].due,
         NEW r, r \in Due(q)
  PROVE  r \in Due(q)'
<1>1. r # None /\ \/ r \in pending[q]
                  \/ \E l \in Links : To(l) = q /\ socket[l].due = r
                  \/ \E l \in Links : From(l) = q /\ peer[l].due = r
  BY DEF Due
<1>2. r # None /\ \/ r \in pending'[q]
                  \/ \E l \in Links : To(l) = q /\ socket'[l].due = r
                  \/ \E l \in Links : From(l) = q /\ peer'[l].due = r
  BY <1>1
<1> QED
  BY <1>2 DEF Due

\* Ahead after the step, of a receiver at pos.
After(p, pos) == {announced'[p][i] : i \in pos + 1 .. Len(announced'[p])} \cup Due(p)'

LEMMA AheadNext ==
  ASSUME NEW l \in Links
  PROVE  /\ Ahead(From(l), peer[l].pos)' = After(From(l), peer'[l].pos)
         /\ Ahead(To(l), socket[l].pos)' = After(To(l), socket'[l].pos)
BY DEF Ahead, After, From, To, Due

\* Nothing a relay had ahead of a receiver gets lost while it runs.
LEMMA AheadStays ==
  ASSUME TypeOK, NEW p \in Relays, Runs(p), announced'[p] \in Seq(Rec),
         NEW n \in Nat, n <= Len(announced[p])
  PROVE  Ahead(p, n) \subseteq After(p, n)
<1>1. Len(announced[p]) \in Nat /\ Len(announced'[p]) \in Nat
  BY DEF TypeOK
<1>2. ASSUME NEW i \in n + 1 .. Len(announced[p]) PROVE announced[p][i] \in After(p, n)
  <2>1. i \in 1 .. Len(announced[p]) /\ i \in n + 1 .. Len(announced'[p])
    BY <1>1 DEF Runs
  <2>2. announced'[p][i] = announced[p][i]
    BY <2>1 DEF Runs
  <2> QED
    BY <2>1, <2>2 DEF After
<1>3. ASSUME NEW r \in Due(p) PROVE r \in After(p, n)
  <2>1. CASE r \in Due(p)'
    BY <2>1 DEF After
  <2>2. ASSUME NEW i \in Len(announced[p]) + 1 .. Len(announced'[p]), announced'[p][i] = r
        PROVE  r \in After(p, n)
    <3>1. i \in n + 1 .. Len(announced'[p])
      BY <1>1
    <3> QED
      BY <2>2, <3>1 DEF After
  <2> QED
    BY <1>3, <2>1, <2>2 DEF Runs
<1> QED
  BY <1>2, <1>3 DEF Ahead

\* The three kinds of steps of a running relay: its log stands still ...
LEMMA LogStands ==
  ASSUME TypeOK, NEW p \in Relays, store'[p] = store[p], announced'[p] = announced[p],
         pending[p] \subseteq pending'[p],
         \A l \in Links : peer[l].due \in {peer'[l].due, None}
                          /\ socket[l].due \in {socket'[l].due, None}
  PROVE  Runs(p)
<1>1. Len(announced[p]) \in Nat
  BY DEF TypeOK
<1>2. ASSUME NEW r \in Due(p) PROVE r \in Due(p)'
  BY DueMembers
<1> QED
  BY <1>1, <1>2 DEF Runs

\* ... it stores a record, which is due ...
LEMMA LogTakes ==
  ASSUME TypeOK, NEW p \in Relays, NEW r \in Rec, Insert(p, r), announced' = announced,
         NEW q \in Relays, pending[q] \subseteq pending'[q],
         \A l \in Links : peer[l].due \in {peer'[l].due, None}
                          /\ socket[l].due \in {socket'[l].due, None},
         r \notin InSeq(store[p]) => r \in Due(p)'
  PROVE  Runs(q)
<1>1. Len(announced[q]) \in Nat
  BY DEF TypeOK
<1>2. ASSUME NEW x \in Due(q) PROVE x \in Due(q)'
  BY DueMembers
<1>3. InSeq(store'[q]) = InSeq(store[q]) \cup (IF q = p THEN {r} ELSE {})
  BY InsertAdds
<1> QED
  BY <1>1, <1>2, <1>3 DEF Runs

\* ... or it announces one.
LEMMA LogPays ==
  ASSUME TypeOK, NEW p \in Relays, NEW r \in Rec, Broadcast(p, r), store' = store,
         NEW q \in Relays, \A x \in pending[q] : x \in pending'[q] \/ (q = p /\ x = r),
         \A l \in Links : \/ peer[l].due \in {peer'[l].due, None}
                          \/ From(l) = p /\ peer[l].due = r,
         \A l \in Links : \/ socket[l].due \in {socket'[l].due, None}
                          \/ To(l) = p /\ socket[l].due = r
  PROVE  Runs(q)
<1>1. announced[p] \in Seq(Rec) /\ announced' = [announced EXCEPT ![p] = Append(@, r)]
  BY DEF TypeOK, Broadcast
<1>2. CASE q = p
  <2>1. /\ Len(announced[p]) \in Nat /\ Len(announced'[p]) = Len(announced[p]) + 1
        /\ announced'[p][Len(announced[p]) + 1] = r
        /\ \A i \in 1 .. Len(announced[p]) : announced'[p][i] = announced[p][i]
    BY <1>1, AppendProperties DEF TypeOK
  <2>2. Len(announced[p]) + 1 \in Len(announced[p]) + 1 .. Len(announced'[p])
    BY <2>1
  <2>3. ASSUME NEW x \in Due(q), x # r PROVE x \in Due(q)'
    BY <2>3, DueMembers
  <2> QED
    BY <1>2, <2>1, <2>2, <2>3 DEF Runs
<1>3. CASE q # p
  <2>1. announced'[q] = announced[q] /\ Len(announced[q]) \in Nat
    BY <1>1, <1>3 DEF TypeOK
  <2>2. ASSUME NEW x \in Due(q) PROVE x \in Due(q)'
    BY <1>3, DueMembers
  <2> QED
    BY <2>1, <2>2 DEF Runs
<1> QED
  BY <1>2, <1>3

\* What the steps do to the fields of a task.
LEMMA PeerFields ==
  ASSUME NEW c \in PeerTask
  PROVE  /\ \A q, b, n : LET d == [c EXCEPT !.out = q, !.listens = b, !.pos = n] IN
              d.on = c.on /\ d.out = q /\ d.listens = b /\ d.pos = n /\ d.due = c.due
         /\ \A q, n : LET d == [c EXCEPT !.pos = n, !.out = q] IN
              d.on = c.on /\ d.out = q /\ d.listens = c.listens /\ d.pos = n /\ d.due = c.due
         /\ \A n : LET d == [c EXCEPT !.pos = n] IN
              d.on = c.on /\ d.out = c.out /\ d.listens = c.listens /\ d.pos = n /\ d.due = c.due
         /\ \A x : LET d == [c EXCEPT !.due = x] IN
              d.on = c.on /\ d.out = c.out /\ d.listens = c.listens /\ d.pos = c.pos /\ d.due = x
BY DEF PeerTask

LEMMA SocketFields ==
  ASSUME NEW c \in SocketTask
  PROVE  /\ \A q, b : LET d == [c EXCEPT !.out = q, !.subscribed = b] IN
              d.out = q /\ d.subscribed = b /\ d.pos = c.pos /\ d.due = c.due
         /\ \A q, x : LET d == [c EXCEPT !.out = q, !.due = x] IN
              d.out = q /\ d.subscribed = c.subscribed /\ d.pos = c.pos /\ d.due = x
         /\ \A q : LET d == [c EXCEPT !.out = q] IN
              d.out = q /\ d.subscribed = c.subscribed /\ d.pos = c.pos /\ d.due = c.due
         /\ \A q, n : LET d == [c EXCEPT !.pos = n, !.out = q] IN
              d.out = q /\ d.subscribed = c.subscribed /\ d.pos = n /\ d.due = c.due
         /\ \A n : LET d == [c EXCEPT !.pos = n] IN
              d.out = c.out /\ d.subscribed = c.subscribed /\ d.pos = n /\ d.due = c.due
         /\ \A x : LET d == [c EXCEPT !.due = x] IN
              d.out = c.out /\ d.subscribed = c.subscribed /\ d.pos = c.pos /\ d.due = x
BY DEF SocketTask

\* A relay runs on in every step but its own restart.
LEMMA RunsStep ==
  ASSUME TypeOK, Next, NEW p \in Relays, ~Restart(p)
  PROVE  Runs(p)
<1> USE DEF relayVars, linkVars, historyVars
<1>0. ASSUME NEW l \in Links
      PROVE  /\ From(l) \in Relays /\ To(l) \in Relays
             /\ peer[l] \in PeerTask /\ socket[l] \in SocketTask
             /\ peer[l].due \in Rec \cup {None} /\ socket[l].due \in Rec \cup {None}
  BY DEF TypeOK, From, To, PeerTask, SocketTask
<1>1. ASSUME NEW q \in Relays, NEW r \in Rec, Publish(q, r) PROVE Runs(p)
  <2>1. Insert(q, r) /\ UNCHANGED <<announced, peer, socket>> /\ pending[p] \subseteq pending'[p]
        /\ r \in pending'[q]
    BY <1>1 DEF Publish, TypeOK
  <2>2. r \in Due(q)'
    BY <2>1, DueMembers
  <2> QED
    BY <2>1, <2>2, LogTakes
<1>2. ASSUME NEW q \in Relays, NEW r \in Rec, ClientAnnounces(q, r) PROVE Runs(p)
  <2>1. Broadcast(q, r) /\ UNCHANGED <<store, peer, socket>>
        /\ \A x \in pending[p] : x \in pending'[p] \/ (p = q /\ x = r)
    BY <1>2 DEF ClientAnnounces, TypeOK
  <2> QED
    BY <2>1, LogPays
<1>3. ASSUME NEW l \in Links, PeerReads(l) PROVE Runs(p)
  <2>1. CASE Head(down[l]) \in Rec
    <3>1. PICK q \in Relays, r \in Rec : q = From(l) /\ r = Head(down[l])
      BY <1>0, <2>1
    <3>2. Insert(q, r) /\ UNCHANGED <<announced, pending, socket>> /\ peer[l].due = None
          /\ peer' = [peer EXCEPT ![l] = [peer[l] EXCEPT !.due = ToAnnounce(q, r)]]
      BY <1>3, <2>1, <3>1 DEF PeerReads, PeerSelects
    <3>3. peer'[l].due = ToAnnounce(q, r) /\ \A k \in Links \ {l} : peer'[k] = peer[k]
      BY <1>0, <3>2, PeerFields DEF TypeOK
    <3>4. r \notin InSeq(store[q]) => r \in Due(q)'
      BY <3>1, <3>3, DueMembers DEF ToAnnounce, Has
    <3> QED
      BY <3>2, <3>3, <3>4, LogTakes
  <2>2. CASE Head(down[l]) \notin Rec
    BY <1>3, <2>2, LogStands DEF PeerReads
  <2> QED
    BY <2>1, <2>2
<1>4. ASSUME NEW l \in Links, PeerAnnounces(l) PROVE Runs(p)
  <2>1. PICK q \in Relays, r \in Rec : q = From(l) /\ r = peer[l].due
    BY <1>0, <1>4 DEF PeerAnnounces
  <2>2. Broadcast(q, r) /\ UNCHANGED <<store, pending, socket>>
        /\ peer' = [peer EXCEPT ![l] = [peer[l] EXCEPT !.due = None]]
    BY <1>4, <2>1 DEF PeerAnnounces
  <2>3. \A k \in Links \ {l} : peer'[k] = peer[k]
    BY <2>2 DEF TypeOK
  <2> QED
    BY <2>1, <2>2, <2>3, LogPays
<1>5. ASSUME NEW l \in Links, SocketServesPub(l) PROVE Runs(p)
  <2>1. PICK q \in Relays, r \in Rec : q = To(l) /\ r = Head(up[l])
    BY <1>0, <1>5 DEF SocketServesPub
  <2>. DEFINE x == IF Has(q, r) THEN None ELSE r
  <2>2. Insert(q, r) /\ UNCHANGED <<announced, pending, peer>> /\ socket[l].due = None
        /\ socket' = [socket EXCEPT ![l] = [socket[l] EXCEPT !.out = <<Answer>>, !.due = x]]
    BY <1>0, <1>5, <2>1 DEF SocketServesPub, SocketSelects, TypeOK, SocketTask
  <2>3. socket'[l].due = x /\ \A k \in Links \ {l} : socket'[k] = socket[k]
    BY <1>0, <2>2, DueSet DEF TypeOK
  <2>4. r \notin InSeq(store[q]) => r \in Due(q)'
    BY <2>1, <2>3, DueMembers DEF Has
  <2> QED
    BY <2>2, <2>3, <2>4, LogTakes
<1>6. ASSUME NEW l \in Links, SocketAnnounces(l) PROVE Runs(p)
  <2>1. PICK q \in Relays, r \in Rec : q = To(l) /\ r = socket[l].due
    BY <1>0, <1>6 DEF SocketAnnounces
  <2>2. Broadcast(q, r) /\ UNCHANGED <<store, pending, peer>>
        /\ socket' = [socket EXCEPT ![l] = [socket[l] EXCEPT !.due = None]]
    BY <1>6, <2>1 DEF SocketAnnounces
  <2>3. \A k \in Links \ {l} : socket'[k] = socket[k]
    BY <2>2 DEF TypeOK
  <2> QED
    BY <2>1, <2>2, <2>3, LogPays
<1>7. ASSUME NEW l \in Links, Connect(l) PROVE Runs(p)
  <2>1. peer[l].due = None /\ socket[l].due = None /\ UNCHANGED relayVars
        /\ \A k \in Links \ {l} : peer'[k] = peer[k] /\ socket'[k] = socket[k]
    BY <1>7 DEF Connect, TypeOK
  <2> QED
    BY <2>1, LogStands
<1>8. ASSUME NEW l \in Links, Break(l) PROVE Runs(p)
  <2>1. UNCHANGED relayVars
        /\ peer' = [peer EXCEPT ![l] = [NoPeer EXCEPT !.due = peer[l].due]]
        /\ socket' = [socket EXCEPT ![l] = [NoSocket EXCEPT !.due = socket[l].due]]
    BY <1>8 DEF Break
  <2>2. \A k \in Links : peer'[k].due = peer[k].due /\ socket'[k].due = socket[k].due
    BY <2>1 DEF NoPeer, NoSocket, TypeOK
  <2> QED
    BY <2>1, <2>2, LogStands
<1>9. ASSUME NEW l \in Links,
             PeerStep(l) \/ SocketStep(l) \/ IngestFails(l)
               \/ SocketQueryFails(l) \/ SocketRefusesPub(l)
      PROVE  Runs(p)
  <2>1. CASE PeerWrites(l) \/ PeerPushes(l) \/ PeerLags(l) \/ ReqAnswered(l)
               \/ SocketRefusesPub(l) \/ SocketWrites(l) \/ SocketDelivers(l) \/ SocketLags(l)
    <3>1. UNCHANGED relayVars
          /\ \A k \in Links : peer'[k].due = peer[k].due /\ socket'[k].due = socket[k].due
      BY <2>1, QuietSteps
    <3> QED
      BY <3>1, LogStands
  <2>2. CASE IngestFails(l)
    BY <2>2, LogStands DEF IngestFails
  <2> QED
    BY <1>9, <1>3, <1>4, <1>5, <1>6, <1>7, <2>1, <2>2 DEF PeerStep, SocketStep, ReqAnswered
<1>10. ASSUME NEW q \in Relays, Restart(q) PROVE Runs(p)
  <2>1. UNCHANGED <<store, announced>> /\ p # q /\ pending'[p] = pending[p]
    BY <1>10 DEF Restart, TypeOK
  <2>2. ASSUME NEW r \in Due(p) PROVE r \in Due(p)'
    <3>1. \A l \in Links : To(l) = p => socket'[l].due = socket[l].due
      BY <1>10, <2>1, PlainTasks, SocketFields DEF Restart
    <3>2. \A l \in Links : From(l) = p => peer'[l].due = peer[l].due
      BY <1>10, <2>1, PlainTasks, PeerFields DEF Restart
    <3> QED
      BY <2>1, <3>1, <3>2, DueMembers
  <2>3. Len(announced[p]) \in Nat
    BY DEF TypeOK
  <2> QED
    BY <2>1, <2>2, <2>3 DEF Runs
<1> QED
  BY <1>1, <1>2, <1>8, <1>9, <1>10 DEF Next

\* What a step may do to a link that stays up: a record that was ahead of a receiver, in
\* a task's hands, in a frame or given up stays one of these, or is stored at the far end.
PushMoves(l) ==
  peer'[l].on /\ peer'[l].listens =>
    /\ peer[l].on /\ peer[l].listens
    /\ {peer[l].out} \cup InSeq(up[l]) \cup unpushed[l] \cup After(From(l), peer[l].pos) \subseteq
         {None, Req} \cup InSeq(store'[To(l)]) \cup After(From(l), peer'[l].pos)
           \cup {peer'[l].out} \cup InSeq(up'[l]) \cup unpushed'[l]

PullMoves(l) ==
  peer'[l].on /\ socket'[l].subscribed =>
    /\ peer[l].on /\ socket[l].subscribed
    /\ InSeq(socket[l].out) \cup InSeq(down[l]) \cup unpulled[l] \cup After(To(l), socket[l].pos)
         \subseteq
         {None, Answer} \cup InSeq(store'[From(l)]) \cup After(To(l), socket'[l].pos)
           \cup InSeq(socket'[l].out) \cup InSeq(down'[l]) \cup unpulled'[l]

LEMMA PushStays ==
  ASSUME TypeOK, TypeOK', PosInv, NEW l \in Links, Runs(From(l)), Runs(To(l)),
         PushAccounted(l), PushMoves(l)
  PROVE  PushAccounted(l)'
<1>1. SUFFICES ASSUME peer'[l].on, peer'[l].listens, NEW r \in InSeq(store'[From(l)])
               PROVE  r \in InSeq(store'[To(l)]) \cup After(From(l), peer'[l].pos)
                              \cup {peer'[l].out} \cup InSeq(up'[l]) \cup unpushed'[l]
  BY AheadNext DEF PushAccounted, From, To, InSeq
<1>2. From(l) \in Relays /\ To(l) \in Relays /\ r \in Rec
      /\ announced'[From(l)] \in Seq(Rec) /\ peer[l].pos \in Nat
      /\ peer[l].pos <= Len(announced[From(l)])
  <2>1. From(l) \in Relays /\ To(l) \in Relays
    BY DEF From, To
  <2>2. store'[From(l)] \in Seq(Rec) /\ announced'[From(l)] \in Seq(Rec) /\ peer[l] \in PeerTask
    BY <2>1 DEF TypeOK
  <2>3. r \in Rec
    BY <1>1, <2>2 DEF InSeq
  <2>4. peer[l].pos \in Nat
    BY <2>2 DEF PeerTask
  <2> QED
    BY <2>1, <2>2, <2>3, <2>4 DEF PosInv
<1>3. Ahead(From(l), peer[l].pos) \subseteq After(From(l), peer[l].pos)
  BY <1>2, AheadStays
<1>4. CASE r \in Due(From(l))'
  BY <1>4 DEF After
<1>5. CASE r \in InSeq(store[From(l)])
  <2>1. peer[l].on /\ peer[l].listens
    BY <1>1 DEF PushMoves
  <2>2. r \in InSeq(store[To(l)]) \cup Ahead(From(l), peer[l].pos)
                \cup {peer[l].out} \cup InSeq(up[l]) \cup unpushed[l]
    BY <1>5, <2>1 DEF PushAccounted
  <2>3. CASE r \in InSeq(store[To(l)])
    BY <2>3 DEF Runs
  <2> QED
    BY <1>1, <1>2, <1>3, <2>2, <2>3 DEF PushMoves
<1> QED
  BY <1>1, <1>4, <1>5 DEF Runs

LEMMA PullStays ==
  ASSUME TypeOK, TypeOK', PosInv, NEW l \in Links, Runs(From(l)), Runs(To(l)),
         PullAccounted(l), PullMoves(l)
  PROVE  PullAccounted(l)'
<1>1. SUFFICES ASSUME peer'[l].on, socket'[l].subscribed, NEW r \in InSeq(store'[To(l)])
               PROVE  r \in InSeq(store'[From(l)]) \cup After(To(l), socket'[l].pos)
                              \cup InSeq(socket'[l].out) \cup InSeq(down'[l]) \cup unpulled'[l]
  BY AheadNext DEF PullAccounted, From, To, InSeq
<1>2. From(l) \in Relays /\ To(l) \in Relays /\ r \in Rec
      /\ announced'[To(l)] \in Seq(Rec) /\ socket[l].pos \in Nat
      /\ socket[l].pos <= Len(announced[To(l)])
  <2>1. From(l) \in Relays /\ To(l) \in Relays
    BY DEF From, To
  <2>2. store'[To(l)] \in Seq(Rec) /\ announced'[To(l)] \in Seq(Rec) /\ socket[l] \in SocketTask
    BY <2>1 DEF TypeOK
  <2>3. r \in Rec
    BY <1>1, <2>2 DEF InSeq
  <2>4. socket[l].pos \in Nat
    BY <2>2 DEF SocketTask
  <2> QED
    BY <2>1, <2>2, <2>3, <2>4 DEF PosInv
<1>3. Ahead(To(l), socket[l].pos) \subseteq After(To(l), socket[l].pos)
  BY <1>2, AheadStays
<1>4. CASE r \in Due(To(l))'
  BY <1>4 DEF After
<1>5. CASE r \in InSeq(store[To(l)])
  <2>1. peer[l].on /\ socket[l].subscribed
    BY <1>1 DEF PullMoves
  <2>2. r \in InSeq(store[From(l)]) \cup Ahead(To(l), socket[l].pos)
                \cup InSeq(socket[l].out) \cup InSeq(down[l]) \cup unpulled[l]
    BY <1>5, <2>1 DEF PullAccounted
  <2>3. CASE r \in InSeq(store[From(l)])
    BY <2>3 DEF Runs
  <2> QED
    BY <1>1, <1>2, <1>3, <2>2, <2>3 DEF PullMoves
<1> QED
  BY <1>1, <1>4, <1>5 DEF Runs

\* A receiver that takes the record next to it, or skips what the channel dropped.
LEMMA Takes ==
  ASSUME TypeOK, NEW p \in Relays, announced' = announced, NEW n \in Nat,
         n < Len(announced[p])
  PROVE  After(p, n) \subseteq After(p, n + 1) \cup {announced[p][n + 1]}
<1>1. Len(announced[p]) \in Nat
  BY DEF TypeOK
<1>2. ASSUME NEW i \in n + 1 .. Len(announced[p])
      PROVE  i = n + 1 \/ i \in (n + 1) + 1 .. Len(announced[p])
  BY <1>1
<1> QED
  BY <1>2 DEF After

LEMMA Skips ==
  ASSUME TypeOK, NEW p \in Relays, announced' = announced, NEW n \in Nat, Lagging(p, n)
  PROVE  /\ After(p, n) \subseteq After(p, Len(announced[p]) - Capacity) \cup Skipped(p, n)
         /\ Len(announced[p]) - Capacity \in Nat
<1>1. Len(announced[p]) \in Nat /\ Len(announced[p]) - n > Capacity
  BY DEF TypeOK, Lagging
<1>2. ASSUME NEW i \in n + 1 .. Len(announced[p])
      PROVE  \/ i \in n + 1 .. Len(announced[p]) - Capacity
             \/ i \in (Len(announced[p]) - Capacity) + 1 .. Len(announced[p])
  BY <1>1
<1> QED
  BY <1>1, <1>2 DEF After, Skipped

\* A link whose tasks and frames a step leaves alone.
LEMMA LinkRests ==
  ASSUME NEW l \in Links
  PROVE  /\ /\ peer'[l].on = peer[l].on /\ peer'[l].listens = peer[l].listens
            /\ peer'[l].out = peer[l].out /\ peer'[l].pos = peer[l].pos
            /\ up'[l] = up[l] /\ unpushed'[l] = unpushed[l]
            => PushMoves(l)
         /\ /\ peer'[l].on = peer[l].on /\ socket'[l].subscribed = socket[l].subscribed
            /\ socket'[l].out = socket[l].out /\ socket'[l].pos = socket[l].pos
            /\ down'[l] = down[l] /\ unpulled'[l] = unpulled[l]
            => PullMoves(l)
<1>1. ASSUME peer'[l].on = peer[l].on, peer'[l].listens = peer[l].listens,
             peer'[l].out = peer[l].out, peer'[l].pos = peer[l].pos,
             up'[l] = up[l], unpushed'[l] = unpushed[l]
      PROVE  PushMoves(l)
  BY <1>1 DEF PushMoves
<1>2. ASSUME peer'[l].on = peer[l].on, socket'[l].subscribed = socket[l].subscribed,
             socket'[l].out = socket[l].out, socket'[l].pos = socket[l].pos,
             down'[l] = down[l], unpulled'[l] = unpulled[l]
      PROVE  PullMoves(l)
  BY <1>2 DEF PullMoves
<1> QED
  BY <1>1, <1>2

\* A step of one link leaves the tasks and the frames of the others alone.
LEMMA OthersRest ==
  ASSUME TypeOK, NEW l \in Links, NEW k \in Links \ {l},
         PeerStep(l) \/ SocketStep(l) \/ IngestFails(l)
           \/ SocketQueryFails(l) \/ SocketRefusesPub(l) \/ Break(l)
  PROVE  /\ peer'[k] = peer[k] /\ socket'[k] = socket[k]
         /\ PushMoves(k) /\ PullMoves(k)
<1> USE DEF relayVars, linkVars, historyVars
<1>1. /\ peer'[k] = peer[k] /\ socket'[k] = socket[k]
      /\ up'[k] = up[k] /\ down'[k] = down[k]
      /\ unpushed'[k] = unpushed[k] /\ unpulled'[k] = unpulled[k]
  <2>1. CASE Connect(l) \/ PeerWrites(l) \/ PeerPushes(l) \/ PeerLags(l) \/ PeerAnnounces(l)
    BY <2>1 DEF Connect, PeerWrites, PeerPushes, PeerLags, PeerAnnounces, TypeOK
  <2>2. CASE PeerReads(l)
    <3>1. CASE Head(down[l]) \in Rec
      BY <2>2, <3>1 DEF PeerReads, TypeOK
    <3>2. CASE Head(down[l]) \notin Rec
      BY <2>2, <3>2 DEF PeerReads, TypeOK
    <3> QED
      BY <3>1, <3>2
  <2>3. CASE \/ ReqAnswered(l) \/ SocketServesPub(l) \/ SocketWrites(l)
             \/ SocketAnnounces(l) \/ SocketDelivers(l) \/ SocketLags(l)
    BY <2>3 DEF ReqAnswered, SocketServesReq, SocketQueryFails, SocketAnswersReq, SocketServesPub,
                SocketWrites, SocketAnnounces, SocketDelivers, SocketLags, TypeOK
  <2>4. CASE IngestFails(l) \/ SocketRefusesPub(l) \/ Break(l)
    BY <2>4 DEF IngestFails, SocketRefusesPub, Break, TypeOK
  <2> QED
    BY <2>1, <2>2, <2>3, <2>4 DEF PeerStep, SocketStep, ReqAnswered
<1> QED
  BY <1>1, LinkRests

\* What the link's own steps do to the records on their way.
LEMMA PeerMoves ==
  ASSUME TypeOK, TypeOK', NEW l \in Links, PeerStep(l) \/ IngestFails(l)
  PROVE  (PushMoves(l) \/ PushAccounted(l)') /\ PullMoves(l)
<1> USE DEF relayVars, linkVars, historyVars
<1>0. /\ From(l) \in Relays /\ To(l) \in Relays
      /\ peer[l] \in PeerTask /\ peer[l].pos \in Nat /\ peer[l].out \in Rec \cup {Req, None}
      /\ up[l] \in Seq(Rec \cup {Req}) /\ down[l] \in Seq(Rec \cup {Answer})
  BY DEF TypeOK, From, To, PeerTask
<1>1. CASE Connect(l)
  <2>1. ~peer'[l].listens /\ ~socket'[l].subscribed
    BY <1>1 DEF Connect, NoPeer, NoSocket, TypeOK
  <2> QED
    BY <2>1 DEF PushMoves, PullMoves
<1>2. CASE PeerWrites(l)
  <2>1. /\ peer' = [peer EXCEPT ![l] = [peer[l] EXCEPT !.out = None, !.listens = TRUE,
             !.pos = IF peer[l].listens THEN peer[l].pos ELSE Len(announced[From(l)])]]
        /\ up' = [up EXCEPT ![l] = Append(up[l], peer[l].out)] /\ peer[l].out # None
        /\ unpushed' = [unpushed EXCEPT ![l] = IF peer[l].listens THEN unpushed[l]
                          ELSE InSeq(store[From(l)]) \ Due(From(l))]
        /\ UNCHANGED <<store, socket, down, unpulled>>
    BY <1>2 DEF PeerWrites
  <2>2. /\ peer'[l].on = peer[l].on
        /\ peer'[l].pos = IF peer[l].listens THEN peer[l].pos ELSE Len(announced[From(l)])
        /\ up'[l] = Append(up[l], peer[l].out)
        /\ unpushed'[l] = IF peer[l].listens THEN unpushed[l]
                          ELSE InSeq(store[From(l)]) \ Due(From(l))
    BY <1>0, <2>1, PeerFields DEF TypeOK
  <2>3. CASE peer[l].listens
    <3>0. peer[l].out \in Rec \cup {Req}
      BY <1>0, <2>1
    <3>1. InSeq(up'[l]) = InSeq(up[l]) \cup {peer[l].out}
      BY <1>0, <2>2, <3>0, WriteOne
    <3> QED
      BY <2>1, <2>2, <2>3, <3>1, LinkRests DEF PushMoves
  <2>4. CASE ~peer[l].listens
    <3>1. \A j \in Links : peer'[j].due = peer[j].due /\ socket'[j].due = socket[j].due
      BY <1>2, QuietSteps
    <3>2. pending' = pending
      BY <1>2 DEF PeerWrites
    <3>3. \A r \in Due(From(l)) : r \in Due(From(l))'
      BY <3>1, <3>2, DueMembers DEF From
    <3>4. InSeq(store'[From(l)]) \subseteq unpushed'[l] \cup Due(From(l))'
      BY <2>1, <2>2, <2>4, <3>3
    <3>5. InSeq(store'[From(l)]) \subseteq unpushed'[l] \cup After(From(l), peer'[l].pos)
      BY <3>4 DEF After
    <3>6. PushAccounted(l)'
      BY <3>5, AheadNext DEF PushAccounted, From, To, InSeq
    <3> QED
      BY <2>1, <2>2, <3>6, LinkRests
  <2> QED
    BY <2>3, <2>4
<1>3. CASE PeerPushes(l)
  <2>1. /\ peer[l].out = None /\ peer[l].listens /\ peer[l].pos < Len(announced[From(l)])
        /\ peer' = [peer EXCEPT ![l] = [peer[l] EXCEPT !.pos = peer[l].pos + 1,
                                          !.out = announced[From(l)][peer[l].pos + 1]]]
        /\ UNCHANGED <<store, announced, socket, up, down, unpushed, unpulled>>
    BY <1>3 DEF PeerPushes, PeerSelects
  <2>2. /\ peer'[l].on = peer[l].on /\ peer'[l].pos = peer[l].pos + 1
        /\ peer'[l].out = announced[From(l)][peer[l].pos + 1]
    BY <1>0, <2>1, PeerFields DEF TypeOK
  <2>3. After(From(l), peer[l].pos) \subseteq After(From(l), peer'[l].pos) \cup {peer'[l].out}
    BY <1>0, <2>1, <2>2, Takes
  <2> QED
    BY <2>1, <2>2, <2>3, LinkRests DEF PushMoves
<1>4. CASE PeerLags(l)
  <2>1. /\ peer[l].listens /\ Lagging(From(l), peer[l].pos)
        /\ peer' = [peer EXCEPT ![l] = [peer[l] EXCEPT !.pos = Len(announced[From(l)]) - Capacity]]
        /\ unpushed' = [unpushed EXCEPT ![l] = unpushed[l] \cup Skipped(From(l), peer[l].pos)]
        /\ UNCHANGED <<store, announced, socket, up, down, unpulled>>
    BY <1>4 DEF PeerLags, PeerSelects
  <2>2. /\ peer'[l].on = peer[l].on /\ peer'[l].pos = Len(announced[From(l)]) - Capacity
        /\ peer'[l].out = peer[l].out
        /\ unpushed'[l] = unpushed[l] \cup Skipped(From(l), peer[l].pos)
    BY <1>0, <2>1, PeerFields DEF TypeOK
  <2>3. After(From(l), peer[l].pos)
          \subseteq After(From(l), peer'[l].pos) \cup Skipped(From(l), peer[l].pos)
    BY <1>0, <2>1, <2>2, Skips
  <2> QED
    BY <2>1, <2>2, <2>3, LinkRests DEF PushMoves
<1>5. CASE PeerReads(l)
  <2>1. /\ down[l] # <<>> /\ down' = [down EXCEPT ![l] = Tail(down[l])]
        /\ UNCHANGED <<socket, up, unpushed, unpulled>>
    BY <1>5 DEF PeerReads
  <2>2. InSeq(down[l]) = {Head(down[l])} \cup InSeq(down'[l]) /\ Head(down[l]) \in Rec \cup {Answer}
    <3>1. down[l] \in Seq(Rec \cup {Answer}) /\ down'[l] = Tail(down[l])
      BY <2>1 DEF TypeOK
    <3> QED
      BY <2>1, <3>1, ReadOne
  <2>3. CASE Head(down[l]) \in Rec
    <3>1. Insert(From(l), Head(down[l]))
          /\ peer' = [peer EXCEPT ![l] = [peer[l] EXCEPT
                                            !.due = ToAnnounce(From(l), Head(down[l]))]]
      BY <1>5, <2>3 DEF PeerReads
    <3>2. /\ peer'[l].on = peer[l].on /\ peer'[l].listens = peer[l].listens
          /\ peer'[l].out = peer[l].out /\ peer'[l].pos = peer[l].pos
      BY <1>0, <3>1, PeerFields DEF TypeOK
    <3>3. Head(down[l]) \in InSeq(store'[From(l)])
      <4>1. PICK q \in Relays, r \in Rec : q = From(l) /\ r = Head(down[l])
        BY <1>0, <2>3
      <4>2. Insert(q, r)
        BY <3>1, <4>1
      <4>3. r \in InSeq(store'[q])
        BY <4>2, InsertAdds
      <4> QED
        BY <4>1, <4>3
    <3> QED
      BY <2>1, <2>2, <3>2, <3>3, LinkRests DEF PullMoves
  <2>4. CASE Head(down[l]) \notin Rec
    <3>1. peer' = peer
      BY <1>5, <2>4 DEF PeerReads
    <3> QED
      BY <2>1, <2>2, <2>4, <3>1, LinkRests DEF PullMoves
  <2> QED
    BY <2>3, <2>4
<1>6. CASE PeerAnnounces(l)
  <2>1. peer' = [peer EXCEPT ![l] = [peer[l] EXCEPT !.due = None]]
        /\ UNCHANGED <<socket, up, down, unpushed, unpulled>>
    BY <1>6 DEF PeerAnnounces
  <2>2. /\ peer'[l].on = peer[l].on /\ peer'[l].listens = peer[l].listens
        /\ peer'[l].out = peer[l].out /\ peer'[l].pos = peer[l].pos
    BY <1>0, <2>1, PeerFields DEF TypeOK
  <2> QED
    BY <2>1, <2>2, LinkRests
<1>7. CASE IngestFails(l)
  <2>1. /\ down[l] # <<>> /\ down' = [down EXCEPT ![l] = Tail(down[l])]
        /\ unpulled' = [unpulled EXCEPT ![l] = unpulled[l] \cup {Head(down[l])}]
        /\ UNCHANGED <<peer, socket, up, unpushed>>
    BY <1>7 DEF IngestFails
  <2>2. InSeq(down[l]) = {Head(down[l])} \cup InSeq(down'[l])
        /\ unpulled'[l] = unpulled[l] \cup {Head(down[l])}
    BY <1>0, <2>1, ReadOne DEF TypeOK
  <2> QED
    BY <2>1, <2>2, LinkRests DEF PullMoves
<1> QED
  BY <1>1, <1>2, <1>3, <1>4, <1>5, <1>6, <1>7 DEF PeerStep

LEMMA SocketMoves ==
  ASSUME TypeOK, TypeOK', NEW l \in Links,
         SocketStep(l) \/ SocketQueryFails(l) \/ SocketRefusesPub(l)
  PROVE  PushMoves(l) /\ (PullMoves(l) \/ PullAccounted(l)')
<1> USE DEF relayVars, linkVars, historyVars
<1>0. /\ From(l) \in Relays /\ To(l) \in Relays
      /\ socket[l] \in SocketTask /\ socket[l].pos \in Nat
      /\ socket[l].out \in Seq(Rec \cup {Answer})
      /\ up[l] \in Seq(Rec \cup {Req}) /\ down[l] \in Seq(Rec \cup {Answer})
  BY DEF TypeOK, From, To, SocketTask
<1>1. CASE ReqAnswered(l)
  <2>0. PICK rows \in Seq(Rec) : SocketAnswersReq(l, rows)
    BY <1>0, <1>1, RowsAnswered DEF TypeOK
  <2>1. /\ up[l] # <<>> /\ Head(up[l]) = Req /\ up' = [up EXCEPT ![l] = Tail(up[l])]
        /\ socket' = [socket EXCEPT ![l] = [socket[l] EXCEPT !.out = Append(rows, Answer),
                                                            !.subscribed = TRUE]]
        /\ unpulled' = [unpulled EXCEPT ![l] =
             InSeq(store[To(l)]) \ (InSeq(rows) \cup Ahead(To(l), socket[l].pos))]
        /\ UNCHANGED <<store, announced, pending, peer, down, unpushed>>
    BY <2>0 DEF SocketAnswersReq
  <2>2. InSeq(up[l]) = {Req} \cup InSeq(up'[l])
    <3>1. up'[l] = Tail(up[l])
      BY <2>1 DEF TypeOK
    <3> QED
      BY <1>0, <2>1, <3>1, ReadOne
  <2>3. PushMoves(l)
    BY <2>1, <2>2 DEF PushMoves
  <2>4. /\ socket'[l].out = Append(rows, Answer) /\ socket'[l].pos = socket[l].pos
        /\ unpulled'[l] = InSeq(store[To(l)]) \ (InSeq(rows) \cup Ahead(To(l), socket[l].pos))
    BY <1>0, <2>1, SocketFields DEF TypeOK
  <2>5. InSeq(rows) \subseteq InSeq(socket'[l].out)
    <3>1. rows \in Seq(Rec \cup {Answer})
      BY SeqMonotonic
    <3> QED
      BY <2>4, <3>1, WriteOne
  <2>6. \A r \in Due(To(l)) : r \in Due(To(l))'
    <3>1. \A j \in Links : peer'[j].due = peer[j].due /\ socket'[j].due = socket[j].due
      BY <1>1, QuietSteps
    <3>2. pending'[To(l)] = pending[To(l)]
      BY <2>1
    <3>3. ASSUME NEW q \in Relays, q = To(l), NEW r \in Due(q) PROVE r \in Due(q)'
      <4>1. pending'[q] = pending[q]
        BY <3>2, <3>3
      <4> QED
        BY <3>1, <3>3, <4>1, OwedKept
    <3> QED
      BY <1>0, <3>3 DEF To
  <2>7. Ahead(To(l), socket[l].pos) \subseteq After(To(l), socket'[l].pos)
    BY <2>1, <2>4, <2>6 DEF Ahead, After
  <2>8. InSeq(store'[To(l)])
          \subseteq InSeq(socket'[l].out) \cup After(To(l), socket'[l].pos) \cup unpulled'[l]
    BY <2>1, <2>4, <2>5, <2>7
  <2>9. PullAccounted(l)'
    BY <2>8, AheadNext DEF PullAccounted, From, To, InSeq
  <2> QED
    BY <2>3, <2>9
<1>2. CASE SocketServesPub(l)
  <2>1. PICK q \in Relays, r \in Rec : q = To(l) /\ r = Head(up[l])
    BY <1>0, <1>2 DEF SocketServesPub
  <2>2. /\ up[l] # <<>> /\ up' = [up EXCEPT ![l] = Tail(up[l])] /\ socket[l].out = <<>>
        /\ Insert(q, r)
        /\ socket' = [socket EXCEPT ![l] = [socket[l] EXCEPT !.out = <<Answer>>,
                                              !.due = IF Has(q, r) THEN None ELSE r]]
        /\ UNCHANGED <<announced, peer, down, unpushed, unpulled>>
    BY <1>2, <2>1 DEF SocketServesPub, SocketSelects
  <2>3. r \in InSeq(store'[To(l)])
    <3>1. Insert(q, r)
      BY <2>2
    <3>2. r \in InSeq(store'[q])
      BY <3>1, InsertAdds
    <3> QED
      BY <2>1, <3>2
  <2>4. InSeq(up[l]) = {r} \cup InSeq(up'[l])
    BY <1>0, <2>1, <2>2, ReadOne DEF TypeOK
  <2>5. PushMoves(l)
    BY <2>2, <2>3, <2>4 DEF PushMoves
  <2>6. socket'[l].pos = socket[l].pos /\ socket'[l].subscribed = socket[l].subscribed
    BY <1>0, <2>2, SocketFields DEF TypeOK
  <2>7. InSeq(socket[l].out) = {}
    BY <2>2 DEF InSeq
  <2>8. PullMoves(l)
    BY <2>2, <2>6, <2>7 DEF PullMoves
  <2> QED
    BY <2>5, <2>8
<1>3. CASE SocketRefusesPub(l)
  <2>1. /\ up[l] # <<>> /\ up' = [up EXCEPT ![l] = Tail(up[l])] /\ socket[l].out = <<>>
        /\ socket' = [socket EXCEPT ![l] = [socket[l] EXCEPT !.out = <<Answer>>]]
        /\ unpushed' = [unpushed EXCEPT ![l] = unpushed[l] \cup {Head(up[l])}]
        /\ UNCHANGED <<store, announced, peer, down, unpulled>>
    BY <1>3 DEF SocketRefusesPub, SocketSelects
  <2>2. InSeq(up[l]) = {Head(up[l])} \cup InSeq(up'[l])
        /\ unpushed'[l] = unpushed[l] \cup {Head(up[l])}
    BY <1>0, <2>1, ReadOne DEF TypeOK
  <2>3. PushMoves(l)
    BY <2>1, <2>2 DEF PushMoves
  <2>4. socket'[l].pos = socket[l].pos /\ socket'[l].subscribed = socket[l].subscribed
    BY <1>0, <2>1, SocketFields DEF TypeOK
  <2>5. InSeq(socket[l].out) = {}
    BY <2>1 DEF InSeq
  <2>6. PullMoves(l)
    BY <2>1, <2>4, <2>5 DEF PullMoves
  <2> QED
    BY <2>3, <2>6
<1>4. CASE SocketWrites(l)
  <2>1. /\ socket[l].out # <<>>
        /\ down' = [down EXCEPT ![l] = Append(down[l], Head(socket[l].out))]
        /\ socket' = [socket EXCEPT ![l] = [socket[l] EXCEPT !.out = Tail(socket[l].out)]]
        /\ UNCHANGED <<store, announced, peer, up, unpushed, unpulled>>
    BY <1>4 DEF SocketWrites
  <2>2. /\ socket'[l].out = Tail(socket[l].out) /\ socket'[l].pos = socket[l].pos
        /\ socket'[l].subscribed = socket[l].subscribed
        /\ down'[l] = Append(down[l], Head(socket[l].out))
    BY <1>0, <2>1, SocketFields DEF TypeOK
  <2>3. Head(socket[l].out) \in Rec \cup {Answer}
        /\ InSeq(socket[l].out) = {Head(socket[l].out)} \cup InSeq(socket'[l].out)
    BY <1>0, <2>1, <2>2, ReadOne
  <2>4. InSeq(down'[l]) = InSeq(down[l]) \cup {Head(socket[l].out)}
    BY <1>0, <2>2, <2>3, WriteOne
  <2> QED
    BY <2>1, <2>2, <2>3, <2>4, LinkRests DEF PullMoves
<1>5. CASE SocketAnnounces(l)
  <2>1. socket' = [socket EXCEPT ![l] = [socket[l] EXCEPT !.due = None]]
        /\ UNCHANGED <<peer, up, down, unpushed, unpulled>>
    BY <1>5 DEF SocketAnnounces
  <2>2. /\ socket'[l].subscribed = socket[l].subscribed
        /\ socket'[l].out = socket[l].out /\ socket'[l].pos = socket[l].pos
    BY <1>0, <2>1, SocketFields DEF TypeOK
  <2> QED
    BY <2>1, <2>2, LinkRests
<1>6. CASE SocketDelivers(l)
  <2>. DEFINE r == announced[To(l)][socket[l].pos + 1]
  <2>1. /\ socket[l].out = <<>> /\ socket[l].pos < Len(announced[To(l)])
        /\ socket' = [socket EXCEPT ![l] = [socket[l] EXCEPT !.pos = socket[l].pos + 1,
             !.out = IF socket[l].subscribed THEN <<r>> ELSE <<>>]]
        /\ UNCHANGED <<store, announced, peer, up, down, unpushed, unpulled>>
    BY <1>6 DEF SocketDelivers, SocketSelects
  <2>2. /\ socket'[l].subscribed = socket[l].subscribed
        /\ socket'[l].pos = socket[l].pos + 1
        /\ socket'[l].out = IF socket[l].subscribed THEN <<r>> ELSE <<>>
    BY <1>0, <2>1, SocketFields DEF TypeOK
  <2>3. After(To(l), socket[l].pos) \subseteq After(To(l), socket'[l].pos) \cup {r}
    BY <1>0, <2>1, <2>2, Takes
  <2>4. InSeq(socket[l].out) = {} /\ (socket[l].subscribed => r \in InSeq(socket'[l].out))
    BY <2>1, <2>2 DEF InSeq
  <2> HIDE DEF r
  <2> QED
    BY <2>1, <2>2, <2>3, <2>4, LinkRests DEF PullMoves
<1>7. CASE SocketLags(l)
  <2>1. /\ Lagging(To(l), socket[l].pos)
        /\ socket' = [socket EXCEPT ![l] = [socket[l] EXCEPT !.pos = Len(announced[To(l)]) - Capacity]]
        /\ unpulled' = [unpulled EXCEPT ![l] = unpulled[l] \cup Skipped(To(l), socket[l].pos)]
        /\ UNCHANGED <<store, announced, peer, up, down, unpushed>>
    BY <1>7 DEF SocketLags
  <2>2. /\ socket'[l].subscribed = socket[l].subscribed /\ socket'[l].out = socket[l].out
        /\ socket'[l].pos = Len(announced[To(l)]) - Capacity
        /\ unpulled'[l] = unpulled[l] \cup Skipped(To(l), socket[l].pos)
    BY <1>0, <2>1, SocketFields DEF TypeOK
  <2>3. After(To(l), socket[l].pos)
          \subseteq After(To(l), socket'[l].pos) \cup Skipped(To(l), socket[l].pos)
    BY <1>0, <2>1, <2>2, Skips
  <2> QED
    BY <2>1, <2>2, <2>3, LinkRests DEF PullMoves
<1> QED
  BY <1>1, <1>2, <1>3, <1>4, <1>5, <1>6, <1>7 DEF SocketStep, ReqAnswered

\* Channels only grow, and a receiver is set to a place within its channel.
LEMMA PosStep ==
  ASSUME TypeOK, TypeOK', Next, PosInv
  PROVE  PosInv'
<1> USE DEF relayVars, linkVars, historyVars
<1>0. ASSUME NEW l \in Links
      PROVE  /\ From(l) \in Relays /\ To(l) \in Relays
             /\ peer[l] \in PeerTask /\ socket[l] \in SocketTask
             /\ peer[l].pos \in Nat /\ socket[l].pos \in Nat
             /\ Len(announced[From(l)]) \in Nat /\ Len(announced[To(l)]) \in Nat
  <2>1. From(l) \in Relays /\ To(l) \in Relays
    BY DEF From, To
  <2>2. peer[l] \in PeerTask /\ socket[l] \in SocketTask
    BY DEF TypeOK
  <2>3. peer[l].pos \in Nat /\ socket[l].pos \in Nat
    BY <2>2 DEF PeerTask, SocketTask
  <2>4. announced[From(l)] \in Seq(Rec) /\ announced[To(l)] \in Seq(Rec)
    BY <2>1 DEF TypeOK
  <2> QED
    BY <2>1, <2>2, <2>3, <2>4, LenProperties
<1>1. ASSUME NEW p \in Relays
      PROVE  Len(announced[p]) <= Len(announced'[p]) /\ Len(announced'[p]) \in Nat
  <2>1. CASE Restart(p)
    BY <2>1 DEF Restart, TypeOK
  <2>2. CASE ~Restart(p)
    BY <2>2, RunsStep DEF Runs, TypeOK
  <2> QED
    BY <2>1, <2>2
<1>2. SUFFICES ASSUME NEW k \in Links
               PROVE  /\ \/ peer'[k].pos = peer[k].pos
                         \/ peer'[k].pos <= Len(announced[From(k)])
                      /\ \/ socket'[k].pos = socket[k].pos
                         \/ socket'[k].pos <= Len(announced[To(k)])
  <2>1. ASSUME NEW k \in Links
        PROVE  /\ peer'[k].pos <= Len(announced'[From(k)])
               /\ socket'[k].pos <= Len(announced'[To(k)])
    <3>1. peer'[k].pos \in Nat /\ socket'[k].pos \in Nat
      BY DEF TypeOK, PeerTask, SocketTask
    <3>2. /\ peer'[k].pos = peer[k].pos \/ peer'[k].pos <= Len(announced[From(k)])
          /\ socket'[k].pos = socket[k].pos \/ socket'[k].pos <= Len(announced[To(k)])
      BY <1>2
    <3>3. peer[k].pos <= Len(announced[From(k)]) /\ socket[k].pos <= Len(announced[To(k)])
      BY DEF PosInv
    <3>4. /\ Len(announced[From(k)]) <= Len(announced'[From(k)])
          /\ Len(announced[To(k)]) <= Len(announced'[To(k)])
          /\ Len(announced'[From(k)]) \in Nat /\ Len(announced'[To(k)]) \in Nat
      BY <1>0, <1>1
    <3> QED
      BY <1>0, <3>1, <3>2, <3>3, <3>4
  <2> QED
    BY <2>1 DEF PosInv, From, To
<1>3. ASSUME NEW p \in Relays, NEW r \in Rec, Publish(p, r) \/ ClientAnnounces(p, r)
      PROVE  peer'[k].pos = peer[k].pos /\ socket'[k].pos = socket[k].pos
  BY <1>3 DEF Publish, ClientAnnounces
<1>4. ASSUME NEW l \in Links,
             PeerStep(l) \/ SocketStep(l) \/ IngestFails(l)
           \/ SocketQueryFails(l) \/ SocketRefusesPub(l) \/ Break(l),
             k # l
      PROVE  peer'[k].pos = peer[k].pos /\ socket'[k].pos = socket[k].pos
  BY <1>4, OthersRest
<1>5. CASE Connect(k)
  <2>1. peer'[k].pos = 0 /\ socket'[k].pos = Len(announced[To(k)])
    BY <1>5 DEF Connect, NoPeer, NoSocket, TypeOK
  <2> QED
    BY <1>0, <2>1
<1>6. CASE PeerWrites(k)
  <2>1. peer'[k].pos \in {peer[k].pos, Len(announced[From(k)])} /\ socket' = socket
    BY <1>0, <1>6, PeerFields DEF PeerWrites, TypeOK
  <2> QED
    BY <1>0, <2>1
<1>7. CASE PeerPushes(k)
  <2>1. peer'[k].pos = peer[k].pos + 1 /\ peer[k].pos < Len(announced[From(k)])
        /\ socket' = socket
    BY <1>0, <1>7, PeerFields DEF PeerPushes, TypeOK
  <2> QED
    BY <1>0, <2>1
<1>8. CASE PeerLags(k)
  <2>1. peer'[k].pos = Len(announced[From(k)]) - Capacity /\ socket' = socket
    BY <1>0, <1>8, PeerFields DEF PeerLags, TypeOK
  <2> QED
    BY <1>0, <2>1
<1>9. CASE PeerReads(k)
  <2>1. peer'[k].pos = peer[k].pos /\ socket' = socket
    <3>1. CASE Head(down[k]) \in Rec
      <4>1. peer' = [peer EXCEPT ![k] = [peer[k] EXCEPT
                                           !.due = ToAnnounce(From(k), Head(down[k]))]]
            /\ socket' = socket
        BY <1>9, <3>1 DEF PeerReads
      <4> QED
        BY <1>0, <4>1, PeerFields DEF TypeOK
    <3>2. CASE Head(down[k]) \notin Rec
      BY <1>9, <3>2 DEF PeerReads
    <3> QED
      BY <3>1, <3>2
  <2> QED
    BY <2>1
<1>10. CASE PeerAnnounces(k) \/ IngestFails(k)
  <2>1. CASE PeerAnnounces(k)
    <3>1. peer' = [peer EXCEPT ![k] = [peer[k] EXCEPT !.due = None]] /\ socket' = socket
      BY <2>1 DEF PeerAnnounces
    <3> QED
      BY <1>0, <3>1, PeerFields DEF TypeOK
  <2>2. CASE IngestFails(k)
    BY <2>2 DEF IngestFails
  <2> QED
    BY <1>10, <2>1, <2>2
<1>11. CASE ReqAnswered(k) \/ SocketServesPub(k)
  <2>1. CASE ReqAnswered(k)
    <3>1. PICK rows : SocketAnswersReq(k, rows)
      BY <2>1 DEF ReqAnswered, SocketServesReq, SocketQueryFails
    <3> QED
      BY <1>0, <3>1, SocketFields DEF SocketAnswersReq, TypeOK
  <2>2. CASE SocketServesPub(k)
    BY <1>0, <2>2, SocketFields DEF SocketServesPub, TypeOK
  <2> QED
    BY <1>11, <2>1, <2>2
<1>12. CASE SocketRefusesPub(k) \/ SocketWrites(k) \/ SocketAnnounces(k)
  <2>1. CASE SocketRefusesPub(k)
    BY <1>0, <2>1, SocketFields DEF SocketRefusesPub, TypeOK
  <2>2. CASE SocketWrites(k)
    BY <1>0, <2>2, SocketFields DEF SocketWrites, TypeOK
  <2>3. CASE SocketAnnounces(k)
    BY <1>0, <2>3, SocketFields DEF SocketAnnounces, TypeOK
  <2> QED
    BY <1>12, <2>1, <2>2, <2>3
<1>13. CASE SocketDelivers(k)
  <2>1. socket'[k].pos = socket[k].pos + 1 /\ socket[k].pos < Len(announced[To(k)])
        /\ peer' = peer
    BY <1>0, <1>13, SocketFields DEF SocketDelivers, TypeOK
  <2> QED
    BY <1>0, <2>1
<1>14. CASE SocketLags(k)
  <2>1. socket'[k].pos = Len(announced[To(k)]) - Capacity /\ peer' = peer
    BY <1>0, <1>14, SocketFields DEF SocketLags, TypeOK
  <2> QED
    BY <1>0, <2>1
<1>15. CASE Break(k)
  <2>1. peer'[k].pos = 0 /\ socket'[k].pos = 0
    BY <1>15 DEF Break, NoPeer, NoSocket, TypeOK
  <2> QED
    BY <1>0, <2>1
<1>16. ASSUME NEW p \in Relays, Restart(p)
       PROVE  peer'[k].pos \in {peer[k].pos, 0} /\ socket'[k].pos \in {socket[k].pos, 0}
  BY <1>16 DEF Restart, NoPeer, NoSocket
<1> QED
  BY <1>0, <1>3, <1>4, <1>5, <1>6, <1>7, <1>8, <1>9, <1>10, <1>11, <1>12, <1>13, <1>14, <1>15, <1>16
     DEF Next, PeerStep, SocketStep, ReqAnswered

LEMMA LossStep ==
  ASSUME TypeOK, TypeOK', Next, LossInv
  PROVE  LossInv'
<1> USE DEF relayVars, linkVars, historyVars
<1>1. PosInv'
  BY PosStep DEF LossInv
<1>2. SUFFICES ASSUME NEW k \in Links
               PROVE  PushAccounted(k)' /\ PullAccounted(k)'
  <2>1. \A l \in Links : PushAccounted(l)' /\ PullAccounted(l)'
    BY <1>2
  <2> QED
    BY <1>1, <2>1 DEF LossInv, NothingLostSilently, PushAccounted, PullAccounted
<1>3. /\ PosInv /\ PushAccounted(k) /\ PullAccounted(k)
      /\ From(k) \in Relays /\ To(k) \in Relays
  BY LossHalves DEF LossInv, From, To
<1>4. CASE Restart(From(k)) \/ Restart(To(k))
  <2>1. ~peer'[k].on
    BY <1>3, <1>4, PlainTasks, PeerFields DEF Restart, NoPeer
  <2> QED
    BY <2>1 DEF PushAccounted, PullAccounted
<1>5. CASE Break(k)
  <2>1. ~peer'[k].on
    BY <1>5 DEF Break, NoPeer, TypeOK
  <2> QED
    BY <2>1 DEF PushAccounted, PullAccounted
<1>6. CASE ~(Restart(From(k)) \/ Restart(To(k)) \/ Break(k))
  <2>1. Runs(From(k)) /\ Runs(To(k))
    BY <1>3, <1>6, RunsStep
  <2>2. PushMoves(k) => PushAccounted(k)'
    BY <1>3, <2>1, PushStays
  <2>3. PullMoves(k) => PullAccounted(k)'
    BY <1>3, <2>1, PullStays
  <2>4. ASSUME NEW p \in Relays, NEW r \in Rec, Publish(p, r) \/ ClientAnnounces(p, r)
        PROVE  PushMoves(k) /\ PullMoves(k)
    BY <2>4, LinkRests DEF Publish, ClientAnnounces
  <2>5. ASSUME NEW l \in Links,
               PeerStep(l) \/ SocketStep(l) \/ IngestFails(l)
           \/ SocketQueryFails(l) \/ SocketRefusesPub(l) \/ Break(l),
               k # l
        PROVE  PushMoves(k) /\ PullMoves(k)
    BY <2>5, OthersRest
  <2>6. ASSUME NEW p \in Relays, Restart(p)
        PROVE  PushMoves(k) /\ PullMoves(k)
    <3>1. p # From(k) /\ p # To(k)
      BY <1>6, <2>6
    <3> QED
      BY <2>6, <3>1, LinkRests DEF Restart
  <2>7. CASE PeerStep(k) \/ IngestFails(k)
    BY <2>2, <2>3, <2>7, PeerMoves
  <2>8. CASE SocketStep(k) \/ SocketQueryFails(k) \/ SocketRefusesPub(k)
    BY <2>2, <2>3, <2>8, SocketMoves
  <2> QED
    BY <1>6, <2>2, <2>3, <2>4, <2>5, <2>6, <2>7, <2>8 DEF Next
<1> QED
  BY <1>4, <1>5, <1>6

\* Gossip accounts for every record, in both directions of every link, whatever breaks
\* and however slow its tasks are: what one relay holds and its peer does not is on its
\* way, or was given up for one of the causes gossip.rs and sync.rs have: accepted before
\* the subscription, beyond the backfill or in one whose query failed, skipped by a
\* lagging receiver, or refused.
THEOREM LossAccounted == Spec => []NothingLostSilently
<1>1. Init => LossInv
  BY DEF Init, LossInv, PosInv, NothingLostSilently, NoPeer, NoSocket
<1>2. LossInv /\ UNCHANGED vars => LossInv'
  <2>1. SUFFICES ASSUME LossInv, UNCHANGED vars PROVE LossInv'
    OBVIOUS
  <2>2. UNCHANGED <<store, announced, pending, peer, socket, up, down, unpushed, unpulled>>
    BY <2>1 DEF vars, relayVars, linkVars, historyVars
  <2>3. ASSUME NEW p PROVE Due(p)' = Due(p)
    BY <2>2 DEF Due
  <2>4. ASSUME NEW l \in Links
        PROVE  /\ Ahead(From(l), peer[l].pos)' = Ahead(From(l), peer[l].pos)
               /\ Ahead(To(l), socket[l].pos)' = Ahead(To(l), socket[l].pos)
    BY <2>2, <2>3, AheadNext DEF After, Ahead
  <2>5. PosInv'
    BY <2>1, <2>2 DEF LossInv, PosInv, From, To
  <2>6. ASSUME NEW l \in Links PROVE PushAccounted(l)' /\ PullAccounted(l)'
    <3>1. PushAccounted(l) /\ PullAccounted(l)
      BY <2>1, LossHalves DEF LossInv
    <3>2. PushAccounted(l)'
      BY <2>2, <2>4, <3>1 DEF PushAccounted, InSeq, From, To
    <3>3. PullAccounted(l)'
      BY <2>2, <2>4, <3>1 DEF PullAccounted, InSeq, From, To
    <3> QED
      BY <3>2, <3>3
  <2> QED
    BY <2>5, <2>6 DEF LossInv, NothingLostSilently, PushAccounted, PullAccounted
<1>3. LossInv => NothingLostSilently
  BY DEF LossInv
<1>4. TypeOK /\ Next /\ LossInv => LossInv'
  BY TypeStep, LossStep
<1> QED
  BY <1>1, <1>2, <1>3, <1>4, TypeCorrect, PTL DEF Spec

=============================================================================
