------------------------------- MODULE MCRelay -------------------------------
EXTENDS Relay, TLC

CONSTANTS r1, r2, bad, alice, pub, sub, s1

MCRec == {r1, r2, bad}
MCForged == {bad}
MCKindOf == [r \in Rec |-> 1]
MCAuthorOf == [r \in Rec |-> alice]
MCRefsOf == [r \in Rec |-> {}]
NoKindDays == [k \in {} |-> 0]

Everything == [kinds |-> Absent, authors |-> Absent, ids |-> Absent,
               refs |-> Absent, since |-> Absent, limit |-> Absent]

LatestOnly == [Everything EXCEPT !.limit = 1]
OnlyFirst == [Everything EXCEPT !.ids = {r1}]

MCLatest == {LatestOnly}
MCOnlyFirst == {OnlyFirst}

MCRecordSymmetry == Permutations({r1, r2})

\* One client publishes two records and a forgery; the other subscribes.
MCSends ==
  (pub :> {PubFrame(r1, TRUE), PubFrame(r2, TRUE), PubFrame(bad, TRUE)})
    @@ (sub :> {ReqFrame(s1, LatestOnly)})

\* One record is published, within the author's rate; the other client subscribes
\* and unsubscribes.
MCRecOne == {r1}
MCNoForged == {}
MCSendsLimited ==
  (pub :> {PubFrame(r1, TRUE)})
    @@ (sub :> {ReqFrame(s1, OnlyFirst), CloseFrame(s1)})

=============================================================================
