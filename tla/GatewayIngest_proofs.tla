------------------------- MODULE GatewayIngest_proofs -------------------------
(***************************************************************************)
(* Proofs about GatewayIngest.  What a record does to the tables is stated *)
(* once, in the lemmas on Upsert, Retract and Effect; the theorems look at *)
(* the actions.                                                            *)
(***************************************************************************)
EXTENDS GatewayIngest, TLAPS

USE PolicyAssumption, IngestAssumption

LEMMA HashesTyped ==
  /\ Rec \subseteq Hash
  /\ \A r \in Rec : \A i \in 1..Len(RefsOf[r]) : RefsOf[r][i] \in Hash
  /\ \A r \in Rec : RefsOf[r] # <<>> => 1 \in 1..Len(RefsOf[r]) /\ Target(r) \in Hash
  /\ \A r \in Rec : AuthorOf[r] \in Authors
<1>1. Rec \subseteq Hash
  BY DEF Hash
<1>2. \A r \in Rec : RefsOf[r] \in Seq(Hash)
  OBVIOUS
<1> QED
  BY <1>1, <1>2 DEF Target, Authors

\* The kind under which a record is indexed: its own, or the one it edits.
IndexedAs(kind, r) ==
  kind = KindOf[r] \/ (KindOf[r] = "supersede" /\ kind \in Superseding)

LEMMA SubjectTyped ==
  ASSUME NEW r \in Rec, NEW kind \in Tabled, IndexedAs(kind, r), index \subseteq Row
  PROVE  Subject(kind, r) \in Hash \cup {None}
<1>1. FirstRecordRef(r) \in Hash \cup {None}
  BY HashesTyped DEF FirstRecordRef
<1>2. CASE kind \in {"playlist", "channel"}
  BY <1>2 DEF Subject, Claims
<1>3. CASE kind \notin Claims \cup {"playlist", "channel"}
  BY <1>1, <1>3 DEF Subject
<1>4. CASE kind = "claim"
  BY <1>1, <1>4 DEF Subject, ClaimSubject, Claims
<1>5. CASE kind \in {"dispute", "counter"}
  BY <1>5 DEF Subject, ClaimSubject, Claims, RowsOf, Row
<1>6. CASE kind = "notice"
  <2> DEFINE named == {i \in 1..Len(RefsOf[r]) : RefsOf[r][i] \notin Blob}
             first == {i \in named : \A j \in named : i <= j}
  <2>1. Subject(kind, r) = IF first = {} THEN None ELSE RefsOf[r][CHOOSE i \in first : TRUE]
    BY <1>6 DEF Subject, ClaimSubject, Claims
  <2>2. first # {} => (CHOOSE i \in first : TRUE) \in 1..Len(RefsOf[r])
    OBVIOUS
  <2> HIDE DEF first
  <2> QED
    BY <2>1, <2>2, HashesTyped
<1> QED
  BY <1>2, <1>3, <1>4, <1>5, <1>6 DEF Claims

\* What the upsert of a table leaves: the other rows as they were, and one row for id.
LEMMA UpsertRows ==
  ASSUME NEW r \in Rec, NEW id \in Rec, NEW kind, Subject(kind, r) \in Hash \cup {None},
         index \subseteq Row, \A x, y \in index : x.id = y.id => x = y
  PROVE  LET I == Upsert(kind, id, r) IN
           /\ I \subseteq Row
           /\ \A x, y \in I : x.id = y.id => x = y
           /\ \A x \in (index \ I) \cup (I \ index) : x.id = id
           /\ \A x \in I \ index : ~x.retracted
           /\ \A x \in index : \E y \in I : y.id = x.id
           /\ \E y \in I : y.id = id
<1> DEFINE fresh == [id |-> id, body |-> r, subject |-> Subject(kind, r), retracted |-> FALSE]
           Merged(row) == CASE kind = "manifest" -> fresh
                            [] kind = "follow" -> [row EXCEPT !.retracted = FALSE]
                            [] OTHER -> [row EXCEPT !.body = r, !.retracted = FALSE]
           I == Upsert(kind, id, r)
           Good(J) == /\ J \subseteq Row
                      /\ \A x, y \in J : x.id = y.id => x = y
                      /\ \A x \in (index \ J) \cup (J \ index) : x.id = id
                      /\ \A x \in J \ index : ~x.retracted
                      /\ \A x \in index : \E y \in J : y.id = x.id
                      /\ \E y \in J : y.id = id
<1>1. fresh \in Row /\ fresh.id = id /\ ~fresh.retracted
  BY DEF Row
<1>2. ASSUME NEW x \in index, x.id = id
      PROVE  Merged(x) \in Row /\ Merged(x).id = id /\ ~Merged(x).retracted
  <2>1. x \in Row
    OBVIOUS
  <2>2. CASE kind = "manifest"
    BY <2>2, <1>1
  <2>3. CASE kind = "follow"
    BY <2>1, <2>3, <1>2 DEF Row
  <2>4. CASE kind \notin {"manifest", "follow"}
    <3>1. Merged(x) = [x EXCEPT !.body = r, !.retracted = FALSE]
      BY <2>4
    <3> QED
      BY <2>1, <3>1, <1>2 DEF Row
  <2> QED
    BY <2>2, <2>3, <2>4
<1>3. I = IF RowsOf(id) = {} THEN index \cup {fresh}
          ELSE {IF row.id = id THEN Merged(row) ELSE row : row \in index}
  BY DEF Upsert
<1> HIDE DEF fresh, Merged, I
<1>4. ASSUME RowsOf(id) = {} PROVE Good(I)
  <2>1. I = index \cup {fresh}
    BY <1>3, <1>4
  <2> QED
    BY <1>1, <1>4, <2>1 DEF RowsOf
<1>5. ASSUME RowsOf(id) # {} PROVE Good(I)
  <2>1. I = {IF row.id = id THEN Merged(row) ELSE row : row \in index}
    BY <1>3, <1>5
  <2>2. PICK old \in index : old.id = id
    BY <1>5 DEF RowsOf
  <2>3. \A x \in index : (IF x.id = id THEN Merged(x) ELSE x).id = x.id
    BY <1>2
  <2>4. I \subseteq Row /\ \A x, y \in I : x.id = y.id => x = y
    BY <1>2, <2>1, <2>3
  <2>5. /\ \A x \in (index \ I) \cup (I \ index) : x.id = id
        /\ \A x \in I \ index : ~x.retracted
    BY <1>2, <2>1
  <2>6. \A x \in index : \E y \in I : y.id = x.id
    BY <2>1, <2>3
  <2> QED
    BY <2>2, <2>4, <2>5, <2>6
<1> QED
  BY <1>4, <1>5 DEF I

\* What the tables are at any time, and what a record may do to them in one step.
TablesOK ==
  /\ index \subseteq Row
  /\ reactions \subseteq ReactionRow
  /\ profiles \subseteq ProfileRow
  /\ withdrawn \subseteq Rec
  /\ OneRowPerKey

TouchesOnlyOf(author) ==
  \A row \in (index \ index') \cup (index' \ index) : AuthorOf[row.id] = author

KeepsIds == \A x \in index : \E y \in index' : y.id = x.id

LEMMA RetractTables ==
  ASSUME TablesOK, NEW id \in Rec, Retract(id)
  PROVE  TablesOK' /\ TouchesOnlyOf(AuthorOf[id]) /\ KeepsIds
<1>1. CASE KindOf[id] = "reaction"
  BY <1>1 DEF TablesOK, OneRowPerKey, Retract, TouchesOnlyOf, KeepsIds
<1>2. CASE KindOf[id] # "reaction"
  <2> DEFINE New(row) == IF row.id = id /\ KindOf[id] \in Retractable
                         THEN [row EXCEPT !.retracted = TRUE] ELSE row
  <2>1. index' = {New(row) : row \in index}
    BY <1>2 DEF Retract
  <2>2. UNCHANGED <<reactions, withdrawn, profiles>>
    BY <1>2 DEF Retract
  <2>3. \A x \in index : /\ New(x) \in Row /\ New(x).id = x.id
                         /\ x.id # id => New(x) = x
    <3>1. index \subseteq Row
      BY DEF TablesOK
    <3> QED
      BY <3>1 DEF Row
  <2> HIDE DEF New
  <2>4. index' \subseteq Row /\ \A x, y \in index' : x.id = y.id => x = y
    BY <2>1, <2>3 DEF TablesOK, OneRowPerKey
  <2>5. \A x \in (index \ index') \cup (index' \ index) : x.id = id
    BY <2>1, <2>3
  <2>6. KeepsIds
    BY <2>1, <2>3 DEF KeepsIds
  <2> QED
    BY <2>2, <2>4, <2>5, <2>6 DEF TablesOK, OneRowPerKey, TouchesOnlyOf
<1> QED
  BY <1>1, <1>2

LEMMA ReactionTables ==
  ASSUME TablesOK, NEW r \in Rec, NEW at \in Clock, RefsOf[r] # <<>>,
         IndexReaction(r, at), UNCHANGED <<index, profiles, withdrawn>>
  PROVE  TablesOK' /\ TouchesOnlyOf(AuthorOf[r]) /\ KeepsIds
<1>1. reactions' \subseteq ReactionRow
  BY HashesTyped DEF IndexReaction, ReactionRow, TablesOK
<1>2. \A x, y \in reactions' : x.target = y.target /\ x.author = y.author => x = y
  BY DEF IndexReaction, TablesOK, OneRowPerKey
<1> QED
  BY <1>1, <1>2 DEF TablesOK, OneRowPerKey, TouchesOnlyOf, KeepsIds

LEMMA ProfileTables ==
  ASSUME TablesOK, NEW r \in Rec, NEW id \in Rec, NEW at \in Clock,
         IndexProfile(id, r, at), UNCHANGED <<index, reactions, withdrawn>>
  PROVE  TablesOK' /\ TouchesOnlyOf(AuthorOf[r]) /\ KeepsIds
<1>1. profiles' \subseteq ProfileRow
  BY HashesTyped DEF IndexProfile, ProfileRow, TablesOK
<1>2. \A x, y \in profiles' : x.author = y.author => x = y
  BY DEF IndexProfile, TablesOK, OneRowPerKey
<1> QED
  BY <1>1, <1>2 DEF TablesOK, OneRowPerKey, TouchesOnlyOf, KeepsIds

\* The dispatch on a kind, for a record or for the one that it edits.
LEMMA IndexAsTables ==
  ASSUME TablesOK, NEW r \in Rec, NEW id \in Rec, NEW at \in Clock,
         NEW kind \in Kinds, IndexedAs(kind, r), AuthorOf[id] = AuthorOf[r],
         IndexAs(kind, id, r, at)
  PROVE  /\ TablesOK' /\ TouchesOnlyOf(AuthorOf[r]) /\ KeepsIds
         /\ kind \in Tabled => \E y \in index' : y.id = id
<1>1. CASE kind \in Tabled /\ index' = Upsert(kind, id, r)
           /\ UNCHANGED <<reactions, profiles, withdrawn>>
  <2>1. Subject(kind, r) \in Hash \cup {None}
    BY <1>1, SubjectTyped DEF TablesOK
  <2>2. /\ index' \subseteq Row
        /\ \A x, y \in index' : x.id = y.id => x = y
        /\ \A x \in (index \ index') \cup (index' \ index) : x.id = id
        /\ \A x \in index : \E y \in index' : y.id = x.id
        /\ \E y \in index' : y.id = id
    BY <1>1, <2>1, UpsertRows DEF TablesOK, OneRowPerKey
  <2> QED
    BY <1>1, <2>2 DEF TablesOK, OneRowPerKey, TouchesOnlyOf, KeepsIds
<1>2. CASE kind = "reaction" /\ IndexReaction(r, at) /\ UNCHANGED <<index, profiles, withdrawn>>
  <2>1. KindOf[r] = "reaction"
    BY <1>2 DEF IndexedAs, Superseding
  <2> QED
    BY <1>2, <2>1, ReactionTables DEF Tabled, Claims
<1>3. CASE kind = "profile" /\ IndexProfile(id, r, at) /\ UNCHANGED <<index, reactions, withdrawn>>
  BY <1>3, ProfileTables DEF Tabled, Claims
<1>4. CASE kind \in {"rotation", "supersede", "retract", "feed", "other"} /\ UNCHANGED tables
  BY <1>4 DEF tables, Tabled, Claims, TablesOK, OneRowPerKey, TouchesOnlyOf, KeepsIds
<1> QED
  BY <1>1, <1>2, <1>3, <1>4 DEF IndexAs

-----------------------------------------------------------------------------
\* A batch is applied at most once, and feed_state keeps the largest sequence.
NewBatch ==
  \E b \in batches' : \A x \in batches : <<x.feed, x.seq>> # <<b.feed, b.seq>>

LEMMA BatchHashes ==
  ASSUME NEW r \in Batches
  PROVE  BatchOf[r].add \subseteq Hash
<1> SUFFICES ASSUME NEW h \in BatchOf[r].add PROVE h \in Hash
  OBVIOUS
<1>1. h \in BatchOf[r].add \cup BatchOf[r].remove
  OBVIOUS
<1>2. h \in UNION {BatchOf[q].add \cup BatchOf[q].remove : q \in Batches}
  BY <1>1
<1> QED
  BY <1>2 DEF Hash

LEMMA BatchPolicy ==
  ASSUME PolicyTypeOK, LastSeqIsLargest, NEW r \in Batches, ApplyBatch(r)
  PROVE  PolicyTypeOK' /\ LastSeqIsLargest' /\ (denylist' # denylist => NewBatch)
<1> DEFINE b == BatchOf[r]
           row == [feed |-> b.feed, seq |-> b.seq, rec |-> r]
<1>1. CASE UNCHANGED policyVars
  BY <1>1 DEF policyVars, PolicyTypeOK, LastSeqIsLargest
<1>2. CASE ~UNCHANGED policyVars
  <2>1. /\ ~Seen(r)
        /\ denylist' = Lift(Deny(denylist, b.add, b.feed), b.remove)
        /\ batches' = batches \cup {row}
        /\ lastSeq' = [lastSeq EXCEPT ![b.feed] = Later(@, b.seq)]
        /\ file' = file
    BY <1>2 DEF ApplyBatch
  <2>2. b.feed \in Feed /\ b.seq \in Nat /\ r \in Rec
    BY DEF Batches
  <2>3. b.add \subseteq Hash
    BY BatchHashes
  <2>4. denylist' \subseteq [hash : Hash, by : Feed \cup {"notice"}]
    BY <2>1, <2>2, <2>3 DEF Lift, Deny, PolicyTypeOK
  <2>5. PolicyTypeOK'
    BY <2>1, <2>2, <2>4 DEF PolicyTypeOK, Later
  <2>6. NewBatch
    <3>1. row \in batches' /\ row.feed = b.feed /\ row.seq = b.seq
      BY <2>1
    <3>2. \A x \in batches : ~(x.feed = b.feed /\ x.seq = b.seq)
      BY <2>1 DEF Seen
    <3> QED
      BY <3>1, <3>2 DEF NewBatch
  <2>7. LastSeqIsLargest'
    <3> SUFFICES ASSUME NEW f \in Feed
                 PROVE  /\ \A x \in batches' : x.feed = f => x.seq <= lastSeq'[f]
                        /\ lastSeq'[f] # -1 =>
                             \E x \in batches' : x.feed = f /\ x.seq = lastSeq'[f]
      BY DEF LastSeqIsLargest
    <3>1. /\ \A x \in batches : x.feed = f => x.seq <= lastSeq[f]
          /\ lastSeq[f] # -1 => \E x \in batches : x.feed = f /\ x.seq = lastSeq[f]
      BY DEF LastSeqIsLargest
    <3>2. lastSeq[f] \in Nat \cup {-1} /\ \A x \in batches : x.seq \in Nat
      BY DEF PolicyTypeOK
    <3>3. lastSeq'[f] = IF f = b.feed THEN Later(lastSeq[f], b.seq) ELSE lastSeq[f]
      BY <2>1, <2>2 DEF PolicyTypeOK
    <3>4. row \in batches' /\ row.feed = b.feed /\ row.seq = b.seq
      BY <2>1
    <3>5. /\ lastSeq'[f] \in Nat \cup {-1} /\ lastSeq[f] <= lastSeq'[f]
          /\ f = b.feed => b.seq <= lastSeq'[f] /\ lastSeq'[f] \in {lastSeq[f], b.seq}
          /\ f # b.feed => lastSeq'[f] = lastSeq[f]
      BY <2>2, <3>2, <3>3 DEF Later
    <3>6. \A x \in batches' : x.feed = f => x.seq <= lastSeq'[f]
      <4> SUFFICES ASSUME NEW x \in batches', x.feed = f PROVE x.seq <= lastSeq'[f]
        OBVIOUS
      <4>1. CASE x \in batches
        BY <4>1, <3>1, <3>2, <3>5
      <4>2. CASE x = row
        BY <4>2, <3>4, <3>5
      <4> QED
        BY <4>1, <4>2, <2>1
    <3>7. ASSUME lastSeq'[f] # -1 PROVE \E x \in batches' : x.feed = f /\ x.seq = lastSeq'[f]
      <4>1. CASE lastSeq'[f] = lastSeq[f]
        BY <4>1, <3>1, <3>7, <2>1
      <4>2. CASE f = b.feed /\ lastSeq'[f] = b.seq
        BY <4>2, <3>4
      <4> QED
        BY <4>1, <4>2, <3>5
    <3> QED
      BY <3>6, <3>7
  <2> QED
    BY <2>5, <2>6, <2>7
<1> QED
  BY <1>1, <1>2

-----------------------------------------------------------------------------
\* What the reaction table owes the reactions stored, and the inductive invariant.
Rival(q, r) == KindOf[q] = "reaction" /\ Target(q) = Target(r) /\ AuthorOf[q] = AuthorOf[r]

RowOfReaction ==
  \A x \in reactions :
    KindOf[x.rec] = "reaction" /\ Target(x.rec) = x.target /\ AuthorOf[x.rec] = x.author

CountedLast ==
  \A r \in records :
    KindOf[r] = "reaction" =>
      \/ \E q \in withdrawn : Rival(q, r)
      \/ \E x \in reactions : /\ x.target = Target(r) /\ x.author = AuthorOf[r]
                              /\ received[r] <= x.at

IInv == TypeOK /\ StoredIsIndexed /\ LastSeqIsLargest /\ RowOfReaction /\ CountedLast

LEMMA ReactionsFollow == IInv => LastReactionCounts
<1> SUFFICES ASSUME IInv, NEW x \in reactions,
                    ~ \E q \in withdrawn : /\ KindOf[q] = "reaction" /\ Target(q) = x.target
                                           /\ AuthorOf[q] = x.author,
                    NEW r \in records, KindOf[r] = "reaction",
                    Target(r) = x.target, AuthorOf[r] = x.author
             PROVE  received[r] <= x.at
  BY DEF LastReactionCounts
<1>1. PICK y \in reactions : /\ y.target = Target(r) /\ y.author = AuthorOf[r]
                             /\ received[r] <= y.at
  BY DEF IInv, CountedLast, Rival
<1>2. y = x
  BY <1>1 DEF IInv, TypeOK, OneRowPerKey
<1> QED
  BY <1>1, <1>2

\* What the dispatch on a record that passed every check does.
LEMMA EffectFacts ==
  ASSUME TypeOK, LastSeqIsLargest, NEW r \in Rec, NEW at \in Clock,
         ~Rejected(r), Effect(r, at)
  PROVE  /\ TablesOK' /\ TouchesOnlyOf(AuthorOf[r]) /\ KeepsIds
         /\ KindOf[r] \in Tabled => \E y \in index' : y.id = r
         /\ PolicyTypeOK' /\ LastSeqIsLargest'
         /\ denylist' # denylist => NewBatch
<1>1. TablesOK /\ PolicyTypeOK
  BY DEF TypeOK, TablesOK
<1>2. UNCHANGED policyVars => /\ PolicyTypeOK' /\ LastSeqIsLargest'
                              /\ denylist' = denylist
  BY <1>1 DEF policyVars, PolicyTypeOK, LastSeqIsLargest
<1>3. UNCHANGED tables => TablesOK' /\ TouchesOnlyOf(AuthorOf[r]) /\ KeepsIds
  BY <1>1 DEF tables, TablesOK, OneRowPerKey, TouchesOnlyOf, KeepsIds
<1>4. KindOf[r] \in {"supersede", "retract"} =>
        /\ Target(r) \in Rec /\ AuthorOf[Target(r)] = AuthorOf[r]
  BY DEF Rejected, BadTarget, TypeOK
<1>5. CASE KindOf[r] = "supersede" /\ UNCHANGED policyVars
           /\ IF KindOf[Target(r)] \in Superseding
              THEN IndexAs(KindOf[Target(r)], Target(r), r, at) ELSE UNCHANGED tables
  <2>1. CASE KindOf[Target(r)] \in Superseding
    <3>1. IndexAs(KindOf[Target(r)], Target(r), r, at) /\ IndexedAs(KindOf[Target(r)], r)
      BY <1>5, <2>1 DEF IndexedAs
    <3>2. KindOf[Target(r)] \in Kinds
      BY <1>4, <1>5
    <3>3. TablesOK' /\ TouchesOnlyOf(AuthorOf[r]) /\ KeepsIds
      BY <1>1, <1>4, <1>5, <3>1, <3>2, IndexAsTables
    <3> QED
      BY <1>2, <1>5, <3>3 DEF Tabled, Claims
  <2>2. CASE KindOf[Target(r)] \notin Superseding
    BY <1>2, <1>3, <1>5, <2>2 DEF Tabled, Claims
  <2> QED
    BY <2>1, <2>2
<1>6. CASE KindOf[r] = "retract" /\ Retract(Target(r)) /\ UNCHANGED policyVars
  BY <1>1, <1>2, <1>4, <1>6, RetractTables DEF Tabled, Claims
<1>7. CASE KindOf[r] = "feed" /\ ApplyBatch(r) /\ UNCHANGED tables
  BY <1>1, <1>3, <1>7, BatchPolicy DEF Tabled, Claims, Batches
<1>8. CASE KindOf[r] \notin {"supersede", "retract", "feed"} /\ IndexAs(KindOf[r], r, r, at)
           /\ UNCHANGED policyVars
  <2>1. KindOf[r] \in Kinds /\ IndexedAs(KindOf[r], r)
    BY DEF IndexedAs
  <2> QED
    BY <1>1, <1>2, <1>8, <2>1, IndexAsTables
<1> QED
  BY <1>5, <1>6, <1>7, <1>8 DEF Effect

\* Which rows an indexer puts into a table: the record's own or the edited one's, shown.
LEMMA IndexAsShows ==
  ASSUME TablesOK, NEW r \in Rec, NEW id \in Rec, NEW at \in Clock,
         NEW kind \in Kinds, IndexedAs(kind, r), IndexAs(kind, id, r, at)
  PROVE  /\ \A y \in index' \ index : y.id = id /\ ~y.retracted
         /\ \A x \in reactions' \ reactions : x.rec = r
         /\ withdrawn' = withdrawn
<1>1. CASE kind \in Tabled /\ index' = Upsert(kind, id, r)
           /\ UNCHANGED <<reactions, profiles, withdrawn>>
  <2>1. Subject(kind, r) \in Hash \cup {None}
    BY <1>1, SubjectTyped DEF TablesOK
  <2>2. /\ \A x \in (index \ index') \cup (index' \ index) : x.id = id
        /\ \A x \in index' \ index : ~x.retracted
    BY <1>1, <2>1, UpsertRows DEF TablesOK, OneRowPerKey
  <2> QED
    BY <1>1, <2>2
<1>2. CASE kind = "reaction" /\ IndexReaction(r, at) /\ UNCHANGED <<index, profiles, withdrawn>>
  BY <1>2 DEF IndexReaction
<1>3. CASE kind = "profile" /\ IndexProfile(id, r, at) /\ UNCHANGED <<index, reactions, withdrawn>>
  BY <1>3
<1>4. CASE kind \in {"rotation", "supersede", "retract", "feed", "other"} /\ UNCHANGED tables
  BY <1>4 DEF tables
<1> QED
  BY <1>1, <1>2, <1>3, <1>4 DEF IndexAs

\* What a record that passed every check shows, hides and takes back.
LEMMA EffectShows ==
  ASSUME TypeOK, NEW r \in Rec, NEW at \in Clock, ~Rejected(r), Effect(r, at)
  PROVE  /\ \A y \in index' \ index :
              IF y.retracted THEN y.id \in records
              ELSE y.id = r \/ (KindOf[r] = "supersede" /\ Target(r) = y.id)
         /\ \A x \in reactions' \ reactions : x.rec = r
         /\ withdrawn' \subseteq withdrawn \cup records
<1>1. TablesOK /\ index \subseteq Row
  BY DEF TypeOK, TablesOK
<1>2. KindOf[r] \in {"supersede", "retract"} => Target(r) \in records /\ Target(r) \in Rec
  BY DEF Rejected, BadTarget, TypeOK
<1>3. CASE KindOf[r] = "supersede" /\ KindOf[Target(r)] \in Superseding
           /\ IndexAs(KindOf[Target(r)], Target(r), r, at)
  <2>1. IndexedAs(KindOf[Target(r)], r) /\ KindOf[Target(r)] \in Kinds
    BY <1>2, <1>3 DEF IndexedAs
  <2> QED
    BY <1>1, <1>2, <1>3, <2>1, IndexAsShows
<1>4. CASE KindOf[r] = "retract" /\ Retract(Target(r))
  <2> DEFINE t == Target(r)
             New(row) == IF row.id = t /\ KindOf[t] \in Retractable
                         THEN [row EXCEPT !.retracted = TRUE] ELSE row
  <2>1. index' = index \/ index' = {New(row) : row \in index}
    BY <1>4 DEF Retract
  <2>2. \A row \in index : New(row) = row \/ (New(row).id = t /\ New(row).retracted)
    BY <1>1 DEF Row
  <2> HIDE DEF New, t
  <2>3. \A y \in index' \ index : y.id = t /\ y.retracted
    BY <2>1, <2>2
  <2>4. /\ \A x \in reactions' \ reactions : x.rec = r
        /\ withdrawn' \subseteq withdrawn \cup {t}
    BY <1>4 DEF Retract, t
  <2> QED
    BY <1>2, <1>4, <2>3, <2>4 DEF t
<1>5. CASE UNCHANGED tables
  BY <1>5 DEF tables
<1>6. CASE IndexAs(KindOf[r], r, r, at)
  <2>1. KindOf[r] \in Kinds /\ IndexedAs(KindOf[r], r)
    BY DEF IndexedAs
  <2> QED
    BY <1>1, <1>6, <2>1, IndexAsShows
<1> QED
  BY <1>3, <1>4, <1>5, <1>6 DEF Effect

\* A reaction received at time t is taken back or counted, or a later one counts.
CountedAt(q, t) ==
  \/ \E p \in withdrawn : Rival(p, q)
  \/ \E x \in reactions : x.target = Target(q) /\ x.author = AuthorOf[q] /\ t <= x.at

LEMMA EffectReactions ==
  ASSUME TypeOK, RowOfReaction, NEW r \in Rec, NEW at \in Clock, ~Rejected(r), Effect(r, at)
  PROVE  /\ RowOfReaction'
         /\ \A q \in Rec, t \in Clock : CountedAt(q, t) => CountedAt(q, t)'
         /\ KindOf[r] = "reaction" => CountedAt(r, at)'
<1>1. reactions \subseteq ReactionRow /\ at \in Int /\ \A t \in Clock : t \in Int
  BY DEF TypeOK, Clock
<1>2. CASE KindOf[r] = "reaction" /\ IndexReaction(r, at) /\ UNCHANGED withdrawn
  <2> DEFINE same == {x \in reactions : x.target = Target(r) /\ x.author = AuthorOf[r]}
             row == [target |-> Target(r), author |-> AuthorOf[r], rec |-> r, at |-> at]
  <2>1. CASE \E x \in same : x.at > at
    <3>1. reactions' = reactions
      BY <1>2, <2>1 DEF IndexReaction
    <3>2. CountedAt(r, at)
      BY <1>1, <2>1 DEF CountedAt, ReactionRow, Clock
    <3> QED
      BY <1>2, <3>1, <3>2 DEF RowOfReaction, CountedAt
  <2>2. CASE ~ \E x \in same : x.at > at
    <3>1. reactions' = (reactions \ same) \cup {row}
      BY <1>2, <2>2 DEF IndexReaction
    <3>2. RowOfReaction'
      BY <1>2, <3>1 DEF RowOfReaction
    <3>3. row \in reactions'
      BY <3>1
    <3>4. ASSUME NEW q \in Rec, NEW t \in Clock, CountedAt(q, t) PROVE CountedAt(q, t)'
      <4>1. CASE \E p \in withdrawn : Rival(p, q)
        BY <1>2, <4>1 DEF CountedAt
      <4>2. ASSUME NEW x \in reactions, x.target = Target(q), x.author = AuthorOf[q], t <= x.at
            PROVE  CountedAt(q, t)'
        <5>1. CASE x \in same
          <6>1. x.at \in Clock /\ ~(x.at > at)
            BY <1>1, <2>2, <5>1 DEF ReactionRow
          <6>2. x.at \in Int /\ at \in Int /\ t \in Int
            BY <1>1, <6>1
          <6>3. t <= x.at
            BY <4>2
          <6>4. t <= at
            BY <6>1, <6>2, <6>3
          <6>5. row.target = Target(q) /\ row.author = AuthorOf[q] /\ t <= row.at
            BY <4>2, <5>1, <6>4
          <6> QED
            BY <3>3, <6>5 DEF CountedAt
        <5>2. CASE x \notin same
          BY <3>1, <4>2, <5>2 DEF CountedAt
        <5> QED
          BY <5>1, <5>2
      <4> QED
        BY <3>4, <4>1, <4>2 DEF CountedAt
    <3>5. CountedAt(r, at)'
      <4>1. row.target = Target(r) /\ row.author = AuthorOf[r] /\ at <= row.at
        BY <1>1
      <4> QED
        BY <3>3, <4>1 DEF CountedAt
    <3> QED
      BY <3>2, <3>4, <3>5
  <2> QED
    BY <2>1, <2>2
<1>3. CASE KindOf[r] = "retract" /\ Retract(Target(r))
  BY <1>3 DEF Retract, RowOfReaction, CountedAt, Rival
<1>4. CASE KindOf[r] # "reaction" /\ UNCHANGED <<reactions, withdrawn>>
  BY <1>4 DEF RowOfReaction, CountedAt
<1> QED
  BY <1>2, <1>3, <1>4 DEF Effect, IndexAs, tables, Superseding, Tabled, Claims

LEMMA CountedRestated ==
  CountedLast <=> \A r \in records : KindOf[r] = "reaction" => CountedAt(r, received[r])
BY DEF CountedLast, CountedAt

-----------------------------------------------------------------------------
LEMMA InitInv == Init => IInv
<1> SUFFICES ASSUME Init PROVE IInv
  OBVIOUS
<1>1. PolicyTypeOK
  BY DEF Init, PolicyInit, PolicyTypeOK
<1>2. TypeOK
  BY <1>1 DEF Init, TypeOK, OneRowPerKey, Clock, RunState, IdleRun
<1> QED
  BY <1>2 DEF Init, PolicyInit, IInv, StoredIsIndexed, LastSeqIsLargest, RowOfReaction, CountedLast

\* A step that leaves the tables and the policy keeps the invariant.
LEMMA QuietStep ==
  ASSUME IInv, UNCHANGED <<policyVars, records, received, tables>>, run' \in [Run -> RunState],
         overtaken' \subseteq Run
  PROVE  IInv'
BY DEF IInv, TypeOK, PolicyTypeOK, OneRowPerKey, StoredIsIndexed, RowsOf, LastSeqIsLargest,
       RowOfReaction, CountedLast, policyVars, tables

\* The dispatch on r, after which r is stored or, if the process stops, is not.
LEMMA EffectStep ==
  ASSUME IInv, NEW r \in Rec, NEW at \in Clock, ~Rejected(r), Effect(r, at),
         run' \in [Run -> RunState], overtaken' \subseteq Run,
         \/ UNCHANGED <<records, received>>
         \/ /\ records' = records \cup {r}
            /\ received' = IF r \in records \/ r \notin Timed THEN received
                           ELSE [received EXCEPT ![r] = at]
  PROVE  IInv'
<1>1. /\ TablesOK' /\ KeepsIds /\ PolicyTypeOK' /\ LastSeqIsLargest'
      /\ KindOf[r] \in Tabled => \E y \in index' : y.id = r
  BY EffectFacts DEF IInv
<1>2. /\ RowOfReaction'
      /\ \A q \in Rec, t \in Clock : CountedAt(q, t) => CountedAt(q, t)'
      /\ KindOf[r] = "reaction" => CountedAt(r, at)'
  BY EffectReactions DEF IInv
<1>3. records \subseteq Rec /\ received \in [Rec -> Clock]
  BY DEF IInv, TypeOK
<1>4. records' \subseteq Rec /\ received' \in [Rec -> Clock]
  BY <1>3
<1>5. TypeOK'
  BY <1>1, <1>4 DEF TypeOK, TablesOK
<1>6. StoredIsIndexed'
  <2> SUFFICES ASSUME NEW q \in records', KindOf[q] \in Tabled
               PROVE  \E y \in index' : y.id = q
    BY DEF StoredIsIndexed, RowsOf
  <2>1. CASE q \in records
    BY <1>1, <2>1 DEF IInv, StoredIsIndexed, RowsOf, KeepsIds
  <2>2. CASE q = r
    BY <1>1, <2>2
  <2> QED
    BY <2>1, <2>2
<1>7. CountedLast'
  <2> SUFFICES ASSUME NEW q \in records', KindOf[q] = "reaction"
               PROVE  \/ \E p \in withdrawn' : Rival(p, q)
                      \/ \E x \in reactions' : /\ x.target = Target(q) /\ x.author = AuthorOf[q]
                                               /\ received'[q] <= x.at
    BY DEF CountedLast
  <2>1. CASE q \in records /\ received'[q] = received[q]
    <3>1. CountedAt(q, received[q])
      BY <2>1, CountedRestated DEF IInv
    <3>2. received[q] \in Clock /\ q \in Rec
      BY <1>3, <2>1
    <3>3. PICK t \in Clock : t = received[q]
      BY <3>2
    <3>4. CountedAt(q, t)'
      BY <1>2, <3>1, <3>2, <3>3
    <3> QED
      BY <2>1, <3>3, <3>4 DEF CountedAt
  <2>2. CASE q = r /\ received'[q] = at
    BY <1>2, <2>2 DEF CountedAt
  <2> QED
    BY <1>3, <2>1, <2>2 DEF Timed
<1> QED
  BY <1>1, <1>2, <1>5, <1>6, <1>7 DEF IInv

\* Where a run stands tells what it holds.
LEMMA RunHolds ==
  ASSUME TypeOK, NEW s \in Run
  PROVE  /\ run[s] # IdleRun => run[s].rec \in Rec
         /\ run[s].at \in {"decide", "csam", "deny"} => run[s] # IdleRun /\ run[s].rec \in Rec
BY DEF TypeOK, RunState, IdleRun

LEMMA NextInv == IInv /\ [Next]_vars => IInv'
<1> SUFFICES ASSUME IInv, [Next]_vars PROVE IInv'
  OBVIOUS
<1> DEFINE Quiet == UNCHANGED <<policyVars, records, received, tables>>
<1>0. overtaken' \subseteq Run
  BY DEF IInv, TypeOK, Next, Step, Receive, Refuse, AwaitMatch, Match, Reject, Ends, Index, Store,
         StopBeforeStore, Enforce, Stop, ReloadPolicy, vars
<1>1. TypeOK /\ run \in [Run -> RunState] /\ IdleRun \in RunState
  BY DEF IInv, TypeOK, RunState
<1>2. ASSUME NEW s \in Run, NEW r \in Rec, Receive(s, r) PROVE IInv'
  <2>1. [at |-> "decide", rec |-> r] \in RunState
    BY DEF RunState
  <2> QED
    BY <1>1, <1>2, <2>1, <1>0, QuietStep DEF Receive
<1>3. ASSUME NEW s \in Run, Refuse(s) \/ Match(s) \/ Reject(s) PROVE IInv'
  <2>1. Ends(s)
    BY <1>3 DEF Refuse, Match, Reject
  <2> QED
    BY <1>1, <2>1, <1>0, QuietStep DEF Ends
<1>4. ASSUME NEW s \in Run, AwaitMatch(s) PROVE IInv'
  <2>1. [at |-> "csam", rec |-> run[s].rec] \in RunState
    BY <1>1, <1>4, RunHolds DEF AwaitMatch, RunState
  <2> QED
    BY <1>1, <1>4, <2>1, <1>0, QuietStep DEF AwaitMatch
<1>5. ASSUME NEW s \in Run, Index(s) PROVE IInv'
  <2> DEFINE r == run[s].rec
  <2>1. PICK at \in Clock : ~Rejected(r) /\ Effect(r, at) /\ Store(s, r, at)
    BY <1>5 DEF Index
  <2>2. r \in Rec
    BY <1>1, <1>5, RunHolds DEF Index, Passed
  <2>3. run' \in [Run -> RunState]
    BY <1>1, <2>1, <2>2 DEF Store, RunState
  <2> HIDE DEF r
  <2> QED
    BY <2>1, <2>2, <2>3, <1>0, EffectStep DEF Store
<1>6. ASSUME NEW s \in Run, StopBeforeStore(s) PROVE IInv'
  <2> DEFINE r == run[s].rec
  <2>1. PICK at \in Clock : ~Rejected(r) /\ Effect(r, at)
    BY <1>6 DEF StopBeforeStore
  <2>2. r \in Rec
    BY <1>1, <1>6, RunHolds DEF StopBeforeStore, Passed
  <2>3. run' \in [Run -> RunState] /\ UNCHANGED <<records, received>>
    BY <1>1, <1>6 DEF StopBeforeStore
  <2> HIDE DEF r
  <2> QED
    BY <2>1, <2>2, <2>3, <1>0, EffectStep
<1>7. ASSUME NEW s \in Run, Enforce(s) PROVE IInv'
  <2>1. run[s].rec \in Rec /\ run[s] # IdleRun
    BY <1>1, <1>7, RunHolds DEF Enforce
  <2>2. Hashes(run[s].rec) \subseteq Hash
    BY <2>1, HashesTyped DEF Hashes
  <2>3. PolicyTypeOK'
    BY <1>1, <1>7, <2>2 DEF Enforce, DenyForNotice, Deny, PolicyTypeOK, TypeOK
  <2>4. run' \in [Run -> RunState] /\ UNCHANGED <<batches, lastSeq, records, received, tables>>
    BY <1>1, <1>7 DEF Enforce, DenyForNotice
  <2> QED
    BY <1>0, <2>3, <2>4 DEF IInv, TypeOK, OneRowPerKey, StoredIsIndexed, RowsOf, LastSeqIsLargest,
                      RowOfReaction, CountedLast, tables
<1>8. CASE Stop
  BY <1>1, <1>8, <1>0, QuietStep DEF Stop
<1>9. CASE ReloadPolicy
  BY <1>9 DEF ReloadPolicy, Reload, IInv, TypeOK, PolicyTypeOK, OneRowPerKey, StoredIsIndexed,
              RowsOf, LastSeqIsLargest, RowOfReaction, CountedLast, tables
<1>10. CASE UNCHANGED vars
  BY <1>1, <1>10, <1>0, QuietStep DEF vars
<1> QED
  BY <1>2, <1>3, <1>4, <1>5, <1>6, <1>7, <1>8, <1>9, <1>10 DEF Next, Step

LEMMA Invariant == Spec => []IInv
BY InitInv, NextInv, PTL DEF Spec

\* The tables keep their types and their keys under every interleaving and crash.
THEOREM TypeCorrect == Spec => []TypeOK
<1>1. IInv => TypeOK
  BY DEF IInv
<1> QED
  BY <1>1, Invariant, PTL

\* A stored record of a kind with a table has its row, whatever is cut short.
THEOREM StoredHasRow == Spec => []StoredIsIndexed
<1>1. IInv => StoredIsIndexed
  BY DEF IInv
<1> QED
  BY <1>1, Invariant, PTL

\* The reaction received last is the one that counts.
THEOREM LastCounts == Spec => []LastReactionCounts
BY ReactionsFollow, Invariant, PTL

\* feed_state never falls behind the batches applied.
THEOREM LargestSeqKept == Spec => []LastSeqIsLargest
<1>1. IInv => LastSeqIsLargest
  BY DEF IInv
<1> QED
  BY <1>1, Invariant, PTL

-----------------------------------------------------------------------------
\* What a step may do.
RowsOfTheAuthor ==
  \A row \in (index \ index') \cup (index' \ index) :
    \E s \in Run : run[s] # IdleRun /\ AuthorOf[run[s].rec] = AuthorOf[row.id]

BatchOrNotice ==
  denylist' # denylist => NewBatch \/ \E s \in Run : run[s].at = "deny"

LEMMA StepFacts ==
  ASSUME IInv, Next
  PROVE  RowsOfTheAuthor /\ BatchOrNotice
<1>1. ASSUME NEW s \in Run, Index(s) \/ StopBeforeStore(s)
      PROVE  RowsOfTheAuthor /\ BatchOrNotice
  <2>1. PICK at \in Clock : ~Rejected(run[s].rec) /\ Effect(run[s].rec, at)
    BY <1>1 DEF Index, StopBeforeStore
  <2>2. run[s].rec \in Rec /\ run[s] # IdleRun
    BY <1>1, RunHolds DEF Index, StopBeforeStore, Passed, IInv
  <2>3. TouchesOnlyOf(AuthorOf[run[s].rec]) /\ (denylist' # denylist => NewBatch)
    BY <2>1, <2>2, EffectFacts DEF IInv
  <2> QED
    BY <2>2, <2>3 DEF TouchesOnlyOf, RowsOfTheAuthor, BatchOrNotice
<1>2. ASSUME NEW s \in Run, Enforce(s) PROVE RowsOfTheAuthor /\ BatchOrNotice
  BY <1>2 DEF Enforce, tables, RowsOfTheAuthor, BatchOrNotice
<1>3. ASSUME UNCHANGED <<index, denylist>> PROVE RowsOfTheAuthor /\ BatchOrNotice
  BY <1>3 DEF RowsOfTheAuthor, BatchOrNotice
<1>4. ASSUME NEW s \in Run, NEW r \in Rec,
             Receive(s, r) \/ Refuse(s) \/ AwaitMatch(s) \/ Match(s) \/ Reject(s)
      PROVE  UNCHANGED <<index, denylist>>
  BY <1>4 DEF Receive, Refuse, AwaitMatch, Match, Reject, Ends, tables, policyVars
<1>5. Stop \/ ReloadPolicy => UNCHANGED <<index, denylist>>
  BY DEF Stop, ReloadPolicy, Reload, tables, policyVars
<1>6. CASE \E s \in Run : \E r \in Rec : Receive(s, r)
  BY <1>3, <1>4, <1>6
<1>7. CASE \E s \in Run : Refuse(s) \/ AwaitMatch(s) \/ Match(s) \/ Reject(s)
  <2>1. PICK s \in Run : Refuse(s) \/ AwaitMatch(s) \/ Match(s) \/ Reject(s)
    BY <1>7
  <2>2. run[s].rec \in Rec
    BY <2>1, RunHolds DEF Refuse, AwaitMatch, Match, Reject, Passed, IInv
  <2> QED
    BY <1>3, <1>4, <2>1, <2>2
<1> QED
  BY <1>1, <1>2, <1>3, <1>5, <1>6, <1>7 DEF Next, Step

\* Only a record of a row's author edits, hides or shows it.
THEOREM AuthorsRows == Spec => OnlyTheAuthorChanges
<1>1. IInv /\ [Next]_vars => [RowsOfTheAuthor]_vars
  BY StepFacts
<1> QED
  BY <1>1, Invariant, PTL DEF Spec, OnlyTheAuthorChanges, RowsOfTheAuthor

\* A batch of a feed changes the denylist at most once.
THEOREM BatchOnce == Spec => BatchAppliedOnce
<1>1. IInv /\ [Next]_vars => [BatchOrNotice]_vars
  BY StepFacts
<1>2. BatchOrNotice => (denylist' # denylist =>
        \/ \E b \in batches' : \A x \in batches : <<x.feed, x.seq>> # <<b.feed, b.seq>>
        \/ \E s \in Run : run[s].at = "deny")
  BY DEF BatchOrNotice, NewBatch
<1> QED
  BY <1>1, <1>2, Invariant, PTL DEF Spec, BatchAppliedOnce

-----------------------------------------------------------------------------
\* Why a retraction stands: it was stored after its target, so that a copy of the target
\* still under way has been overtaken.
StandsInv ==
  /\ \A s \in Run : run[s].at \in {"decide", "csam"} /\ run[s].rec \in records => s \in overtaken
  /\ \A x \in index : x.retracted => x.id \in records
  /\ withdrawn \subseteq records

\* A step that adds no record and leaves the tables keeps it.
LEMMA QuietStands ==
  ASSUME StandsInv, UNCHANGED <<records, tables>>,
         \A s \in Run : run'[s].at \in {"decide", "csam"} /\ run'[s].rec \in records => s \in overtaken'
  PROVE  StandsInv'
BY DEF StandsInv, tables

LEMMA StandsInvariant == Spec => []StandsInv
<1>1. Init => StandsInv
  BY DEF Init, StandsInv, IdleRun
<1>2. TypeOK /\ StandsInv /\ [Next]_vars => StandsInv'
  <2> SUFFICES ASSUME TypeOK, StandsInv, [Next]_vars PROVE StandsInv'
    OBVIOUS
  <2>1. run \in [Run -> RunState] /\ IdleRun.at = "idle"
    BY DEF TypeOK, IdleRun
  <2>2. ASSUME NEW s \in Run, NEW r \in Rec, Receive(s, r) PROVE StandsInv'
    <3>1. \A t \in Run : run'[t] = IF t = s THEN [at |-> "decide", rec |-> r] ELSE run[t]
      BY <2>1, <2>2 DEF Receive
    <3>2. UNCHANGED <<records, tables, overtaken>> /\ r \notin records
      BY <2>2 DEF Receive
    <3> QED
      BY <3>1, <3>2, QuietStands DEF StandsInv
  <2>3. ASSUME NEW s \in Run, Refuse(s) \/ Match(s) \/ Reject(s) PROVE StandsInv'
    <3>1. Ends(s)
      BY <2>3 DEF Refuse, Match, Reject
    <3>2. \A t \in Run : run'[t] = IF t = s THEN IdleRun ELSE run[t]
      BY <2>1, <3>1 DEF Ends
    <3>3. UNCHANGED <<records, tables>> /\ overtaken' = overtaken \ {s}
      BY <3>1 DEF Ends
    <3> QED
      BY <2>1, <3>2, <3>3, QuietStands DEF StandsInv
  <2>4. ASSUME NEW s \in Run, AwaitMatch(s) PROVE StandsInv'
    <3>1. \A t \in Run : run'[t] = IF t = s THEN [at |-> "csam", rec |-> run[s].rec] ELSE run[t]
      BY <2>1, <2>4 DEF AwaitMatch
    <3>2. UNCHANGED <<records, tables, overtaken>> /\ run[s].at = "decide"
      BY <2>4 DEF AwaitMatch
    <3> QED
      BY <3>1, <3>2, QuietStands DEF StandsInv
  <2>5. ASSUME NEW s \in Run, Index(s) PROVE StandsInv'
    <3> DEFINE r == run[s].rec
    <3>1. PICK at \in Clock : ~Rejected(r) /\ Effect(r, at) /\ Store(s, r, at)
      BY <2>5 DEF Index
    <3>2. r \in Rec
      BY <2>5, RunHolds DEF Index, Passed
    <3>3. /\ \A y \in index' \ index : y.retracted => y.id \in records
          /\ withdrawn' \subseteq withdrawn \cup records
      BY <3>1, <3>2, EffectShows
    <3>4. /\ records' = records \cup {r}
          /\ \A t \in Run \ {s} : run'[t] = run[t]
          /\ run'[s] \in {IdleRun, [at |-> "deny", rec |-> r]}
          /\ overtaken' = (overtaken \ {s})
               \cup {t \in Run \ {s} : run[t] # IdleRun /\ run[t].rec = r}
      BY <2>1, <3>1 DEF Store
    <3> HIDE DEF r
    <3>5. ASSUME NEW t \in Run, run'[t].at \in {"decide", "csam"}, run'[t].rec \in records'
          PROVE  t \in overtaken'
      <4>1. t # s
        BY <2>1, <3>4, <3>5
      <4>2. run'[t] = run[t] /\ run[t] # IdleRun
        BY <2>1, <3>4, <3>5, <4>1
      <4> QED
        BY <3>4, <3>5, <4>1, <4>2 DEF StandsInv
    <3> QED
      BY <3>3, <3>4, <3>5 DEF StandsInv
  <2>6. ASSUME NEW s \in Run, StopBeforeStore(s) PROVE StandsInv'
    <3> DEFINE r == run[s].rec
    <3>1. PICK at \in Clock : ~Rejected(r) /\ Effect(r, at)
      BY <2>6 DEF StopBeforeStore
    <3>2. r \in Rec
      BY <2>6, RunHolds DEF StopBeforeStore, Passed
    <3>3. /\ \A y \in index' \ index : y.retracted => y.id \in records
          /\ withdrawn' \subseteq withdrawn \cup records
      BY <3>1, <3>2, EffectShows
    <3>4. records' = records /\ \A t \in Run : run'[t] = IdleRun
      BY <2>6 DEF StopBeforeStore
    <3> QED
      BY <2>1, <3>3, <3>4 DEF StandsInv
  <2>7. ASSUME NEW s \in Run, Enforce(s) PROVE StandsInv'
    <3>1. \A t \in Run : run'[t] = IF t = s THEN IdleRun ELSE run[t]
      BY <2>1, <2>7 DEF Enforce
    <3>2. UNCHANGED <<records, tables>> /\ overtaken' = overtaken \ {s}
      BY <2>7 DEF Enforce
    <3> QED
      BY <2>1, <3>1, <3>2, QuietStands DEF StandsInv
  <2>8. CASE Stop
    BY <2>1, <2>8, QuietStands DEF Stop
  <2>9. CASE ReloadPolicy \/ UNCHANGED vars
    BY <2>9, QuietStands DEF ReloadPolicy, vars, StandsInv
  <2> QED
    BY <2>2, <2>3, <2>4, <2>5, <2>6, <2>7, <2>8, <2>9 DEF Next, Step
<1> QED
  BY <1>1, <1>2, TypeCorrect, PTL DEF Spec

StandsInStep ==
  /\ \A x \in index, y \in index' :
       x.id = y.id /\ x.retracted /\ ~y.retracted => \E s \in Run : Shows(s, x.id)
  /\ \A x \in reactions' \ reactions :
       x.rec \in withdrawn => \E s \in overtaken : run[s].rec = x.rec

LEMMA StepStands ==
  ASSUME TypeOK, StandsInv, Next
  PROVE  StandsInStep
<1>1. \A x, y \in index : x.id = y.id => x = y
  BY DEF TypeOK, OneRowPerKey
<1>2. ASSUME NEW s \in Run, Index(s) \/ StopBeforeStore(s) PROVE StandsInStep
  <2> DEFINE r == run[s].rec
  <2>1. PICK at \in Clock : ~Rejected(r) /\ Effect(r, at)
    BY <1>2 DEF Index, StopBeforeStore
  <2>2. r \in Rec /\ run[s] # IdleRun /\ run[s].at \in {"decide", "csam"}
    BY <1>2, RunHolds DEF Index, StopBeforeStore, Passed
  <2>3. /\ \A y \in index' \ index :
             ~y.retracted => y.id = r \/ (KindOf[r] = "supersede" /\ Target(r) = y.id)
        /\ \A x \in reactions' \ reactions : x.rec = r
    BY <2>1, <2>2, EffectShows
  <2>4. r \in records => s \in overtaken
    BY <2>2 DEF StandsInv
  <2>5. ASSUME NEW x \in index, NEW y \in index', x.id = y.id, x.retracted, ~y.retracted
        PROVE  Shows(s, x.id)
    <3>1. y \in index' \ index
      BY <1>1, <2>5
    <3> QED
      BY <2>2, <2>3, <2>4, <2>5, <3>1 DEF Shows
  <2>6. ASSUME NEW x \in reactions' \ reactions, x.rec \in withdrawn
        PROVE  s \in overtaken /\ run[s].rec = x.rec
    BY <2>3, <2>4, <2>6 DEF StandsInv
  <2> QED
    BY <2>5, <2>6 DEF StandsInStep
<1>3. ASSUME UNCHANGED <<index, reactions>> PROVE StandsInStep
  BY <1>1, <1>3 DEF StandsInStep
<1>4. ASSUME NEW s \in Run, NEW r \in Rec, Receive(s, r) PROVE StandsInStep
  BY <1>3, <1>4 DEF Receive, tables
<1>5. ASSUME NEW s \in Run,
             Refuse(s) \/ AwaitMatch(s) \/ Match(s) \/ Reject(s) \/ Enforce(s)
      PROVE  StandsInStep
  BY <1>3, <1>5 DEF Refuse, AwaitMatch, Match, Reject, Enforce, Ends, tables
<1>6. CASE Stop \/ ReloadPolicy
  BY <1>3, <1>6 DEF Stop, ReloadPolicy, tables
<1> QED
  BY <1>2, <1>4, <1>5, <1>6 DEF Next, Step

\* What its author took back is shown again only by a new edit or an overtaken copy.
THEOREM RetractionsStand == Spec => RetractionStands
<1>1. TypeOK /\ StandsInv /\ [Next]_vars => [StandsInStep]_vars
  BY StepStands
<1> QED
  BY <1>1, TypeCorrect, StandsInvariant, PTL DEF Spec, RetractionStands, StandsInStep

===============================================================================
