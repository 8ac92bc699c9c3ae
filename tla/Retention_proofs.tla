-------------------------- MODULE Retention_proofs --------------------------
(***************************************************************************)
(* What the store keeps for any records, filters, windows and bounds: its  *)
(* table never holds a record or a sequence twice, sequences are never     *)
(* reused, and pruning and the two filters agree with their meaning.       *)
(***************************************************************************)
EXTENDS Retention, FiniteSetTheorems, TLAPS

\* A fresh insert adds one row, above every sequence handed out before.
LEMMA InsertEffect ==
  ASSUME NEW r \in Rec, NEW at \in Nat, TypeOK, InsertRecord(r, at)
  PROVE  \/ UNCHANGED storeVars
         \/ /\ ~Stored(r) /\ lastSeq < MaxSeq
            /\ rows' = rows \cup {[seq |-> lastSeq + 1, rec |-> r, at |-> at]}
            /\ lastSeq' = lastSeq + 1
            /\ assigned' = assigned \cup {[seq |-> lastSeq + 1, rec |-> r]}
BY DEF InsertRecord, NextSeq

\* The tables stay well formed, no row is from the future, and the counter has
\* counted every sequence handed out.
THEOREM TypeCorrect == Spec => []TypeOK
<1>1. Init => TypeOK
  BY FS_EmptySet DEF Init, TypeOK, StoreTypeOK
<1>2. TypeOK /\ [Next]_vars => TypeOK'
  <2> SUFFICES ASSUME TypeOK, [Next]_vars PROVE TypeOK'
    OBVIOUS
  <2>1. CASE Insert
    <3>1. PICK r \in Rec, at \in 0..day : InsertRecord(r, at) /\ UNCHANGED day
      BY <2>1 DEF Insert
    <3>2. at \in Nat /\ at <= day
      BY <3>1 DEF TypeOK
    <3>3. CASE UNCHANGED storeVars
      BY <3>1, <3>3 DEF TypeOK, StoreTypeOK, storeVars
    <3>4. CASE /\ rows' = rows \cup {[seq |-> lastSeq + 1, rec |-> r, at |-> at]}
               /\ lastSeq' = lastSeq + 1
               /\ assigned' = assigned \cup {[seq |-> lastSeq + 1, rec |-> r]}
      <4>1. IsFiniteSet(rows')
        BY <3>4, FS_AddElement DEF TypeOK, StoreTypeOK
      <4>2. rows' \subseteq Row /\ \A row \in rows' : row.at <= day
        BY <3>2, <3>4 DEF TypeOK, StoreTypeOK, Row
      <4>3. assigned' \subseteq [seq : Nat, rec : Rec]
        BY <3>4 DEF TypeOK, StoreTypeOK
      <4>4. \A x \in assigned' : x.seq <= lastSeq'
        BY <3>4 DEF TypeOK, StoreTypeOK
      <4>5. QED
        BY <3>1, <3>4, <4>1, <4>2, <4>3, <4>4 DEF TypeOK, StoreTypeOK
    <3>5. QED  BY <3>1, <3>2, <3>3, <3>4, InsertEffect
  <2>2. CASE Prune
    <3>1. rows' \subseteq rows /\ UNCHANGED <<lastSeq, assigned, day>>
      BY <2>2 DEF Prune, PruneExpired, PruneStops
    <3>2. IsFiniteSet(rows')
      BY <3>1, FS_Subset DEF TypeOK, StoreTypeOK
    <3>3. QED  BY <3>1, <3>2 DEF TypeOK, StoreTypeOK
  <2>3. CASE Tick
    <3>1. \A row \in rows' : row.at <= day'
      BY <2>3 DEF Tick, storeVars, TypeOK, StoreTypeOK, Row
    <3>2. QED  BY <2>3, <3>1 DEF Tick, storeVars, TypeOK, StoreTypeOK
  <2>4. CASE UNCHANGED vars
    BY <2>4 DEF vars, TypeOK, StoreTypeOK
  <2>5. QED  BY <2>1, <2>2, <2>3, <2>4 DEF Next
<1>3. QED  BY <1>1, <1>2, PTL DEF Spec

-----------------------------------------------------------------------------
(* One row per record *)

\* OneRowPerRecord is not inductive: that a fresh sequence belongs to no row follows
\* from the counter, which therefore bounds the rows here, and MaxInt the counter.
TableInv ==
  /\ OneRowPerRecord
  /\ \A row \in rows : row.seq <= lastSeq
  /\ lastSeq <= MaxSeq

\* The store's duplicate check and its counter keep the table free of duplicates,
\* pruned records that come back included.
THEOREM TableInvariant == Spec => []TableInv
<1>1. Init => TableInv
  BY StoreAssumption DEF Init, TableInv, OneRowPerRecord
<1>2. TypeOK /\ TableInv /\ [Next]_vars => TableInv'
  <2> SUFFICES ASSUME TypeOK, TableInv, [Next]_vars PROVE TableInv'
    OBVIOUS
  <2>1. CASE Insert
    <3>1. PICK r \in Rec, at \in 0..day : InsertRecord(r, at) /\ UNCHANGED day
      BY <2>1 DEF Insert
    <3>2. at \in Nat
      BY <3>1 DEF TypeOK
    <3>3. CASE UNCHANGED storeVars
      BY <3>3 DEF TableInv, OneRowPerRecord, storeVars
    <3>4. CASE /\ ~Stored(r) /\ lastSeq < MaxSeq
               /\ rows' = rows \cup {[seq |-> lastSeq + 1, rec |-> r, at |-> at]}
               /\ lastSeq' = lastSeq + 1
      <4> DEFINE fresh == [seq |-> lastSeq + 1, rec |-> r, at |-> at]
      <4>1. \A x \in rows : x.rec # fresh.rec /\ x.seq # fresh.seq
        BY <3>4 DEF Stored, TableInv, TypeOK, StoreTypeOK, Row
      <4>2. OneRowPerRecord'
        BY <3>4, <4>1 DEF TableInv, OneRowPerRecord
      <4>3. \A row \in rows' : row.seq <= lastSeq'
        BY <3>4 DEF TableInv, TypeOK, StoreTypeOK, Row
      <4>4. lastSeq' <= MaxSeq
        BY <3>4, StoreAssumption DEF TypeOK, StoreTypeOK
      <4>5. QED  BY <4>2, <4>3, <4>4 DEF TableInv
    <3>5. QED  BY <3>1, <3>2, <3>3, <3>4, InsertEffect
  <2>2. CASE Prune
    BY <2>2 DEF Prune, PruneExpired, PruneStops, TableInv, OneRowPerRecord
  <2>3. CASE Tick \/ UNCHANGED vars
    BY <2>3 DEF Tick, vars, storeVars, TableInv, OneRowPerRecord
  <2>4. QED  BY <2>1, <2>2, <2>3 DEF Next
<1>3. QED  BY <1>1, <1>2, TypeCorrect, PTL DEF Spec

\* The part of the invariant that the run checks: a record has one row and a
\* sequence names one row.
THEOREM OneRow == Spec => []OneRowPerRecord
<1>1. TableInv => OneRowPerRecord  BY DEF TableInv
<1>2. QED  BY <1>1, TableInvariant, PTL

-----------------------------------------------------------------------------
(* What a step does *)

\* A sequence is never handed out again, whatever was pruned: AUTOINCREMENT.
THEOREM SequencesIncrease == Spec => SeqStrictlyIncreasing
<1>1. TypeOK /\ [Next]_vars =>
        [\A row \in rows' \ rows : \A old \in assigned : row.seq > old.seq]_vars
  <2> SUFFICES ASSUME TypeOK, Next,
                      NEW row \in rows' \ rows, NEW old \in assigned
               PROVE  row.seq > old.seq
    OBVIOUS
  <2>1. CASE Insert
    <3>1. PICK r \in Rec, at \in 0..day : InsertRecord(r, at)
      BY <2>1 DEF Insert
    <3>2. row.seq = lastSeq + 1
      BY <3>1 DEF InsertRecord, NextSeq, storeVars
    <3>3. QED  BY <3>2 DEF TypeOK, StoreTypeOK
  <2>2. CASE Prune
    BY <2>2 DEF Prune, PruneExpired, PruneStops
  <2>3. CASE Tick
    BY <2>3 DEF Tick, storeVars
  <2>4. QED  BY <2>1, <2>2, <2>3 DEF Next
<1>2. QED  BY <1>1, TypeCorrect, PTL DEF Spec, SeqStrictlyIncreasing

\* For kinds a column can hold, the DELETE of an override removes the rows of its kind
\* that have outlived their window ...
LEMMA KindPruned ==
  ASSUME TypeOK, NEW row \in rows, NEW K \in SUBSET DOMAIN KindDays,
         \A r \in Rec : KindOf[r] <= MaxInt,
         \A k \in DOMAIN KindDays : k \in Nat /\ k <= MaxInt
  PROVE  row \in ExpiredOf(K, day) <=> KindOf[row.rec] \in K /\ Outdated(row)
<1>1. row.rec \in Rec
  BY DEF TypeOK, StoreTypeOK, Row
<1>2. Sql(KindOf[row.rec]) = KindOf[row.rec]
  BY <1>1, StoreAssumption DEF Sql
<1>3. \A k \in DOMAIN KindDays : Sql(k) = k
  BY StoreAssumption DEF Sql
<1>4. QED  BY <1>2, <1>3 DEF ExpiredOf, Outdated, Window

\* ... and the last one those of all other kinds.
LEMMA DefaultPruned ==
  ASSUME TypeOK, NEW row \in rows,
         \A r \in Rec : KindOf[r] <= MaxInt,
         \A k \in DOMAIN KindDays : k \in Nat /\ k <= MaxInt
  PROVE  row \in ExpiredByDefault(day) <=> KindOf[row.rec] \notin DOMAIN KindDays /\ Outdated(row)
<1>1. row.rec \in Rec
  BY DEF TypeOK, StoreTypeOK, Row
<1>2. Sql(KindOf[row.rec]) = KindOf[row.rec]
  BY <1>1, StoreAssumption DEF Sql
<1>3. \A k \in DOMAIN KindDays : Sql(k) = k
  BY StoreAssumption DEF Sql
<1>4. QED  BY <1>2, <1>3 DEF ExpiredByDefault, Outdated, Window

\* prune_expired is exact wherever it stops, and nothing else removes a row, when every
\* kind and every override fits a column (clamping merges the kinds above it).
THEOREM PruningExact ==
  ASSUME \A r \in Rec : KindOf[r] <= MaxInt,
         \A k \in DOMAIN KindDays : k \in Nat /\ k <= MaxInt
  PROVE  Spec => PruneIsExact
<1> DEFINE Exact == \A row \in rows \ rows' :
                      /\ Outdated(row)
                      /\ \A other \in rows' : Outdated(other) => Earlier(row, other)
<1>1. TypeOK /\ [Next]_vars => [Exact]_vars
  <2> SUFFICES ASSUME TypeOK, Next PROVE Exact
    OBVIOUS
  <2>1. CASE Insert \/ Tick
    <3>1. rows \subseteq rows'
      BY <2>1 DEF Insert, Tick, InsertRecord, storeVars
    <3>2. QED  BY <3>1
  <2>2. CASE Prune /\ PruneExpired(day)
    <3>1. rows' = rows \ (ExpiredByKind(day) \cup ExpiredByDefault(day))
      BY <2>2 DEF PruneExpired
    <3>2. \A row \in rows :
            row \in ExpiredByKind(day) \cup ExpiredByDefault(day) <=> Outdated(row)
      BY KindPruned, DefaultPruned DEF ExpiredByKind
    <3>3. QED  BY <3>1, <3>2
  <2>3. CASE Prune /\ PruneStops(day)
    <3>1. PICK last \in DOMAIN KindDays :
            rows' = rows \ ExpiredOf({k \in DOMAIN KindDays : k <= last}, day)
      BY <2>3 DEF PruneStops
    <3> DEFINE K == {k \in DOMAIN KindDays : k <= last}
    <3>2. \A row \in rows : row \in ExpiredOf(K, day) <=> KindOf[row.rec] \in K /\ Outdated(row)
      BY KindPruned
    <3>3. \A row \in rows : KindOf[row.rec] \in Nat
      BY StoreAssumption DEF TypeOK, StoreTypeOK, Row
    <3>4. ASSUME NEW row \in rows \ rows', NEW other \in rows', Outdated(other)
          PROVE  Earlier(row, other)
      <4>1. KindOf[row.rec] \in K /\ KindOf[other.rec] \notin K
        BY <3>1, <3>2, <3>4
      <4>2. QED  BY <3>1, <3>3, <3>4, <4>1 DEF Earlier
    <3>5. QED  BY <3>1, <3>2, <3>4
  <2>4. QED  BY <2>1, <2>2, <2>3 DEF Next, Prune
<1>2. QED  BY <1>1, TypeCorrect, PTL DEF Spec, PruneIsExact

-----------------------------------------------------------------------------
(* The two filters *)

\* Clamping is invisible to integers a column can hold.
LEMMA SqlIdentity ==
  ASSUME NEW n \in Nat, n <= MaxInt
  PROVE  Sql(n) = n
BY StoreAssumption DEF Sql

\* The store's SQL and the live filter select the same records, whatever the cursor
\* of the filter: a `since` above every column value selects nothing in either.
THEOREM FiltersAgree == Spec => []BackfillAgreesWithLive
<1>1. TypeOK /\ TableInv => BackfillAgreesWithLive
  <2> SUFFICES ASSUME TypeOK, TableInv, NEW f \in Filters, NEW row \in rows,
                      KindOf[row.rec] <= MaxInt,
                      f.kinds = Absent \/ \A k \in f.kinds : k <= MaxInt
               PROVE  Selects(f, row) <=> Matches(f, row.rec, row.seq)
    BY DEF BackfillAgreesWithLive
  <2>1. row.rec \in Rec /\ row.seq \in Nat /\ row.seq <= MaxInt
    BY StoreAssumption DEF TypeOK, StoreTypeOK, TableInv, Row
  <2>2. KindOf[row.rec] \in Nat
    BY <2>1, StoreAssumption
  <2>3. Sql(KindOf[row.rec]) = KindOf[row.rec]
    BY <2>2, SqlIdentity
  <2>4. f.kinds = Absent \/ Sql(KindOf[row.rec]) \in {Sql(k) : k \in f.kinds}
          <=> Admits(f.kinds, KindOf[row.rec])
    <3>1. CASE f.kinds = Absent
      BY <3>1 DEF Admits
    <3>2. CASE f.kinds # Absent
      <4>1. \A k \in f.kinds : Sql(k) = k
        BY <3>2, StoreAssumption, SqlIdentity
      <4>2. {Sql(k) : k \in f.kinds} = f.kinds
        BY <4>1
      <4>3. QED  BY <2>3, <3>2, <4>2 DEF Admits
    <3>3. QED  BY <3>1, <3>2
  <2>5. f.since # Absent => (row.seq > Sql(f.since) <=> row.seq > f.since)
    BY <2>1, StoreAssumption DEF Sql
  <2>6. QED  BY <2>4, <2>5 DEF Selects, Matches
<1>2. QED  BY <1>1, TypeCorrect, TableInvariant, PTL

=============================================================================
