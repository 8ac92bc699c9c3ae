----------------------------- MODULE RelayStore -----------------------------
(***************************************************************************)
(* The relay's record store (crates/evermesh-relay/src/store.rs) and the   *)
(* subscription filter it is queried with (filter.rs).                     *)
(*                                                                         *)
(* A row is a stored record with the receipt sequence SQLite gave it and   *)
(* the day it was received.  Every public operation of Store locks one     *)
(* mutex for its whole duration, so each is one step.                      *)
(***************************************************************************)
EXTENDS Integers, FiniteSets, Sequences

CONSTANTS
  Rec,          \* record ids: a record is known by its content hash
  KindOf,       \* [Rec -> Nat]           kind of each record
  AuthorOf,     \* [Rec -> author]        its author identity
  RefsOf,       \* [Rec -> SUBSET hash]   the hashes its refs carry
  Absent,       \* an absent filter condition (None in filter.rs)
  Filters,      \* the filters clients use
  MaxInt,       \* i64::MAX, the largest integer a SQLite column holds
  DefaultLimit, \* DEFAULT_BACKFILL_LIMIT
  DefaultDays,  \* retention.default_days
  KindDays,     \* retention.by_kind_days, a function on the overridden kinds
  MaxSeq        \* bound: receipt sequences assigned

ASSUME StoreAssumption ==
  /\ KindOf \in [Rec -> Nat]
  /\ MaxInt \in Nat /\ DefaultLimit \in Nat /\ DefaultDays \in Nat
  /\ MaxSeq \in 0..MaxInt
  /\ KindDays \in [DOMAIN KindDays -> Nat]
  /\ \A f \in Filters :
       /\ f.kinds # Absent => f.kinds \subseteq Nat
       /\ f.since # Absent => f.since \in Nat

VARIABLES
  rows,         \* the records table
  lastSeq,      \* sqlite_sequence: the last AUTOINCREMENT value handed out
  assigned      \* history: every [seq, rec] pair ever handed out

storeVars == <<rows, lastSeq, assigned>>

Row == [seq : Nat, rec : Rec, at : Nat]

StoreTypeOK ==
  /\ rows \subseteq Row /\ IsFiniteSet(rows)
  /\ lastSeq \in Nat
  /\ assigned \subseteq [seq : Nat, rec : Rec]

-----------------------------------------------------------------------------
(* Filters *)

Admits(cond, x) == cond = Absent \/ x \in cond

\* Filter::matches, the live-delivery predicate.
Matches(f, r, seq) ==
  /\ Admits(f.kinds, KindOf[r])
  /\ Admits(f.authors, AuthorOf[r])
  /\ Admits(f.ids, r)
  /\ f.refs = Absent \/ RefsOf[r] \cap f.refs # {}
  /\ f.since = Absent \/ seq > f.since

\* u64_to_sql: integers beyond the column's range are clamped.
Sql(n) == IF n > MaxInt THEN MaxInt ELSE n

\* Seeded defect: a resuming client is sent its cursor's record again.
SelectsFromSince(f, row) ==
  /\ f.kinds = Absent \/ Sql(KindOf[row.rec]) \in {Sql(k) : k \in f.kinds}
  /\ Admits(f.authors, AuthorOf[row.rec])
  /\ Admits(f.ids, row.rec)
  /\ f.refs = Absent \/ RefsOf[row.rec] \cap f.refs # {}
  /\ f.since = Absent \/ row.seq >= Sql(f.since)

\* The WHERE clause Store::query builds from the same filter.
Selects(f, row) ==
  /\ f.kinds = Absent \/ Sql(KindOf[row.rec]) \in {Sql(k) : k \in f.kinds}
  /\ Admits(f.authors, AuthorOf[row.rec])
  /\ Admits(f.ids, row.rec)
  /\ f.refs = Absent \/ RefsOf[row.rec] \cap f.refs # {}
  /\ f.since = Absent \/ row.seq > Sql(f.since)

Limit(f) == IF f.limit = Absent THEN DefaultLimit ELSE Sql(f.limit)

Selected(f) == {row \in rows : Selects(f, row)}

\* ORDER BY seq DESC LIMIT ?: the rows with fewer than Limit(f) rows above them.
QueryRows(f) ==
  {row \in Selected(f) :
      Cardinality({x \in Selected(f) : x.seq > row.seq}) < Limit(f)}

\* The result lists Store::query may return for S: most recent first.
Descending(S) ==
  {q \in [1..Cardinality(S) -> S] :
      \A i, j \in 1..Cardinality(S) : i < j => q[i].seq > q[j].seq}

-----------------------------------------------------------------------------
(* Operations *)

Stored(r) == \E row \in rows : row.rec = r

\* Seeded defect: INTEGER PRIMARY KEY without AUTOINCREMENT, MAX(rowid) + 1.
MaxRowidPlusOne ==
  IF rows = {} THEN 1
  ELSE 1 + (CHOOSE n \in {row.seq : row \in rows} : \A row \in rows : row.seq <= n)

NextSeq == lastSeq + 1

\* Seeded defect: the insert relies on a duplicate check made elsewhere.
InsertAgain(r, at) ==
  /\ lastSeq < MaxSeq
  /\ rows' = rows \cup {[seq |-> NextSeq, rec |-> r, at |-> at]}
  /\ lastSeq' = NextSeq
  /\ assigned' = assigned \cup {[seq |-> NextSeq, rec |-> r]}

\* Store::insert_record: one transaction, idempotent by id.  Its outcome is
\* Duplicate when Stored(r) held before it, Inserted(NextSeq) otherwise.
InsertRecord(r, at) ==
  IF Stored(r)
    THEN UNCHANGED storeVars
    ELSE /\ lastSeq < MaxSeq
         /\ rows' = rows \cup {[seq |-> NextSeq, rec |-> r, at |-> at]}
         /\ lastSeq' = NextSeq
         /\ assigned' = assigned \cup {[seq |-> NextSeq, rec |-> r]}

\* The DELETEs of Store::prune_expired for the overrides of K ...
ExpiredOf(K, now) ==
  {row \in rows : \E k \in K : Sql(KindOf[row.rec]) = Sql(k) /\ row.at < now - KindDays[k]}

ExpiredByKind(now) == ExpiredOf(DOMAIN KindDays, now)

\* Seeded defect: the default window also applied to overridden kinds.
OlderThanDefault(now) == {row \in rows : row.at < now - DefaultDays}

\* ... and delete_default_expired, for the kinds no override names.
ExpiredByDefault(now) ==
  {row \in rows : /\ \A k \in DOMAIN KindDays : Sql(KindOf[row.rec]) # Sql(k)
                  /\ row.at < now - DefaultDays}

PruneExpired(now) ==
  /\ rows' = rows \ (ExpiredByKind(now) \cup ExpiredByDefault(now))
  /\ UNCHANGED <<lastSeq, assigned>>

\* Each DELETE commits by itself, the overrides in the order of their kinds: what a
\* statement that fails, or a crash, leaves of the above.
PruneStops(now) ==
  /\ \E last \in DOMAIN KindDays :
       rows' = rows \ ExpiredOf({k \in DOMAIN KindDays : k <= last}, now)
  /\ UNCHANGED <<lastSeq, assigned>>

=============================================================================
