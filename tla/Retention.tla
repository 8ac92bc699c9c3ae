------------------------------ MODULE Retention ------------------------------
(***************************************************************************)
(* The store as a library: any caller inserts, any caller prunes, the     *)
(* clock moves on.  The serving relay never calls prune_expired (nothing   *)
(* outside the store's own tests does); this module says what the          *)
(* operation does to a store that is also being inserted into.             *)
(***************************************************************************)
EXTENDS RelayStore

CONSTANT LastDay      \* bound: days of clock

ASSUME RetentionAssumption == LastDay \in Nat

VARIABLE day          \* the system clock, in days

vars == <<rows, lastSeq, assigned, day>>

Init ==
  /\ rows = {} /\ lastSeq = 0 /\ assigned = {}
  /\ day = 0

\* received_at is read before the store is locked (sync.rs, handle_pub), so a
\* row may carry a day earlier than that of the row before it.
Insert == \E r \in Rec, at \in 0..day :
  /\ InsertRecord(r, at)
  /\ UNCHANGED day

Prune ==
  /\ PruneExpired(day) \/ PruneStops(day)
  /\ UNCHANGED day

Tick ==
  /\ day < LastDay
  /\ day' = day + 1
  /\ UNCHANGED storeVars

Next == Insert \/ Prune \/ Tick

Spec == Init /\ [][Next]_vars

-----------------------------------------------------------------------------
(* Properties *)

\* The tables hold well-formed rows, none from the future, and sqlite_sequence has
\* counted every sequence handed out.
TypeOK ==
  /\ StoreTypeOK /\ day \in Nat
  /\ \A row \in rows : row.at <= day
  /\ \A x \in assigned : x.seq <= lastSeq

\* A record is stored once and a receipt sequence names one row (insert_record's
\* duplicate check and the primary key).
OneRowPerRecord ==
  \A x, y \in rows : x.rec = y.rec \/ x.seq = y.seq => x = y

\* Receipt sequences only grow, over the whole life of the database: a row
\* inserted now is above every sequence ever handed out, those of pruned rows
\* included, so a client's `since` cursor never hides a later record.
SeqStrictlyIncreasing ==
  [][\A row \in rows' \ rows : \A old \in assigned : row.seq > old.seq]_vars

\* The retention window of a record: its kind's override, else the default.
Window(r) ==
  IF KindOf[r] \in DOMAIN KindDays THEN KindDays[KindOf[r]] ELSE DefaultDays

Outdated(row) == row.at < day - Window(row.rec)

\* The row's DELETE comes before that of the other.
Earlier(row, other) ==
  LET a == KindOf[row.rec]
      b == KindOf[other.rec]
  IN a \in DOMAIN KindDays /\ (b \in DOMAIN KindDays => a < b)

\* Pruning removes only rows older than their own window, an override both shortening
\* and lengthening retention, and nothing else makes a row leave; what has outlived its
\* window and stays is of a later DELETE than all that left, which only a prune that was
\* cut short leaves behind (prune_expired).
PruneIsExact ==
  [][\A row \in rows \ rows' :
       /\ Outdated(row)
       /\ \A other \in rows' : Outdated(other) => Earlier(row, other)]_vars

\* A filter means the same to Store::query (stored records) and to
\* Filter::matches (live records), for every kind a column can hold.
BackfillAgreesWithLive ==
  \A f \in Filters, row \in rows :
    /\ KindOf[row.rec] <= MaxInt
    /\ f.kinds = Absent \/ \A k \in f.kinds : k <= MaxInt
    => (Selects(f, row) <=> Matches(f, row.rec, row.seq))

=============================================================================
