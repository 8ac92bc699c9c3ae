------------------------------- MODULE Accounts -------------------------------
(***************************************************************************)
(* Custodied identities of a gateway: registration, the gateway's own      *)
(* identity, and export (custody.ts, gateway-identity.ts).                 *)
(*                                                                         *)
(* A registration looks its handle up, waits while a key is made and the   *)
(* password hashed, writes the row, waits while the genesis record is      *)
(* indexed, and gives it to the relays.  Other requests run at each wait,  *)
(* and the process may stop.  Every registration makes a fresh identity,   *)
(* named after its call; the gateway's own is the account of handle Own,   *)
(* which main ensures before it listens.                                   *)
(***************************************************************************)
EXTENDS Integers, Sequences, FiniteSets

CONSTANTS
  Calls, Exports, Handles,
  Own,           \* the gateway's own account, the row of gateway_identity
  None,
  Window,        \* EXPORT_WINDOW_MS
  MaxAttempts,   \* EXPORT_MAX_ATTEMPTS_PER_HOUR
  MaxClock,      \* bound: what the clock shows
  MaxCrashes     \* bound: stops of the process

ASSUME AccountsAssumption ==
  /\ Own \notin Handles /\ None \notin Calls
  /\ Window \in Nat /\ MaxAttempts \in Nat /\ MaxClock \in Nat /\ MaxCrashes \in Nat

VARIABLES
  clock,         \* Date.now(), which may be set back
  listening,     \* main has ensured the gateway's identity
  call,          \* registrations and ensure: where they are, for which handle
  users,         \* users table: handle -> identity, or None
  index,         \* identities whose genesis record is in the records table
  relayed,       \* identities whose genesis record was given to the relays
  attempts,      \* export_attempts table: handle -> times
  export,        \* exports: where they are, of which account
  begun,         \* history: handle -> the times its password was tried for an export
  torn,          \* history: identities whose registration went wrong after its row
  crashes

tables == <<users, index, relayed, attempts>>
vars == <<clock, listening, call, tables, export, begun, torn, crashes>>

Accounts == Handles \cup {Own}
Idle == [at |-> "none", of |-> Own]
Registering == {"hashing", "indexing"}
Answers == {"answered", "conflict", "failed"}

Init ==
  /\ clock \in 0..MaxClock /\ listening = FALSE
  /\ call = [r \in Calls |-> Idle] /\ export = [x \in Exports |-> Idle]
  /\ users = [h \in Accounts |-> None] /\ index = {} /\ relayed = {}
  /\ attempts = [h \in Handles |-> <<>>] /\ begun = [h \in Handles |-> <<>>]
  /\ torn = {} /\ crashes = 0

TypeOK ==
  /\ clock \in 0..MaxClock /\ listening \in BOOLEAN
  /\ call \in [Calls -> [at : {"none"} \cup Registering \cup Answers, of : Accounts]]
  /\ users \in [Accounts -> Calls \cup {None}]
  /\ index \subseteq Calls /\ relayed \subseteq Calls /\ torn \subseteq Calls
  /\ attempts \in [Handles -> Seq(0..MaxClock)] /\ begun \in [Handles -> Seq(0..MaxClock)]

-----------------------------------------------------------------------------
(* register and ensure *)

\* The handle is looked up; a key is made and the password hashed.
Register(r, h) ==
  /\ listening /\ call[r].at = "none"
  /\ call' = [call EXCEPT ![r] =
       [at |-> IF users[h] # None THEN "conflict" ELSE "hashing", of |-> h]]
  /\ UNCHANGED <<clock, listening, tables, export, begun, torn, crashes>>

\* main, before it listens: the row of an earlier boot is enough.
Ensure(r) ==
  /\ ~listening /\ call[r].at = "none"
  /\ \A s \in Calls : call[s].at \notin Registering
  /\ IF users[Own] # None
       THEN listening' = TRUE /\ UNCHANGED call
       ELSE call' = [call EXCEPT ![r] = [at |-> "hashing", of |-> Own]] /\ UNCHANGED listening
  /\ UNCHANGED <<clock, tables, export, begun, torn, crashes>>

\* Seeded defect: INSERT OR REPLACE.
InsertOrReplace(r) ==
  /\ users' = [users EXCEPT ![call[r].of] = r]
  /\ call' = [call EXCEPT ![r].at = "indexing"]

\* The INSERT, which throws when the handle has been taken since.
InsertUser(r) ==
  LET h == call[r].of IN
  IF users[h] = None
    THEN users' = [users EXCEPT ![h] = r] /\ call' = [call EXCEPT ![r].at = "indexing"]
    ELSE call' = [call EXCEPT ![r].at = "failed"] /\ UNCHANGED users

Hashed(r) ==
  /\ call[r].at = "hashing"
  /\ InsertUser(r)
  /\ UNCHANGED <<clock, listening, index, relayed, attempts, export, begun, torn, crashes>>

\* The caller is answered, or main goes on to listen.
Answer(r) ==
  /\ call' = [call EXCEPT ![r].at = "answered"]
  /\ listening' = (listening \/ call[r].of = Own)

\* Seeded defect: the answer does not wait for the record to be indexed.
AnswerAtOnce(r) ==
  /\ call[r].at = "indexing"
  /\ relayed' = relayed \cup {r}
  /\ Answer(r)
  /\ UNCHANGED <<clock, users, index, attempts, export, begun, torn, crashes>>

\* processRecord has stored the genesis record: it is published.
Indexed(r) ==
  /\ call[r].at = "indexing"
  /\ index' = index \cup {r} /\ relayed' = relayed \cup {r}
  /\ Answer(r)
  /\ UNCHANGED <<clock, users, attempts, export, begun, torn, crashes>>

\* processRecord does not store it, or throws.  The row stays.
IndexFails(r) ==
  /\ call[r].at = "indexing"
  /\ call' = [call EXCEPT ![r].at = "failed"]
  /\ torn' = torn \cup {r}
  /\ UNCHANGED <<clock, listening, tables, export, begun, crashes>>

-----------------------------------------------------------------------------
(* exportIdentity *)

\* Seeded defect: what is later than now is not counted.
RecentUntilNow(h) ==
  Cardinality({k \in DOMAIN attempts[h] : attempts[h][k] > clock - Window /\ attempts[h][k] <= clock})

Recent(h) == Cardinality({k \in DOMAIN attempts[h] : attempts[h][k] > clock - Window})

\* The attempt is written down before the password is tried.
Log(h) == [attempts EXCEPT ![h] = Append(@, clock)]

\* Of the account of a session: the attempt is counted, written down, and the
\* password is tried.
Export(x, h) ==
  /\ listening /\ export[x].at = "none" /\ users[h] # None
  /\ IF Recent(h) < MaxAttempts
       THEN /\ attempts' = Log(h)
            /\ begun' = [begun EXCEPT ![h] = Append(@, clock)]
            /\ export' = [export EXCEPT ![x] = [at |-> "verifying", of |-> h]]
       ELSE /\ export' = [export EXCEPT ![x] = [at |-> "rate_limited", of |-> h]]
            /\ UNCHANGED <<attempts, begun>>
  /\ UNCHANGED <<clock, listening, call, users, index, relayed, torn, crashes>>

\* The right password gives the genesis record of the index and the key of the row.
Verified(x) ==
  /\ export[x].at = "verifying"
  /\ \E right \in BOOLEAN :
       export' = [export EXCEPT ![x].at =
         CASE ~right -> "unauthorized"
           [] right /\ users[export[x].of] \in index -> "exported"
           [] OTHER -> "not_found"]
  /\ UNCHANGED <<clock, listening, call, tables, begun, torn, crashes>>

-----------------------------------------------------------------------------

SetClock ==
  /\ clock' \in 0..MaxClock
  /\ UNCHANGED <<listening, call, tables, export, begun, torn, crashes>>

\* The process stops, whatever is under way.
Crash ==
  /\ crashes < MaxCrashes
  /\ crashes' = crashes + 1
  /\ listening' = FALSE
  /\ call' = [r \in Calls |->
       IF call[r].at \in Registering THEN [call[r] EXCEPT !.at = "failed"] ELSE call[r]]
  /\ torn' = torn \cup {r \in Calls : call[r].at = "indexing"}
  /\ export' = [x \in Exports |->
       IF export[x].at = "verifying" THEN [export[x] EXCEPT !.at = "failed"] ELSE export[x]]
  /\ UNCHANGED <<clock, tables, begun>>

Next ==
  \/ \E r \in Calls :
       \/ Ensure(r) \/ Hashed(r) \/ Indexed(r) \/ IndexFails(r)
       \/ \E h \in Handles : Register(r, h)
  \/ \E x \in Exports : Verified(x) \/ \E h \in Handles : Export(x, h)
  \/ SetClock
  \/ Crash

Spec == Init /\ [][Next]_vars

-----------------------------------------------------------------------------
(* Properties *)

\* Of registrations of one handle that overlap, the one that is answered has the
\* handle, whatever the others do and however the process stops: its key is not
\* replaced under it (register, the UNIQUE of users.handle).
AnsweredOwnsHandle ==
  \A r \in Calls : call[r].at = "answered" => users[call[r].of] = r

\* An account's genesis record is in the index and with the relays, the gateway's own
\* included, unless its registration is still at it or went wrong after the row.
AccountsAreWhole ==
  \A h \in Accounts : users[h] # None =>
    \/ users[h] \in index \cap relayed
    \/ call[users[h]].at = "indexing"
    \/ users[h] \in torn

\* Within any window an account's password is tried for an export no more often than
\* the limit, by requests that overlap, over restarts, and with a clock that is set
\* back (exportIdentity).
ExportRate ==
  \A h \in Handles : \A t \in 0..MaxClock :
    Cardinality({k \in DOMAIN begun[h] : begun[h][k] > t - Window /\ begun[h][k] <= t})
      <= MaxAttempts

\* Both: registrations that overlap, fail or are stopped leave no account that is
\* another's, and none that is half there without a cause.
AccountsHold == AnsweredOwnsHandle /\ AccountsAreWhole

=============================================================================
