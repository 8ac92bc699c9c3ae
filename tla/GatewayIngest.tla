---------------------------- MODULE GatewayIngest ----------------------------
(***************************************************************************)
(* How a gateway indexes records (ingest.ts, ingest-kinds.ts): one run of  *)
(* processRecord per record that arrives, from any relay or from the       *)
(* gateway's own routes, interleaved at its awaits.                        *)
(*                                                                         *)
(* A run stands at "decide" after the duplicate check and before the       *)
(* policy check, at "csam" while the blobs of a manifest are matched, and  *)
(* at "deny" between the indexing of a notice and its enforcement by the   *)
(* compliance route.  What lies between two awaits is one action, and only *)
(* a crash can cut it, between two statements that are not in one          *)
(* transaction.  A run at "decide" awaits promises that are ready, so most *)
(* runs pass it in the order they came; letting any run overtake another   *)
(* there adds orders and loses none.                                       *)
(*                                                                         *)
(* A record that fails verifyRecord or validateKind leaves no trace but a  *)
(* log line and is not in Rec.  Nothing reads the refs table, so it is     *)
(* left out.  received_at is kept for the kinds whose tables compare it.   *)
(***************************************************************************)
EXTENDS PolicyFeed

CONSTANTS
  None,
  Blob,         \* those hashes that name blobs
  TargetKind,   \* the target_kind a supersede claims
  Local,        \* manifests with a blob on this gateway's disk, which may match
  Own,          \* notices signed by this gateway's compliance route
  Run,          \* processRecord calls under way at a time
  MaxStored,    \* bound: records that arrive once so many are stored are not modelled
  MaxClock      \* bound: the clock shows a value of 0..MaxClock

Claims == {"claim", "dispute", "notice", "counter"}

ASSUME IngestAssumption ==
  /\ \A r \in Rec : RefsOf[r] \in Seq(Hash)
  /\ \A r \in Rec : KindOf[r] \in {"supersede", "retract"} \cup Claims => RefsOf[r] # <<>>
  /\ \A r \in Rec : KindOf[r] \in {"comment", "reaction", "follow", "receipt"} =>
                     RefsOf[r] # <<>> /\ RefsOf[r][1] \notin Blob
  /\ Own \subseteq {r \in Rec : KindOf[r] = "notice"}
  /\ None \notin Hash
  /\ MaxStored \in Nat /\ MaxClock \in Nat

Clock == 0..MaxClock

VARIABLES
  records,      \* ids of table records
  received,     \* records.received_at of reactions and profiles
  index,        \* the tables keyed by record id: videos, comments, claims, ...
  reactions,    \* table reactions, keyed by target and author
  profiles,     \* table profiles, keyed by author
  withdrawn,    \* history: reactions whose rows a retraction removed
  run,          \* where each run of processRecord stands
  overtaken     \* history: runs under way when another run stored their record

tables == <<index, reactions, profiles, withdrawn>>
vars == <<policyVars, records, received, tables, run, overtaken>>

Tabled == {"manifest", "comment", "follow", "playlist", "channel", "receipt"} \cup Claims
Superseding == {"manifest", "comment", "follow", "playlist", "channel", "profile", "claim"}
Retractable == {"manifest", "comment", "follow", "playlist", "channel", "claim", "dispute"}
Timed == {r \in Rec : KindOf[r] \in {"reaction", "profile"}}

IdleRun == [at |-> "idle"]
RunState ==
  {IdleRun}
    \cup [at : {"decide", "csam", "deny"}, rec : Rec]

ReactionRow == [target : Hash, author : Authors, rec : Rec, at : Clock]
ProfileRow == [author : Authors, rec : Rec, body : Rec, at : Clock]
Row == [id : Rec, body : Rec, subject : Hash \cup {None}, retracted : BOOLEAN]

OneRowPerKey ==
  /\ \A x, y \in index : x.id = y.id => x = y
  /\ \A x, y \in reactions : x.target = y.target /\ x.author = y.author => x = y
  /\ \A x, y \in profiles : x.author = y.author => x = y

TypeOK ==
  /\ PolicyTypeOK
  /\ records \subseteq Rec
  /\ received \in [Rec -> Clock]
  /\ index \subseteq Row
  /\ reactions \subseteq ReactionRow
  /\ profiles \subseteq ProfileRow
  /\ withdrawn \subseteq Rec
  /\ run \in [Run -> RunState] /\ overtaken \subseteq Run
  /\ OneRowPerKey

Init ==
  /\ PolicyInit
  /\ records = {} /\ received = [r \in Rec |-> 0]
  /\ index = {} /\ reactions = {} /\ profiles = {} /\ withdrawn = {}
  /\ run = [s \in Run |-> IdleRun] /\ overtaken = {}

Target(r) == RefsOf[r][1]

\* refs[0], if it names a record
FirstRecordRef(r) ==
  IF RefsOf[r] # <<>> /\ Target(r) \notin Blob THEN Target(r) ELSE None

RowsOf(id) == {row \in index : row.id = id}

\* resolveClaimSubject: one hop through the claims indexed so far for answers, the
\* first record among the subjects of a notice.
ClaimSubject(kind, r) ==
  LET answered == {row \in RowsOf(Target(r)) : KindOf[row.id] \in Claims}
      named == {i \in 1..Len(RefsOf[r]) : RefsOf[r][i] \notin Blob}
      first == {i \in named : \A j \in named : i <= j}
  IN CASE kind = "claim" -> FirstRecordRef(r)
       [] kind \in {"dispute", "counter"} ->
            IF answered = {} THEN None ELSE (CHOOSE row \in answered : TRUE).subject
       [] kind = "notice" ->
            IF first = {} THEN None ELSE RefsOf[r][CHOOSE i \in first : TRUE]

Subject(kind, r) ==
  CASE kind \in Claims -> ClaimSubject(kind, r)
    [] kind \in {"playlist", "channel"} -> None
    [] OTHER -> FirstRecordRef(r)

\* The upsert of a table keyed by record id.  On conflict the videos table takes all
\* columns, the subject with them, follows only clears its flag, and the others take
\* the new body.
Upsert(kind, id, r) ==
  LET fresh == [id |-> id, body |-> r, subject |-> Subject(kind, r), retracted |-> FALSE]
      Merged(row) == CASE kind = "manifest" -> fresh
                       [] kind = "follow" -> [row EXCEPT !.retracted = FALSE]
                       [] OTHER -> [row EXCEPT !.body = r, !.retracted = FALSE]
  IN IF RowsOf(id) = {} THEN index \cup {fresh}
     ELSE {IF row.id = id THEN Merged(row) ELSE row : row \in index}

\* Seeded defect: the upsert without its WHERE.
ReplaceReaction(r, at) ==
  LET same == {x \in reactions : x.target = Target(r) /\ x.author = AuthorOf[r]}
  IN reactions' = (reactions \ same) \cup
       {[target |-> Target(r), author |-> AuthorOf[r], rec |-> r, at |-> at]}

\* One row per target and author: the later received wins, a tie goes to the newcomer.
IndexReaction(r, at) ==
  LET same == {x \in reactions : x.target = Target(r) /\ x.author = AuthorOf[r]}
      row == [target |-> Target(r), author |-> AuthorOf[r], rec |-> r, at |-> at]
  IN reactions' = IF \E x \in same : x.at > at THEN reactions
                  ELSE (reactions \ same) \cup {row}

IndexProfile(id, r, at) ==
  LET same == {x \in profiles : x.author = AuthorOf[r]}
      row == [author |-> AuthorOf[r], rec |-> id, body |-> r, at |-> at]
  IN profiles' = IF \E x \in same : x.at > at THEN profiles
                 ELSE (profiles \ same) \cup {row}

\* The indexer of a kind, for the body of r under the key id; the kinds without one
\* are only stored.
IndexAs(kind, id, r, at) ==
  \/ /\ kind \in Tabled
     /\ index' = Upsert(kind, id, r)
     /\ UNCHANGED <<reactions, profiles, withdrawn>>
  \/ /\ kind = "reaction"
     /\ IndexReaction(r, at)
     /\ UNCHANGED <<index, profiles, withdrawn>>
  \/ /\ kind = "profile"
     /\ IndexProfile(id, r, at)
     /\ UNCHANGED <<index, reactions, withdrawn>>
  \/ /\ kind \in {"rotation", "supersede", "retract", "feed", "other"}
     /\ UNCHANGED tables

\* retractByKind
Retract(id) ==
  /\ UNCHANGED profiles
  /\ IF KindOf[id] = "reaction"
     THEN /\ reactions' = {x \in reactions : x.rec # id}
          /\ withdrawn' = withdrawn \cup {id}
          /\ UNCHANGED index
     ELSE /\ index' = {IF row.id = id /\ KindOf[id] \in Retractable
                       THEN [row EXCEPT !.retracted = TRUE] ELSE row : row \in index}
          /\ UNCHANGED <<reactions, withdrawn>>

\* Seeded defect: whose record it is, is not compared.
BadTargetOfAnyone(r) ==
  /\ KindOf[r] \in {"supersede", "retract"}
  /\ \/ Target(r) \notin records
     \/ KindOf[Target(r)] = "rotation"
     \/ KindOf[r] = "supersede" /\ TargetKind[r] # KindOf[Target(r)]

\* What a supersede or retract must find: its target, stored, by the same author, no
\* rotation, and of the kind it says.
BadTarget(r) ==
  /\ KindOf[r] \in {"supersede", "retract"}
  /\ \/ Target(r) \notin records
     \/ AuthorOf[Target(r)] # AuthorOf[r]
     \/ KindOf[Target(r)] = "rotation"
     \/ KindOf[r] = "supersede" /\ TargetKind[r] # KindOf[Target(r)]

\* A reply must share the subject of the comment it answers, if that is indexed.
BadParent(r) ==
  /\ KindOf[r] = "comment" /\ Len(RefsOf[r]) > 1
  /\ \E row \in RowsOf(RefsOf[r][2]) :
       KindOf[row.id] = "comment" /\ row.subject \notin {None, Target(r)}

Rejected(r) == BadTarget(r) \/ BadParent(r)

\* The dispatch on the kind, after every check.
Effect(r, at) ==
  \/ /\ KindOf[r] = "supersede"
     /\ IF KindOf[Target(r)] \in Superseding
        THEN IndexAs(KindOf[Target(r)], Target(r), r, at) ELSE UNCHANGED tables
     /\ UNCHANGED policyVars
  \/ /\ KindOf[r] = "retract"
     /\ Retract(Target(r))
     /\ UNCHANGED policyVars
  \/ /\ KindOf[r] = "feed"
     /\ ApplyBatch(r)
     /\ UNCHANGED tables
  \/ /\ KindOf[r] \notin {"supersede", "retract", "feed"}
     /\ IndexAs(KindOf[r], r, r, at)
     /\ UNCHANGED policyVars

\* Seeded defect: the lookup by id does not find the record.
ReceiveAgain(s, r) ==
  /\ run[s] = IdleRun
  /\ Cardinality(records) < MaxStored
  /\ r \in Own => \A t \in Run : run[t] # IdleRun => run[t].rec # r
  /\ run' = [run EXCEPT ![s] = [at |-> "decide", rec |-> r]]
  /\ UNCHANGED <<policyVars, records, received, tables, overtaken>>

\* A record arrives, from a relay or from a route, and is not stored yet: one that is
\* has no further effect.  Nobody else has a notice that this gateway just signed.
Receive(s, r) ==
  /\ run[s] = IdleRun /\ r \notin records
  /\ Cardinality(records) < MaxStored
  /\ r \in Own => \A t \in Run : run[t] # IdleRun => run[t].rec # r
  /\ run' = [run EXCEPT ![s] = [at |-> "decide", rec |-> r]]
  /\ UNCHANGED <<policyVars, records, received, tables, overtaken>>

Ends(s) ==
  /\ run' = [run EXCEPT ![s] = IdleRun] /\ overtaken' = overtaken \ {s}
  /\ UNCHANGED <<policyVars, records, received, tables>>

\* Refused by policy.
Refuse(s) ==
  /\ run[s].at = "decide" /\ ~Allows(run[s].rec)
  /\ Ends(s)

\* A manifest waits while those of its blobs that are here are matched.
Waits(r) == KindOf[r] = "manifest"

AwaitMatch(s) ==
  /\ run[s].at = "decide" /\ Allows(run[s].rec) /\ Waits(run[s].rec)
  /\ run' = [run EXCEPT ![s] = [at |-> "csam", rec |-> run[s].rec]]
  /\ UNCHANGED <<policyVars, records, received, tables, overtaken>>

Match(s) == run[s].at = "csam" /\ run[s].rec \in Local /\ Ends(s)

\* The run s has passed the policy and the match.
Passed(s) ==
  \/ run[s].at = "decide" /\ Allows(run[s].rec) /\ ~Waits(run[s].rec)
  \/ run[s].at = "csam"

Reject(s) == Passed(s) /\ Rejected(run[s].rec) /\ Ends(s)

\* storeRecordRow; the compliance route goes on to enforce its own notice.
Store(s, r, at) ==
  /\ records' = records \cup {r}
  /\ received' = IF r \in records \/ r \notin Timed THEN received
                 ELSE [received EXCEPT ![r] = at]
  /\ run' = [run EXCEPT ![s] = IF r \in Own THEN [at |-> "deny", rec |-> r] ELSE IdleRun]
  /\ overtaken' = (overtaken \ {s})
       \cup {t \in Run \ {s} : run[t] # IdleRun /\ run[t].rec = r}

\* The clock may show anything when received_at is read: it can be set back.
Index(s) == \E at \in Clock :
  /\ Passed(s) /\ ~Rejected(run[s].rec)
  /\ Effect(run[s].rec, at)
  /\ Store(s, run[s].rec, at)

\* Seeded defect: the record is stored before its kind's tables are written.
StopBeforeEffect(s) ==
  /\ Passed(s) /\ ~Rejected(run[s].rec)
  /\ records' = records \cup {run[s].rec}
  /\ run' = [t \in Run |-> IdleRun] /\ overtaken' = {}
  /\ UNCHANGED <<policyVars, tables, received>>

\* The process stops after the tables of a kind were written and before the record was.
StopBeforeStore(s) == \E at \in Clock :
  /\ Passed(s) /\ ~Rejected(run[s].rec)
  /\ Effect(run[s].rec, at)
  /\ run' = [t \in Run |-> IdleRun] /\ overtaken' = {}
  /\ UNCHANGED <<records, received>>

Enforce(s) ==
  /\ run[s].at = "deny"
  /\ DenyForNotice(run[s].rec)
  /\ run' = [run EXCEPT ![s] = IdleRun] /\ overtaken' = overtaken \ {s}
  /\ UNCHANGED <<records, received, tables>>

Stop ==
  /\ run' = [s \in Run |-> IdleRun] /\ overtaken' = {}
  /\ UNCHANGED <<policyVars, records, received, tables>>

ReloadPolicy == Reload /\ UNCHANGED <<records, received, tables, run, overtaken>>

Step(s) ==
  \/ Refuse(s) \/ AwaitMatch(s) \/ Match(s) \/ Reject(s)
  \/ Index(s) \/ StopBeforeStore(s) \/ Enforce(s)

Next ==
  \/ \E s \in Run : Step(s) \/ \E r \in Rec : Receive(s, r)
  \/ Stop \/ ReloadPolicy

Spec == Init /\ [][Next]_vars

-----------------------------------------------------------------------------
\* A stored record of a kind with a table has its row: the crash between the two
\* writes cannot lose a row, because the record is written last and until then a
\* redelivery is not taken for a duplicate.
StoredIsIndexed ==
  \A r \in records : KindOf[r] \in Tabled => RowsOf(r) # {}

\* A row is shown, edited, hidden or shown again only by a record of its author: no
\* step of another's record, of a feed, of a notice or of a crash touches it.
OnlyTheAuthorChanges ==
  [][ \A row \in (index \ index') \cup (index' \ index) :
        \E s \in Run : run[s] # IdleRun /\ AuthorOf[run[s].rec] = AuthorOf[row.id] ]_vars

\* Until the author takes one back, the reaction to a target that counts is the one
\* received last of those stored, although the clock is set back and runs overlap.
LastReactionCounts ==
  \A x \in reactions :
    LET Others(S) == {r \in S : /\ KindOf[r] = "reaction"
                               /\ Target(r) = x.target /\ AuthorOf[r] = x.author}
    IN Others(withdrawn) = {} => \A r \in Others(records) : received[r] <= x.at

\* A run that puts the row of id into its table, for the record itself or an edit of it,
\* although it has been stored before only where another run overtook it.
Shows(s, id) ==
  /\ run[s] # IdleRun
  /\ \/ run[s].rec = id
     \/ KindOf[run[s].rec] = "supersede" /\ Target(run[s].rec) = id
  /\ run[s].rec \in records => s \in overtaken

\* A retraction stands, whatever comes again from other relays and wherever the process
\* stops: what its author took back is shown again only by a new edit, or by a copy of
\* the record or of an edit that was under way when the first copy was stored.
RetractionStands ==
  [][ /\ \A x \in index, y \in index' :
           x.id = y.id /\ x.retracted /\ ~y.retracted => \E s \in Run : Shows(s, x.id)
      /\ \A x \in reactions' \ reactions :
           x.rec \in withdrawn => \E s \in overtaken : run[s].rec = x.rec ]_vars

\* However batches are ordered, repeated or cut by a crash, a batch is applied once:
\* the denylist changes only with a new row of feed_batches or a notice.
BatchAppliedOnce ==
  [][ denylist' # denylist =>
        \/ \E b \in batches' : \A x \in batches : <<x.feed, x.seq>> # <<b.feed, b.seq>>
        \/ \E s \in Run : run[s].at = "deny" ]_vars

\* feed_state names the largest sequence applied.
LastSeqIsLargest ==
  \A f \in Feed :
    /\ \A b \in batches : b.feed = f => b.seq <= lastSeq[f]
    /\ lastSeq[f] # -1 => \E b \in batches : b.feed = f /\ b.seq = lastSeq[f]

=============================================================================
