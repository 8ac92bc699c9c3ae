------------------------------ MODULE PolicyFeed ------------------------------
(***************************************************************************)
(* The policy engine of a gateway (apps/gateway/server/src/policy.ts): the *)
(* rules of the policy file, the denylist that subscribed compliance feeds *)
(* and notices fill, and the check every incoming record passes.           *)
(*                                                                         *)
(* A hash is a value, of a record or of a blob; no hash is both, so the    *)
(* scope column adds nothing.  The policy log and the wording of reasons   *)
(* are left out.                                                           *)
(***************************************************************************)
EXTENDS Integers, Sequences, FiniteSets

CONSTANTS
  Rec,          \* records that pass verifyRecord and validateKind
  KindOf,       \* [Rec -> a kind's name]
  AuthorOf,     \* the identity that signed a record
  RefsOf,       \* the hashes a record refers to, in order
  BatchOf,      \* a feed.takedown record's body: its feed, seq, add and remove
  Feed,         \* names of compliance feeds
  Files         \* policy files the operator may put in place

Kinds == {"manifest", "profile", "comment", "reaction", "follow", "playlist",
          "channel", "claim", "dispute", "notice", "counter", "receipt", "feed",
          "rotation", "supersede", "retract", "other"}

Hashes(r) == {RefsOf[r][i] : i \in 1..Len(RefsOf[r])}
Batches == {r \in Rec : KindOf[r] = "feed"}
Authors == {AuthorOf[r] : r \in Rec}

Hash == Rec \cup (UNION {Hashes(r) : r \in Rec})
          \cup (UNION {BatchOf[r].add \cup BatchOf[r].remove : r \in Batches})

ASSUME PolicyAssumption ==
  /\ KindOf \in [Rec -> Kinds]
  /\ \A r \in Batches : BatchOf[r].feed \in Feed /\ BatchOf[r].seq \in Nat
  /\ "notice" \notin Feed

VARIABLES
  file,         \* the policy file in force
  denylist,     \* table policy_denylist: who denied which hash
  batches,      \* table feed_batches: what was applied
  lastSeq       \* table feed_state: the largest sequence applied, per feed

policyVars == <<file, denylist, batches, lastSeq>>

PolicyTypeOK ==
  /\ file \in Files
  /\ denylist \subseteq [hash : Hash, by : Feed \cup {"notice"}]
  /\ batches \subseteq [feed : Feed, seq : Nat, rec : Batches]
  /\ lastSeq \in [Feed -> Nat \cup {-1}]

PolicyInit ==
  /\ file \in Files
  /\ denylist = {} /\ batches = {}
  /\ lastSeq = [f \in Feed |-> -1]

Denied == {d.hash : d \in denylist}

\* checkRecord: kind, then author, then every reference.
Allows(r) ==
  /\ KindOf[r] \notin file.kinds
  /\ AuthorOf[r] \notin file.identities
  /\ Hashes(r) \cap (file.hashes \cup Denied) = {}

\* An entry for a hash takes the place of any other: the table's key is the hash.
Deny(D, hashes, by) ==
  {d \in D : d.hash \notin hashes} \cup [hash : hashes, by : {by}]

Lift(D, hashes) == {d \in D : d.hash \notin hashes}

Subscribed(r) == [feed |-> BatchOf[r].feed, publisher |-> AuthorOf[r]] \in file.feeds
\* Seeded defect: a batch is not looked up.
NeverSeen(r) == FALSE

Seen(r) == \E b \in batches : b.feed = BatchOf[r].feed /\ b.seq = BatchOf[r].seq

Later(last, seq) == IF last >= seq THEN last ELSE seq

\* applyFeedBatch: one transaction, the additions before the removals.
ApplyBatch(r) ==
  LET b == BatchOf[r] IN
    IF Subscribed(r) /\ ~Seen(r)
    THEN /\ denylist' = Lift(Deny(denylist, b.add, b.feed), b.remove)
         /\ batches' = batches \cup {[feed |-> b.feed, seq |-> b.seq, rec |-> r]}
         /\ lastSeq' = [lastSeq EXCEPT ![b.feed] = Later(@, b.seq)]
         /\ UNCHANGED file
    ELSE UNCHANGED policyVars

\* denylistForNotice
DenyForNotice(r) ==
  /\ denylist' = Deny(denylist, Hashes(r), "notice")
  /\ UNCHANGED <<file, batches, lastSeq>>

\* reload, on SIGHUP: the sets of the file are replaced, the tables stay.
Reload ==
  /\ file' \in Files \ {file}
  /\ UNCHANGED <<denylist, batches, lastSeq>>

=============================================================================
