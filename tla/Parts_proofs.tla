----------------------------- MODULE Parts_proofs ------------------------------
(***************************************************************************)
(* Proofs about the parts, for any number of calls, uploads and requests,  *)
(* any contents, renditions and segments, and any failures and crashes.    *)
(*                                                                         *)
(* What a gateway publishes (PubInv): a call waits for its own record, and *)
(* a record in the outbox counts as sent.  What is uploaded (UpInv): each  *)
(* task is at a stage that bounds what it may have in hand (Works), has    *)
(* named only what is stored (Named), and has its rendition's directory as *)
(* it left it, unless another task holds the same one (Writing, Alone); a  *)
(* step leaves what is stored as good as it was (Grows).  The sidecar      *)
(* (SideInv): a file is under its own hash, between the awaits as well.    *)
(*                                                                         *)
(* The accounts: a row is its call's from the insert on (Owned), so an     *)
(* answer finds it; a registration between row and answer is what keeps an *)
(* account from being whole.  The rate holds because the table of attempts *)
(* is the history of tries (Logged), and of a window that ends now or      *)
(* later every earlier try counts as recent.                               *)
(***************************************************************************)
EXTENDS Parts, FiniteSetTheorems, SequenceTheorems, WellFoundedInduction, TLAPS

-----------------------------------------------------------------------------
(* Numbers, and how many there are of them *)

Less == {ss \in Nat \X Nat : ss[1] < ss[2]}

\* Of the numbers in a set there is a least.
LEMMA Least ==
  ASSUME NEW T \in SUBSET Nat, T # {}
  PROVE  \E x \in T : \A y \in T : x <= y
<1>1. IsWellFoundedOn(Less, Nat)
  BY NatLessThanWellFounded DEF Less, OpToRel
<1>2. PICK x \in T : \A m \in T : ~(<<m, x>> \in Less)
  BY <1>1, WFMin
<1>3. ASSUME NEW y \in T PROVE x <= y
  <2>1. x \in Nat /\ y \in Nat /\ ~(<<y, x>> \in Less)
    BY <1>2
  <2> QED
    BY <2>1 DEF Less
<1> QED
  BY <1>3

\* A set of numbers up to n that is not empty has a greatest member.
LEMMA Greatest ==
  ASSUME NEW n \in Nat, NEW T \in SUBSET (0..n), T # {}
  PROVE  \E x \in T : \A y \in T : x >= y
<1> DEFINE U == {n - x : x \in T}
<1>1. IsWellFoundedOn(Less, Nat)
  BY NatLessThanWellFounded DEF Less, OpToRel
<1>2. U \in SUBSET Nat /\ U # {}
  <2>1. \A x \in T : n - x \in Nat
    OBVIOUS
  <2> QED
    BY <2>1
<1>3. PICK u \in U : \A m \in U : ~(<<m, u>> \in Less)
  BY <1>1, <1>2, WFMin
<1>4. PICK x \in T : u = n - x
  BY <1>3
<1>5. ASSUME NEW y \in T PROVE x >= y
  <2>1. n - y \in U /\ u \in Nat /\ n - y \in Nat
    BY <1>2
  <2>2. ~(n - y < u)
    BY <1>3, <2>1 DEF Less
  <2> QED
    BY <1>4, <2>2
<1> QED
  BY <1>5

LEMMA UpTo ==
  ASSUME NEW n \in Nat
  PROVE  /\ Cardinality(1..n) = n
         /\ \A A \in SUBSET (1..n) : IsFiniteSet(A) /\ Cardinality(A) \in Nat
<1>1. IsFiniteSet(1..n) /\ Cardinality(1..n) = n
  <2>1. IsFiniteSet(1..n) /\ Cardinality(1..n) = IF 1 > n THEN 0 ELSE n - 1 + 1
    BY FS_Interval
  <2> QED
    BY <2>1
<1>2. \A A \in SUBSET (1..n) : IsFiniteSet(A)
  BY <1>1, FS_Subset
<1> QED
  BY <1>1, <1>2, FS_CardinalityType

\* A set of numbers has a member with so many below it, for every number of them.
LEMMA Ranked ==
  ASSUME NEW n \in Nat, NEW A \in SUBSET (1..n), NEW i \in 1..Cardinality(A)
  PROVE  \E k \in A : Cardinality({j \in A : j < k}) = i - 1
<1> DEFINE Below(k) == {j \in A : j < k}
           T == {k \in A : Cardinality(Below(k)) >= i - 1}
<1>0. A \subseteq Nat
  OBVIOUS
<1>1. IsFiniteSet(A) /\ Cardinality(A) \in Nat
  BY UpTo
<1>2. \A k : IsFiniteSet(Below(k)) /\ Cardinality(Below(k)) \in Nat
  <2>1. \A k : Below(k) \subseteq A
    OBVIOUS
  <2> HIDE DEF Below
  <2> QED
    BY <1>1, <2>1, FS_Subset, FS_CardinalityType
<1>3. \A k \in A, p \in A : p < k /\ (\A j \in Below(k) : p >= j)
         => Cardinality(Below(k)) = Cardinality(Below(p)) + 1
  <2> SUFFICES ASSUME NEW k \in A, NEW p \in A, p < k, \A j \in Below(k) : p >= j
               PROVE  Cardinality(Below(k)) = Cardinality(Below(p)) + 1
    OBVIOUS
  <2>0. k \in Nat /\ p \in Nat
    BY <1>0
  <2>1. Below(k) = Below(p) \cup {p} /\ p \notin Below(p)
    <3>1. ASSUME NEW j \in A, j < k, j # p PROVE j < p
      <4>1. p >= j /\ j \in Nat
        BY <1>0, <3>1
      <4> QED
        BY <2>0, <3>1, <4>1
    <3>2. ASSUME NEW j \in A, j < p PROVE j < k
      <4>1. j \in Nat
        BY <1>0
      <4> QED
        BY <2>0, <3>2, <4>1
    <3>3. ~(p < p)
      BY <2>0
    <3> QED
      BY <3>1, <3>2, <3>3
  <2> HIDE DEF Below
  <2> QED
    BY <1>2, <2>1, FS_AddElement
<1>4. A \in SUBSET (0..n) /\ A # {}
  BY <1>1, FS_EmptySet
<1>5. PICK x \in A : \A y \in A : x >= y
  BY <1>4, Greatest
<1>6. Cardinality(A) = Cardinality(Below(x)) + 1
  <2>1. A = Below(x) \cup {x} /\ x \notin Below(x)
    <3>1. ASSUME NEW j \in A, j # x PROVE j < x
      BY <1>0, <1>5, <3>1
    <3>2. ~(x < x)
      BY <1>0
    <3> QED
      BY <3>1, <3>2
  <2> HIDE DEF Below
  <2> QED
    BY <1>2, <2>1, FS_AddElement
<1>7. x \in T
  <2>1. Cardinality(A) >= i /\ i \in Nat /\ Cardinality(Below(x)) \in Nat
    BY <1>1, <1>2
  <2>2. Cardinality(Below(x)) >= i - 1
    BY <1>1, <1>6, <2>1
  <2> QED
    BY <2>2
<1>8. PICK k \in T : \A y \in T : k <= y
  <2>1. T \in SUBSET Nat /\ T # {}
    BY <1>0, <1>7
  <2> QED
    BY <2>1, Least
<1>9. CASE Below(k) = {}
  <2>1. Cardinality(Below(k)) = 0
    BY <1>9, FS_EmptySet
  <2>2. k \in A /\ 0 >= i - 1 /\ i \in Nat /\ i >= 1
    BY <1>8, <1>1, <2>1
  <2>3. Cardinality(Below(k)) = i - 1
    BY <2>1, <2>2
  <2> QED
    BY <2>2, <2>3
<1>10. CASE Below(k) # {}
  <2>1. Below(k) \in SUBSET (0..n)
    BY <1>4
  <2>2. PICK p \in Below(k) : \A y \in Below(k) : p >= y
    BY <1>10, <2>1, Greatest
  <2>3. p \in A /\ p < k /\ k \in A
    BY <1>8, <2>2
  <2>4. Cardinality(Below(k)) = Cardinality(Below(p)) + 1
    BY <1>3, <2>2, <2>3
  <2>5. p \notin T
    <3>1. ~(k <= p)
      BY <1>0, <2>3
    <3> QED
      BY <1>8, <3>1
  <2>6. ~(Cardinality(Below(p)) >= i - 1)
    BY <2>3, <2>5
  <2>7. Cardinality(Below(k)) >= i - 1 /\ Cardinality(Below(p)) \in Nat
    BY <1>2, <1>8
  <2>8. Cardinality(Below(k)) = i - 1
    BY <2>4, <2>6, <2>7
  <2> QED
    BY <2>3, <2>8
<1> QED
  BY <1>9, <1>10

-----------------------------------------------------------------------------
(* What a gateway publishes *)

LEMMA SelectLast ==
  ASSUME NEW q \in Seq(Rec), NEW r \in Pub!ToSet(q)
  PROVE  /\ Pub!SelectLastInSeq(q, LAMBDA x : x = r) \in 1..Len(q)
         /\ q[Pub!SelectLastInSeq(q, LAMBDA x : x = r)] = r
<1> DEFINE I == {i \in 1..Len(q) : q[i] = r}
<1>1. Pub!SelectLastInSeq(q, LAMBDA x : x = r) = IF I # {} THEN Pub!Max(I) ELSE 0
  BY DEF Pub!SelectLastInSeq
<1>2. I # {}
  BY DEF Pub!ToSet
<1>3. Len(q) \in Nat /\ I \in SUBSET (0..Len(q))
  BY LenProperties
<1>4. PICK x \in I : \A y \in I : x >= y
  BY <1>2, <1>3, Greatest
<1>5. Pub!Max(I) \in I
  BY <1>4 DEF Pub!Max
<1> QED
  BY <1>1, <1>2, <1>5

LEMMA TimesCounts ==
  ASSUME NEW q, NEW r
  PROVE  Pub!Times(r, q) = Cardinality({k \in DOMAIN q : q[k] = r})
<1>1. \A S : Pub!Cardinality(S) = Cardinality(S)
  BY DEF Pub!Cardinality, Cardinality
<1> QED
  BY <1>1 DEF Pub!Times

LEMMA TimesNat == ASSUME NEW q \in Seq(Rec), NEW r PROVE Pub!Times(r, q) \in Nat
<1>1. IsFiniteSet(1..Len(q))
  BY LenProperties, FS_Interval
<1>2. {k \in DOMAIN q : q[k] = r} \in SUBSET (1..Len(q))
  OBVIOUS
<1> QED
  BY <1>1, <1>2, FS_Subset, FS_CardinalityType, TimesCounts

LEMMA TimesEmpty == ASSUME NEW r PROVE Pub!Times(r, <<>>) = 0
<1>1. {k \in DOMAIN <<>> : <<>>[k] = r} = {}
  OBVIOUS
<1> QED
  BY <1>1, FS_EmptySet, TimesCounts

LEMMA TimesOne == ASSUME NEW r, NEW x PROVE Pub!Times(r, <<x>>) = IF r = x THEN 1 ELSE 0
<1>1. {k \in DOMAIN <<x>> : <<x>>[k] = r} = IF r = x THEN {1} ELSE {}
  OBVIOUS
<1> QED
  BY <1>1, FS_EmptySet, FS_Singleton, TimesCounts

LEMMA TimesAppend ==
  ASSUME NEW q \in Seq(Rec), NEW x \in Rec, NEW r
  PROVE  Pub!Times(r, Append(q, x)) = Pub!Times(r, q) + IF r = x THEN 1 ELSE 0
<1> DEFINE A == {k \in 1..Len(q) : q[k] = r}
           n == Len(q) + 1
<1>1. Len(q) \in Nat /\ DOMAIN q = 1..Len(q) /\ DOMAIN Append(q, x) = 1..n
  BY LenProperties, AppendProperties
<1>2. {k \in 1..n : Append(q, x)[k] = r} = IF r = x THEN A \cup {n} ELSE A
  <2>1. \A k \in 1..n : Append(q, x)[k] = IF k = n THEN x ELSE q[k]
    BY <1>1, AppendProperties
  <2>2. 1..n = (1..Len(q)) \cup {n} /\ n \notin 1..Len(q)
    BY <1>1
  <2> HIDE DEF n
  <2> QED
    BY <2>1, <2>2
<1>3. IsFiniteSet(A) /\ n \notin A
  <2>1. IsFiniteSet(1..Len(q)) /\ A \in SUBSET (1..Len(q))
    BY <1>1, FS_Interval
  <2> QED
    BY <1>1, <2>1, FS_Subset
<1>4. Cardinality(A) \in Nat
  BY <1>3, FS_CardinalityType
<1>5. Pub!Times(r, q) = Cardinality(A)
  BY <1>1, TimesCounts
<1>6. Pub!Times(r, Append(q, x)) = Cardinality(IF r = x THEN A \cup {n} ELSE A)
  BY <1>1, <1>2, TimesCounts
<1> HIDE DEF A, n
<1>7. Cardinality(A \cup {n}) = Cardinality(A) + 1
  BY <1>3, FS_AddElement
<1> QED
  BY <1>4, <1>5, <1>6, <1>7

PubCall == [rec : Rec, at : {"waiting", "queued", "accepted", "refused", "timeout", "nothing"}]
PubAnswer == [rec : Rec, ok : BOOLEAN]

PubType ==
  /\ outbox \in Seq(Rec) /\ wire \in Seq(Rec) /\ accepted \in SUBSET Rec
  /\ calls \in Seq(PubCall) /\ answers \in Seq(PubAnswer)
  /\ DOMAIN pending = Rec
  /\ asked \in [Rec -> Nat] /\ sent \in [Rec -> Nat]

\* A call that waits is the one of its record, and what a call or an answer says was
\* accepted the relay has.
PubTrue ==
  /\ \A r \in Rec : pending[r] # NoCall => pending[r] \in 1..Len(calls) /\ calls[pending[r]].rec = r
  /\ \A k \in 1..Len(answers) : answers[k].ok => answers[k].rec \in accepted
  /\ \A i \in 1..Len(calls) : calls[i].at = "accepted" => calls[i].rec \in accepted

\* No record is sent more often than it was asked for, those still to be sent counted.
PubOnce == \A r \in Rec : sent[r] + Pub!Times(r, outbox) <= asked[r]

PubInv == PubType /\ PubTrue /\ PubOnce

LEMMA PubInit == Pub!Init => PubInv
<1> SUFFICES ASSUME Pub!Init PROVE PubInv
  OBVIOUS
<1>1. PubType
  BY DEF Pub!Init, PubType
<1>2. PubTrue
  BY DEF Pub!Init, PubTrue
<1>3. PubOnce
  BY TimesEmpty DEF Pub!Init, PubOnce
<1> QED
  BY <1>1, <1>2, <1>3 DEF PubInv

LEMMA SendHolds ==
  ASSUME PubInv, NEW q \in Seq(Rec), Pub!Send(q), UNCHANGED <<answers, accepted>>
  PROVE  /\ calls' \in Seq(PubCall) /\ DOMAIN pending' = Rec /\ wire' \in Seq(Rec)
         /\ PubTrue'
         /\ sent' \in [Rec -> Nat]
         /\ \A r \in Rec : sent'[r] = sent[r] + Pub!Times(r, q)
<1> DEFINE new == [k \in DOMAIN q |-> [rec |-> q[k], at |-> "waiting"]]
<1>1. new \in Seq(PubCall) /\ Len(new) = Len(q) /\ \A k \in 1..Len(q) : new[k] = [rec |-> q[k], at |-> "waiting"]
  <2>1. DOMAIN q = 1..Len(q) /\ Len(q) \in Nat
    BY LenProperties
  <2>2. \A k \in 1..Len(q) : [rec |-> q[k], at |-> "waiting"] \in PubCall
    BY <2>1 DEF PubCall
  <2> QED
    BY <2>1, <2>2
<1>2. calls' = calls \o new /\ wire' = wire \o q
  BY DEF Pub!Send
<1>3. calls \in Seq(PubCall) /\ wire \in Seq(Rec) /\ Len(calls) \in Nat /\ Len(q) \in Nat
  BY LenProperties DEF PubInv, PubType
<1>4. /\ calls' \in Seq(PubCall) /\ Len(calls') = Len(calls) + Len(q)
      /\ \A i \in 1..Len(calls) : calls'[i] = calls[i]
      /\ \A k \in 1..Len(q) : calls'[Len(calls) + k] = [rec |-> q[k], at |-> "waiting"]
  <2> HIDE DEF new
  <2>1. new \in Seq(PubCall) /\ Len(new) = Len(q)
    BY <1>1
  <2>2. /\ calls \o new \in Seq(PubCall) /\ Len(calls \o new) = Len(calls) + Len(new)
        /\ \A i \in 1..Len(calls) + Len(new) : (calls \o new)[i] =
                     IF i <= Len(calls) THEN calls[i] ELSE new[i - Len(calls)]
    BY <1>3, <2>1, ConcatProperties
  <2>3. \A i \in 1..Len(calls) : calls'[i] = calls[i]
    BY <1>2, <1>3, <2>1, <2>2
  <2>4. ASSUME NEW k \in 1..Len(q)
        PROVE  calls'[Len(calls) + k] = [rec |-> q[k], at |-> "waiting"]
    <3>1. Len(calls) + k \in 1..Len(calls) + Len(new) /\ ~(Len(calls) + k <= Len(calls))
          /\ Len(calls) + k - Len(calls) = k
      BY <1>3, <2>1
    <3>2. calls'[Len(calls) + k] = new[k]
      BY <1>2, <2>2, <3>1
    <3> QED
      BY <1>1, <3>2
  <2> QED
    BY <1>2, <2>1, <2>2, <2>3, <2>4
<1>5. wire' \in Seq(Rec)
  BY <1>2, <1>3, ConcatProperties
<1>6. /\ DOMAIN pending' = Rec
      /\ \A r \in Rec : pending'[r] =
           IF r \in Pub!ToSet(q) THEN Len(calls) + Pub!SelectLastInSeq(q, LAMBDA x : x = r)
           ELSE pending[r]
  BY DEF Pub!Send
<1>7. ASSUME NEW r \in Rec, pending'[r] # NoCall
      PROVE  pending'[r] \in 1..Len(calls') /\ calls'[pending'[r]].rec = r
  <2>1. CASE r \in Pub!ToSet(q)
    <3>1. PICK k \in 1..Len(q) : pending'[r] = Len(calls) + k /\ q[k] = r
      BY <1>6, <2>1, SelectLast
    <3>2. calls'[pending'[r]] = [rec |-> q[k], at |-> "waiting"]
      BY <1>4, <3>1
    <3>3. pending'[r] \in 1..Len(calls')
      BY <1>3, <1>4, <3>1
    <3> QED
      BY <3>1, <3>2, <3>3
  <2>2. CASE r \notin Pub!ToSet(q)
    <3>1. pending'[r] = pending[r] /\ pending[r] \in 1..Len(calls) /\ calls[pending[r]].rec = r
      BY <1>6, <1>7, <2>2 DEF PubInv, PubTrue
    <3> QED
      BY <1>3, <1>4, <3>1
  <2> QED
    BY <2>1, <2>2
<1>8. \A i \in 1..Len(calls') : calls'[i].at = "accepted" => calls'[i].rec \in accepted'
  <2> SUFFICES ASSUME NEW i \in 1..Len(calls'), calls'[i].at = "accepted"
               PROVE  calls'[i].rec \in accepted'
    OBVIOUS
  <2>0. calls'[i].at = "accepted"
    OBVIOUS
  <2>1. CASE i \in 1..Len(calls)
    BY <1>4, <2>1 DEF PubInv, PubTrue
  <2>2. CASE i \notin 1..Len(calls)
    <3>1. PICK k \in 1..Len(q) : i = Len(calls) + k
      <4>1. i - Len(calls) \in 1..Len(q) /\ i = Len(calls) + (i - Len(calls))
        BY <1>3, <1>4, <2>2
      <4> QED
        BY <4>1
    <3>2. calls'[i] = [rec |-> q[k], at |-> "waiting"]
      BY <1>4, <3>1
    <3>3. calls'[i].at = "waiting"
      BY <3>2
    <3> QED
      BY <2>0, <3>3
  <2> QED
    BY <2>1, <2>2
<1>9. PubTrue'
  BY <1>7, <1>8 DEF PubInv, PubTrue
<1>10. sent' = [r \in Rec |-> sent[r] + Pub!Times(r, q)] /\ sent \in [Rec -> Nat]
  BY DEF Pub!Send, PubInv, PubType
<1> QED
  BY <1>4, <1>5, <1>6, <1>9, <1>10, TimesNat

LEMMA PublishSteps ==
  ASSUME PubInv, NEW r \in Rec, Pub!PublishNow(r) \/ Pub!PublishLater(r) PROVE PubInv'
<1>0. /\ outbox \in Seq(Rec) /\ wire \in Seq(Rec) /\ accepted \in SUBSET Rec
      /\ calls \in Seq(PubCall) /\ answers \in Seq(PubAnswer) /\ DOMAIN pending = Rec
      /\ asked \in [Rec -> Nat] /\ sent \in [Rec -> Nat] /\ PubTrue
      /\ \A x \in Rec : Pub!Times(x, outbox) \in Nat /\ sent[x] + Pub!Times(x, outbox) <= asked[x]
  BY TimesNat DEF PubInv, PubType, PubOnce
<1>1. asked' = [asked EXCEPT ![r] = @ + 1]
  BY DEF Pub!PublishNow, Pub!PublishLater
<1>2. asked' \in [Rec -> Nat] /\ \A x \in Rec : asked'[x] = asked[x] + IF x = r THEN 1 ELSE 0
  BY <1>0, <1>1
<1>3. CASE Pub!PublishNow(r)
  <2>1. Pub!Send(<<r>>) /\ UNCHANGED <<outbox, answers, accepted>>
    BY <1>3 DEF Pub!PublishNow
  <2>2. /\ calls' \in Seq(PubCall) /\ DOMAIN pending' = Rec /\ wire' \in Seq(Rec) /\ PubTrue'
        /\ sent' \in [Rec -> Nat] /\ \A x \in Rec : sent'[x] = sent[x] + Pub!Times(x, <<r>>)
    <3>1. PICK q : q = <<r>>
      OBVIOUS
    <3>2. q \in Seq(Rec)
      BY <3>1
    <3>3. Pub!Send(q)
      BY <2>1, <3>1
    <3> QED
      BY <2>1, <3>1, <3>2, <3>3, SendHolds
  <2>3. PubType'
    BY <1>0, <1>2, <2>1, <2>2 DEF PubType
  <2>4. \A x \in Rec : sent'[x] = sent[x] + IF x = r THEN 1 ELSE 0
    BY <2>2, TimesOne
  <2>5. PubOnce'
    <3> SUFFICES ASSUME NEW x \in Rec PROVE sent'[x] + Pub!Times(x, outbox) <= asked'[x]
      BY <2>1 DEF PubOnce
    <3>1. /\ sent[x] \in Nat /\ asked[x] \in Nat /\ Pub!Times(x, outbox) \in Nat
          /\ sent[x] + Pub!Times(x, outbox) <= asked[x]
      BY <1>0
    <3>2. /\ sent'[x] = sent[x] + (IF x = r THEN 1 ELSE 0)
          /\ asked'[x] = asked[x] + (IF x = r THEN 1 ELSE 0)
      BY <1>2, <2>4
    <3> QED
      BY <3>1, <3>2
  <2> QED
    BY <2>2, <2>3, <2>5 DEF PubInv
<1>4. CASE Pub!PublishLater(r)
  <2>1. /\ outbox' = Append(outbox, r) /\ calls' = Append(calls, [rec |-> r, at |-> "queued"])
        /\ UNCHANGED <<pending, sent, wire, answers, accepted>>
    BY <1>4 DEF Pub!PublishLater, Pub!relayVars
  <2>2. [rec |-> r, at |-> "queued"] \in PubCall
    BY DEF PubCall
  <2>3. /\ calls' \in Seq(PubCall) /\ Len(calls') = Len(calls) + 1
        /\ \A i \in 1..Len(calls) : calls'[i] = calls[i]
        /\ calls'[Len(calls) + 1] = [rec |-> r, at |-> "queued"]
    BY <1>0, <2>1, <2>2, AppendProperties
  <2>4. outbox' \in Seq(Rec) /\ Len(calls) \in Nat
    BY <1>0, <2>1, AppendProperties, LenProperties
  <2>5. PubType'
    BY <1>0, <1>2, <2>1, <2>3, <2>4 DEF PubType
  <2>6. PubTrue'
    <3>1. ASSUME NEW i \in 1..Len(calls'), calls'[i].at = "accepted" PROVE i \in 1..Len(calls)
      <4>1. SUFFICES ASSUME i = Len(calls) + 1 PROVE FALSE
        BY <2>3, <2>4
      <4> QED
        BY <2>3, <3>1, <4>1
    <3>2. 1..Len(calls) \subseteq 1..Len(calls')
      BY <2>3, <2>4
    <3> QED
      BY <1>0, <2>1, <2>3, <3>1, <3>2 DEF PubTrue
  <2>7. PubOnce'
    <3> SUFFICES ASSUME NEW x \in Rec PROVE sent[x] + Pub!Times(x, outbox') <= asked'[x]
      BY <2>1 DEF PubOnce
    <3>1. Pub!Times(x, outbox') = Pub!Times(x, outbox) + IF x = r THEN 1 ELSE 0
      BY <1>0, <2>1, TimesAppend
    <3> QED
      BY <1>0, <1>2, <3>1
  <2> QED
    BY <2>5, <2>6, <2>7 DEF PubInv
<1> QED
  BY <1>3, <1>4

LEMMA ConnectStep == ASSUME PubInv, Pub!Connect PROVE PubInv'
<1>1. /\ outbox \in Seq(Rec) /\ accepted \in SUBSET Rec /\ answers \in Seq(PubAnswer)
      /\ asked \in [Rec -> Nat] /\ sent \in [Rec -> Nat]
      /\ \A x \in Rec : sent[x] + Pub!Times(x, outbox) <= asked[x]
  BY DEF PubInv, PubType, PubOnce
<1>2. Pub!Send(outbox) /\ outbox' = <<>> /\ UNCHANGED <<asked, answers, accepted>>
  BY DEF Pub!Connect
<1>3. /\ calls' \in Seq(PubCall) /\ DOMAIN pending' = Rec /\ wire' \in Seq(Rec) /\ PubTrue'
      /\ sent' \in [Rec -> Nat] /\ \A x \in Rec : sent'[x] = sent[x] + Pub!Times(x, outbox)
  BY <1>1, <1>2, SendHolds
<1>4. outbox' \in Seq(Rec)
  BY <1>2
<1>5. PubType'
  BY <1>1, <1>2, <1>3, <1>4 DEF PubType
<1>6. \A x \in Rec : Pub!Times(x, outbox') = 0
  BY <1>2, TimesEmpty
<1>7. PubOnce'
  BY <1>1, <1>2, <1>3, <1>6 DEF PubOnce
<1> QED
  BY <1>3, <1>5, <1>7 DEF PubInv

\* What calls wait for changes, entries only go, and the outbox at most with them.
LEMMA ResolveHolds ==
  ASSUME PubInv, calls' \in Seq(PubCall), Len(calls') = Len(calls), DOMAIN pending' = Rec,
         UNCHANGED <<accepted, asked, sent>>, wire' \in Seq(Rec), outbox' \in {outbox, <<>>},
         answers' \in Seq(PubAnswer),
         \A k \in 1..Len(answers') : answers'[k].ok => answers'[k].rec \in accepted,
         \A i \in 1..Len(calls) : /\ calls'[i].rec = calls[i].rec
                                  /\ calls'[i].at = "accepted" => calls[i].rec \in accepted,
         \A r \in Rec : pending'[r] \in {NoCall, pending[r]}
  PROVE  PubInv'
<1>1. outbox' \in Seq(Rec)
  <2>1. CASE outbox' = <<>>
    BY <2>1
  <2>2. CASE outbox' = outbox
    BY <2>2 DEF PubInv, PubType
  <2> QED
    BY <2>1, <2>2
<1>2. PubType'
  BY <1>1 DEF PubInv, PubType
<1>3. PubTrue'
  BY DEF PubInv, PubTrue
<1>4. PubOnce'
  <2>1. ASSUME NEW x \in Rec PROVE sent'[x] + Pub!Times(x, outbox') <= asked'[x]
    <3>1. /\ sent[x] \in Nat /\ asked[x] \in Nat /\ Pub!Times(x, outbox) \in Nat
          /\ sent[x] + Pub!Times(x, outbox) <= asked[x]
      BY TimesNat DEF PubInv, PubType, PubOnce
    <3>2. Pub!Times(x, outbox') \in {0, Pub!Times(x, outbox)}
      BY TimesEmpty
    <3> QED
      BY <3>1, <3>2
  <2> QED
    BY <2>1 DEF PubOnce
<1> QED
  BY <1>2, <1>3, <1>4 DEF PubInv

Told(i, v) == [calls EXCEPT ![i].at = v]

LEMMA CallTold ==
  ASSUME calls \in Seq(PubCall), NEW i \in 1..Len(calls),
         NEW v \in {"waiting", "queued", "accepted", "refused", "timeout", "nothing"}
  PROVE  /\ Told(i, v) \in Seq(PubCall) /\ Len(Told(i, v)) = Len(calls)
         /\ \A j \in 1..Len(calls) : /\ Told(i, v)[j].rec = calls[j].rec
                                     /\ Told(i, v)[j].at = IF j = i THEN v ELSE calls[j].at
<1>0. PICK cs : cs = Told(i, v)
  OBVIOUS
<1>1. calls \in [1..Len(calls) -> PubCall] /\ Len(calls) \in Nat
  BY LenProperties
<1>2. [calls[i] EXCEPT !.at = v] \in PubCall /\ [calls[i] EXCEPT !.at = v].rec = calls[i].rec
      /\ [calls[i] EXCEPT !.at = v].at = v
  BY <1>1 DEF PubCall
<1>3. cs \in [1..Len(calls) -> PubCall]
      /\ \A j \in 1..Len(calls) : cs[j] = IF j = i THEN [calls[i] EXCEPT !.at = v] ELSE calls[j]
  BY <1>0, <1>1, <1>2 DEF Told
<1>4. cs \in Seq(PubCall) /\ Len(cs) = Len(calls)
  BY <1>1, <1>3
<1> QED
  BY <1>0, <1>2, <1>3, <1>4

LEMMA TimeoutStep == ASSUME PubInv, NEW i \in Pub!Ids, Pub!Timeout(i) PROVE PubInv'
<1>1. /\ calls' = [calls EXCEPT ![i].at = "timeout"]
      /\ pending' = [pending EXCEPT ![calls[i].rec] = NoCall]
      /\ UNCHANGED <<outbox, wire, answers, accepted, asked, sent>>
  BY DEF Pub!Timeout, Pub!relayVars
<1>2. /\ calls \in Seq(PubCall) /\ wire \in Seq(Rec) /\ answers \in Seq(PubAnswer)
      /\ DOMAIN pending = Rec /\ PubTrue
  BY DEF PubInv, PubType
<1>3. i \in 1..Len(calls)
  BY <1>2 DEF Pub!Ids
<1>4. /\ calls' \in Seq(PubCall) /\ Len(calls') = Len(calls)
      /\ \A j \in 1..Len(calls) : /\ calls'[j].rec = calls[j].rec
                                  /\ calls'[j].at = IF j = i THEN "timeout" ELSE calls[j].at
  <2>1. calls' = Told(i, "timeout")
    BY <1>1 DEF Told
  <2> QED
    BY <1>2, <1>3, <2>1, CallTold
<1>5. DOMAIN pending' = Rec /\ \A r \in Rec : pending'[r] \in {NoCall, pending[r]}
  BY <1>1, <1>2
<1> QED
  BY <1>1, <1>2, <1>4, <1>5, ResolveHolds DEF PubTrue

LEMMA ReceiveStep == ASSUME PubInv, Pub!ReceiveOK PROVE PubInv'
<1> DEFINE a == Head(answers)
           i == pending[a.rec]
<1>1. /\ answers # <<>> /\ answers' = Tail(answers)
      /\ calls' = IF i = NoCall THEN calls ELSE [calls EXCEPT ![i].at = Pub!Verdict(a.ok)]
      /\ pending' = [pending EXCEPT ![a.rec] = NoCall]
      /\ UNCHANGED <<outbox, wire, accepted, asked, sent>>
  BY DEF Pub!ReceiveOK
<1>2. /\ calls \in Seq(PubCall) /\ wire \in Seq(Rec) /\ answers \in Seq(PubAnswer)
      /\ DOMAIN pending = Rec /\ PubTrue
  BY DEF PubInv, PubType
<1>3. /\ answers' \in Seq(PubAnswer) /\ Len(answers) \in Nat /\ Len(answers) > 0
      /\ Len(answers') = Len(answers) - 1 /\ a = answers[1]
      /\ \A k \in 1..Len(answers') : answers'[k] = answers[k+1]
  BY <1>1, <1>2, HeadTailProperties, LenProperties, EmptySeq
<1>4. a \in PubAnswer /\ (a.ok => a.rec \in accepted)
  <2>1. 1 \in 1..Len(answers) /\ answers[1] \in PubAnswer
    BY <1>2, <1>3
  <2> QED
    BY <1>2, <1>3, <2>1 DEF PubTrue
<1>5. \A k \in 1..Len(answers') : answers'[k].ok => answers'[k].rec \in accepted
  <2>1. \A k \in 1..Len(answers') : k + 1 \in 1..Len(answers)
    BY <1>3
  <2> QED
    BY <1>2, <1>3, <2>1 DEF PubTrue
<1> HIDE DEF a
<1>6. DOMAIN pending' = Rec /\ \A r \in Rec : pending'[r] \in {NoCall, pending[r]}
  BY <1>1, <1>2
<1>7. /\ calls' \in Seq(PubCall) /\ Len(calls') = Len(calls)
      /\ \A j \in 1..Len(calls) : /\ calls'[j].rec = calls[j].rec
                                  /\ calls'[j].at = "accepted" => calls[j].rec \in accepted
  <2>1. CASE i = NoCall
    BY <1>1, <1>2, <2>1 DEF PubTrue
  <2>2. CASE i # NoCall
    <3>1. i \in 1..Len(calls) /\ calls[i].rec = a.rec
      BY <1>2, <1>4, <2>2 DEF PubTrue, PubAnswer
    <3>2. /\ Pub!Verdict(a.ok) \in {"accepted", "refused"}
          /\ Pub!Verdict(a.ok) = "accepted" => a.rec \in accepted
      BY <1>4 DEF Pub!Verdict
    <3> HIDE DEF i
    <3>3. /\ calls' \in Seq(PubCall) /\ Len(calls') = Len(calls)
          /\ \A j \in 1..Len(calls) : /\ calls'[j].rec = calls[j].rec
                                      /\ calls'[j].at = IF j = i THEN Pub!Verdict(a.ok)
                                                        ELSE calls[j].at
      <4>1. calls' = Told(i, Pub!Verdict(a.ok))
        BY <1>1, <2>2 DEF Told, i
      <4> QED
        BY <1>2, <3>1, <3>2, <4>1, CallTold
    <3> QED
      BY <1>2, <3>1, <3>2, <3>3 DEF PubTrue
  <2> QED
    BY <2>1, <2>2
<1> QED
  BY <1>1, <1>2, <1>3, <1>5, <1>6, <1>7, ResolveHolds

LEMMA AnswerStep == ASSUME PubInv, NEW ok \in BOOLEAN, Pub!RelayAnswers(ok) PROVE PubInv'
<1> DEFINE r == Head(wire)
           a == [rec |-> r, ok |-> ok]
<1>1. /\ wire # <<>> /\ wire' = Tail(wire) /\ answers' = Append(answers, a)
      /\ accepted' = (IF ok THEN accepted \cup {r} ELSE accepted)
      /\ UNCHANGED <<outbox, calls, pending, asked, sent>>
  BY DEF Pub!RelayAnswers, Pub!callVars
<1>2. /\ wire \in Seq(Rec) /\ answers \in Seq(PubAnswer) /\ accepted \in SUBSET Rec
      /\ calls \in Seq(PubCall) /\ PubTrue
  BY DEF PubInv, PubType
<1>3. r \in Rec /\ wire' \in Seq(Rec)
  BY <1>1, <1>2, HeadTailProperties
<1>4. a \in PubAnswer
  BY <1>3 DEF PubAnswer
<1>5. accepted' \in SUBSET Rec /\ accepted \subseteq accepted' /\ (ok => r \in accepted')
  BY <1>1, <1>2, <1>3
<1>6. a.rec = r /\ a.ok = ok
  OBVIOUS
<1> HIDE DEF a, r
<1>7. /\ answers' \in Seq(PubAnswer) /\ Len(answers') = Len(answers) + 1 /\ Len(answers) \in Nat
      /\ \A k \in 1..Len(answers) : answers'[k] = answers[k]
      /\ answers'[Len(answers) + 1] = a
  BY <1>1, <1>2, <1>4, AppendProperties, LenProperties
<1>8. \A k \in 1..Len(answers') : answers'[k].ok => answers'[k].rec \in accepted'
  <2> SUFFICES ASSUME NEW k \in 1..Len(answers'), answers'[k].ok
               PROVE  answers'[k].rec \in accepted'
    OBVIOUS
  <2>1. CASE k \in 1..Len(answers)
    BY <1>2, <1>5, <1>7, <2>1 DEF PubTrue
  <2>2. CASE k = Len(answers) + 1
    BY <1>5, <1>6, <1>7, <2>2
  <2> QED
    BY <1>7, <2>1, <2>2
<1>9. PubType'
  BY <1>1, <1>3, <1>5, <1>7 DEF PubInv, PubType
<1>10. PubTrue'
  BY <1>1, <1>2, <1>5, <1>8 DEF PubTrue
<1>11. PubOnce'
  BY <1>1 DEF PubInv, PubOnce
<1> QED
  BY <1>9, <1>10, <1>11 DEF PubInv

LEMMA BreakSteps == ASSUME PubInv, Pub!Disconnect \/ Pub!Stop PROVE PubInv'
<1>1. /\ wire' = <<>> /\ answers' = <<>> /\ UNCHANGED <<accepted, asked, sent>>
      /\ outbox' \in {outbox, <<>>}
  BY DEF Pub!Disconnect, Pub!Stop, Pub!callVars
<1>2. /\ wire' \in Seq(Rec) /\ answers' \in Seq(PubAnswer) /\ Len(answers') = 0
  BY <1>1
<1>3. calls \in Seq(PubCall) /\ DOMAIN pending = Rec /\ PubTrue
  BY DEF PubInv, PubType
<1>4. /\ calls' \in Seq(PubCall) /\ Len(calls') = Len(calls)
      /\ \A i \in 1..Len(calls) : /\ calls'[i].rec = calls[i].rec
                                  /\ calls'[i].at = "accepted" => calls[i].rec \in accepted
  <2>1. CASE calls' = calls
    BY <1>3, <2>1 DEF PubTrue
  <2>2. CASE Pub!Stop
    <3>1. Len(calls) \in Nat /\ DOMAIN calls = 1..Len(calls)
      BY <1>3, LenProperties
    <3>2. calls' = [i \in 1..Len(calls) |->
                      IF calls[i].at = "waiting" THEN [calls[i] EXCEPT !.at = "nothing"] ELSE calls[i]]
      BY <2>2, <3>1 DEF Pub!Stop, Pub!Ids, Pub!Waiting
    <3>3. \A i \in 1..Len(calls) : /\ calls'[i] \in PubCall /\ calls'[i].rec = calls[i].rec
                                   /\ calls'[i].at \in {"nothing", calls[i].at}
      <4> SUFFICES ASSUME NEW i \in 1..Len(calls)
                   PROVE  /\ calls'[i] \in PubCall /\ calls'[i].rec = calls[i].rec
                          /\ calls'[i].at \in {"nothing", calls[i].at}
        OBVIOUS
      <4>1. calls[i] \in PubCall
        BY <1>3, <3>1
      <4>2. calls'[i] \in {[calls[i] EXCEPT !.at = "nothing"], calls[i]}
        BY <3>2
      <4>3. /\ [calls[i] EXCEPT !.at = "nothing"] \in PubCall
            /\ [calls[i] EXCEPT !.at = "nothing"].rec = calls[i].rec
            /\ [calls[i] EXCEPT !.at = "nothing"].at = "nothing"
        BY <4>1 DEF PubCall
      <4> QED
        BY <4>1, <4>2, <4>3
    <3>4. calls' \in Seq(PubCall) /\ Len(calls') = Len(calls)
      BY <3>1, <3>2, <3>3
    <3> QED
      BY <1>3, <3>3, <3>4 DEF PubTrue
  <2> QED
    BY <2>1, <2>2 DEF Pub!Disconnect, Pub!callVars
<1>5. DOMAIN pending' = Rec /\ \A r \in Rec : pending'[r] \in {NoCall, pending[r]}
  BY <1>3 DEF Pub!Disconnect, Pub!Stop, Pub!callVars
<1> QED
  BY <1>1, <1>2, <1>4, <1>5, ResolveHolds

\* The inductive invariant of what a gateway publishes.
THEOREM PublishInvariant == PartsSpec => []PubInv
<1>1. PartsInit => PubInv
  BY PubInit DEF PartsInit
<1>2. PubInv /\ [PartsNext]_allVars => PubInv'
  <2> SUFFICES ASSUME PubInv, [PartsNext]_allVars PROVE PubInv'
    OBVIOUS
  <2>1. CASE Pub!Next
    BY <2>1, PublishSteps, ConnectStep, TimeoutStep, ReceiveStep, AnswerStep, BreakSteps DEF Pub!Next
  <2>2. CASE UNCHANGED pubVars
    BY <2>2 DEF pubVars, PubInv, PubType, PubTrue, PubOnce, Pub!Times
  <2> QED
    BY <2>1, <2>2 DEF PartsNext, allVars
<1> QED
  BY <1>1, <1>2, PTL DEF PartsSpec

\* A publish that is answered "accepted" is at the relay, and none is sent more often
\* than it was asked for, for any records, timeouts and breaks of the connection.
THEOREM PublishIsSound == PartsSpec => []PublishHolds
<1>1. PubInv => PublishHolds
  <2> SUFFICES ASSUME PubInv PROVE PublishHolds
    OBVIOUS
  <2>1. DOMAIN calls = 1..Len(calls)
    BY LenProperties DEF PubInv, PubType
  <2> QED
    BY <2>1 DEF PubInv, PubTrue, PubOnce, PublishHolds, Pub!PublishHolds, Pub!Ids
<1> QED
  BY <1>1, PublishInvariant, PTL

-----------------------------------------------------------------------------
(* What is uploaded to it: the invariant *)

Videos == {Targets[i] : i \in DOMAIN Targets}
Audios == {AudioTargets[i] : i \in DOMAIN AudioTargets}
Basics == {"original", "cover", "thumb"}
Artifacts == Basics \cup Videos \cup Audios
Names == UNION {[D -> Up!Blobs] : D \in SUBSET Artifacts}
Lists == UNION {[D -> Seq(Up!Blobs)] : D \in SUBSET Artifacts}

\* The stages of a task: it has nothing in hand, an artifact, or a segment directory.
Idling == {"none", "over", "dead"}
Fresh == {"check", "store", "probe", "make", "sign", "index"}
Holding == {"package", "hash", "commit"}

Writes == {Up!NoFile} \cup ({"segment"} \X Up!Renditions \X Nat) \cup ({"blob"} \X Up!Blobs)
Task == [at : Idling \cup Fresh \cup Holding, file : Files \cup {None}, cover : Covers \cup {None},
         of : Artifacts, video : BOOLEAN, names : Names, packaged : Lists,
         seg : Nat, writes : Writes, found : Seq(Nat), hashed : Up!Blobs \cup {Up!Absent},
         blobs : Seq(Up!Blobs)]

TasksTyped ==
  /\ status \in [Uploads -> {"none", "processing", "published", "failed"}]
  /\ task \in [Uploads -> Task]
  /\ indexed \in [Uploads -> Names \cup {None}]
  /\ playlists \in [Uploads -> Lists]

\* Under a segment's name there is nothing, that segment or a part of it: SegmentsOf is
\* one function, whoever packages the rendition.
DiskTyped ==
  /\ DOMAIN hls = Up!Renditions
  /\ \A r \in Up!Renditions : /\ DOMAIN hls[r] = DOMAIN SegmentsOf[r]
                              /\ \A k \in DOMAIN SegmentsOf[r] : hls[r][k] \in
                                   {Up!Absent, Up!Cut(SegmentsOf[r][k]), Up!Whole(SegmentsOf[r][k])}
  /\ store \in [Up!Blobs -> Up!Blobs \cup {Up!Absent}]
  /\ rows \in [Up!Blobs -> {None, "unchecked", "clear", "match"}]
  /\ contested \in SUBSET Up!Renditions

\* What task t makes when it makes a.
Makes(t, a) ==
  CASE a = "original" -> t.file
    [] a = "cover"    -> t.cover
    [] a = "thumb"    -> ThumbOf[t.file]
    [] OTHER          -> RenditionOf[t.file][a]

\* What the artifact in hand may be, by stage: nothing is made of a file before the
\* matcher let it pass, and nothing is stored that it did not, but for segments.
Works(t) ==
  /\ t.at \in Fresh \cup Holding =>
       /\ t.file \in Files /\ ((t.at = "check" /\ t.of = "original") \/ t.file \notin Matches)
       /\ t.of = "cover" => t.cover # None
       /\ t.of \in Artifacts \ Basics => t.of \in IF t.video THEN Videos ELSE Audios
  /\ t.at = "store" => Up!Made(t) \notin Matches
  /\ t.at = "make" => t.of # "original"
  /\ t.at = "probe" => t.of = "original"
  /\ t.at \in {"sign"} \cup Holding => t.of \notin Basics
  /\ t.at \in Holding => t.video
  /\ t.at \notin Holding => t.seg = 0
  /\ t.at \notin {"hash", "commit"} => t.blobs = <<>>
  /\ t.at # "package" => t.writes = Up!NoFile
  /\ t.at = "commit" => t.found # <<>>

\* A blob that a manifest or a playlist may name, and the segments of a rendition.
Good(b) == b \in Up!Blobs /\ (store[b] = b \/ Up!Torn(b)) /\ rows[b] = "clear"
Plays(r, bs) == \/ r \in contested
                \/ /\ bs = [k \in DOMAIN SegmentsOf[r] |-> Up!Whole(SegmentsOf[r][k])]
                   /\ \A b \in Up!ToSet(bs) : Good(b)

\* What a task has named and packaged is good and can be played before the manifest is.
Named(t) ==
  /\ \A a \in DOMAIN t.names : t.names[a] = Up!Whole(Makes(t, a)) /\ Good(t.names[a])
  /\ \A a \in DOMAIN t.packaged : a \in DOMAIN t.names /\ Plays(Makes(t, a), t.packaged[a])
  /\ t.at \in Holding => t.of \in DOMAIN t.names
  /\ t.of = "original" => DOMAIN t.packaged = {}
  /\ t.at = "sign" => Good(Up!Whole(Up!Made(t)))

\* What is in the directory of the rendition a task packages: where it is the task's
\* alone, the segments up to the one in hand, whole, then those not yet moved, in order.
Writing(t) ==
  LET r == Up!Made(t)
      S == SegmentsOf[r] IN
  /\ t.at = "package" =>
       /\ t.seg <= Len(S)
       /\ t.writes # Up!NoFile =>
            /\ t.seg > 0
            /\ \/ t.writes = <<"segment", r, t.seg>>
               \/ /\ r \in contested
                  /\ \E b \in Up!Blobs : b.of = S[t.seg] /\ t.writes = <<"blob", b>>
       /\ r \notin contested => \A k \in 1..t.seg :
            hls[r][k] = Up!Whole(S[k]) \/ (k = t.seg /\ t.writes # Up!NoFile)
  /\ t.at \in {"hash", "commit"} =>
       /\ t.found \in Seq(1..Len(S))
       /\ t.at = "commit" => t.hashed \in {Up!Cut(S[Head(t.found)]), Up!Whole(S[Head(t.found)])}
       /\ r \notin contested =>
            /\ Len(t.blobs) + Len(t.found) = Len(S)
            /\ \A k \in 1..Len(t.found) :
                 /\ t.found[k] = Len(t.blobs) + k
                 /\ hls[r][Len(t.blobs) + k] = Up!Whole(S[Len(t.blobs) + k])
            /\ \A k \in 1..Len(t.blobs) : t.blobs[k] = Up!Whole(S[k]) /\ Good(t.blobs[k])
            /\ t.at = "commit" => t.hashed = Up!Whole(S[Len(t.blobs) + 1])

\* Two tasks that have one directory in hand contest it.
Alone == \A u, v \in Uploads :
  u # v /\ task[u].at \in Holding /\ task[v].at \in Holding /\ Up!Made(task[u]) = Up!Made(task[v])
    => Up!Made(task[u]) \in contested

\* The row is at "processing" for as long as the task is under way, and what is
\* published is as PublishedIsPlayable says.
PublishedBy(u) ==
  /\ task[u].at \in Fresh \cup Holding <=> (status[u] = "processing" /\ task[u].at # "dead")
  /\ status[u] = "published" =>
       /\ u \in given /\ indexed[u] # None
       /\ \A a \in DOMAIN indexed[u] : Good(indexed[u][a])
       /\ \A a \in DOMAIN playlists[u] :
            a \in DOMAIN indexed[u] /\ Plays(indexed[u][a].of, playlists[u][a])

TaskHolds(u) == Works(task[u]) /\ Named(task[u]) /\ Writing(task[u])

UpInv ==
  /\ TasksTyped /\ DiskTyped /\ Up!StoreIsSound /\ Alone
  /\ \A u \in Uploads : TaskHolds(u) /\ PublishedBy(u)

-----------------------------------------------------------------------------
(* What the invariant is made of *)

LEMMA Files0 ==
  /\ Files \subseteq Contents /\ Covers \subseteq Contents \cup {None} /\ None \notin Contents
  /\ Ffmpeg \in BOOLEAN
  /\ Targets \in Seq(Videos) /\ AudioTargets \in Seq(Audios)
  /\ (Videos \cup Audios) \cap Basics = {}
  /\ Up!Renditions \subseteq Contents
  /\ \A r \in Up!Renditions : SegmentsOf[r] \in Seq(Contents)
  /\ \A c \in Files \ Matches :
       /\ ThumbOf[c] \in Contents
       /\ \A a \in Videos : RenditionOf[c][a] \in Contents \cap Up!Renditions
       /\ \A a \in Audios : RenditionOf[c][a] \in Contents
BY UploadAssumption DEF Videos, Audios, Basics, Up!Renditions

LEMMA NoneIsNoName == None \notin Names
<1>1. \A D \in SUBSET Artifacts : None \notin [D -> Up!Blobs]
  BY UploadAssumption DEF Artifacts, Basics, Videos, Audios, Up!Blobs, Up!Content
<1> QED
  BY <1>1 DEF Names

LEMMA Contents0 ==
  /\ \A c \in Contents : /\ Up!Whole(c) \in Up!Blobs /\ Up!Cut(c) \in Up!Blobs
                         /\ Up!Whole(c).of = c /\ Up!Cut(c).of = c
  /\ Up!Absent \notin Up!Blobs
  /\ \A b \in Up!Blobs : b.of \in Contents
BY Files0 DEF Up!Whole, Up!Cut, Up!Blobs, Up!Content, Up!Absent

\* n is f, and what it has for a is b.
More(n, f, a, b) ==
  DOMAIN n = DOMAIN f \cup {a} /\ n[a] = b /\ \A x \in DOMAIN f \ {a} : n[x] = f[x]

LEMMA WithName ==
  ASSUME NEW f \in Names, NEW a \in Artifacts, NEW b \in Up!Blobs, NEW n, n = Up!With(f, a, b)
  PROVE  n \in Names /\ More(n, f, a, b)
<1>1. PICK D \in SUBSET Artifacts : f \in [D -> Up!Blobs]
  BY DEF Names
<1>2. n = [x \in D \cup {a} |-> IF x = a THEN b ELSE f[x]]
  BY <1>1 DEF Up!With
<1>3. n \in [D \cup {a} -> Up!Blobs]
  BY <1>1, <1>2
<1> QED
  BY <1>1, <1>2, <1>3 DEF Names, More

LEMMA WithList ==
  ASSUME NEW f \in Lists, NEW a \in Artifacts, NEW b \in Seq(Up!Blobs), NEW n, n = Up!With(f, a, b)
  PROVE  n \in Lists /\ More(n, f, a, b)
<1>1. PICK D \in SUBSET Artifacts : f \in [D -> Seq(Up!Blobs)]
  BY DEF Lists
<1>2. n = [x \in D \cup {a} |-> IF x = a THEN b ELSE f[x]]
  BY <1>1 DEF Up!With
<1>3. n \in [D \cup {a} -> Seq(Up!Blobs)]
  BY <1>1, <1>2
<1> QED
  BY <1>1, <1>2, <1>3 DEF Lists, More

LEMMA NamesOf ==
  /\ \A f \in Names : DOMAIN f \subseteq Artifacts /\ \A a \in DOMAIN f : f[a] \in Up!Blobs
  /\ \A f \in Lists : DOMAIN f \subseteq Artifacts /\ \A a \in DOMAIN f : f[a] \in Seq(Up!Blobs)
BY DEF Names, Lists

LEMMA Nothing0 == Up!Nothing \in Names /\ Up!Nothing \in Lists /\ DOMAIN Up!Nothing = {}
<1>1. Up!Nothing \in [{} -> Up!Blobs] /\ Up!Nothing \in [{} -> Seq(Up!Blobs)] /\ DOMAIN Up!Nothing = {}
  BY DEF Up!Nothing
<1> QED
  BY <1>1 DEF Names, Lists

LEMMA IdleTask ==
  /\ Up!Idle \in Task
  /\ [Up!Idle EXCEPT !.at = "none"] = Up!Idle
  /\ \A x \in Idling : /\ [Up!Idle EXCEPT !.at = x] \in Task /\ Works([Up!Idle EXCEPT !.at = x])
                       /\ [Up!Idle EXCEPT !.at = x].at = x
                       /\ [Up!Idle EXCEPT !.at = x].names = Up!Nothing
                       /\ [Up!Idle EXCEPT !.at = x].packaged = Up!Nothing
<1>1. PICK e : e = <<>>
  OBVIOUS
<1>2. e \in Seq(Nat) /\ e \in Seq(Up!Blobs)
  BY <1>1
<1>3. Up!Idle = [at |-> "none", file |-> None, cover |-> None, of |-> "original", video |-> TRUE,
         names |-> Up!Nothing, packaged |-> Up!Nothing,
         seg |-> 0, writes |-> Up!NoFile, found |-> e, hashed |-> Up!Absent, blobs |-> e]
  BY <1>1 DEF Up!Idle
<1>4. Up!NoFile \in Writes /\ "original" \in Artifacts /\ "none" \in Idling
  BY DEF Writes, Artifacts, Basics, Idling
<1>5. Up!Idle \in Task
  BY <1>2, <1>3, <1>4, Nothing0 DEF Task
<1>6. ASSUME NEW x \in Idling
      PROVE  /\ [Up!Idle EXCEPT !.at = x] \in Task /\ Works([Up!Idle EXCEPT !.at = x])
             /\ [Up!Idle EXCEPT !.at = x].at = x
             /\ [Up!Idle EXCEPT !.at = x].names = Up!Nothing
             /\ [Up!Idle EXCEPT !.at = x].packaged = Up!Nothing
  <2> DEFINE t == [Up!Idle EXCEPT !.at = x]
  <2>1. t \in Task /\ t.at = x /\ t.seg = 0 /\ t.blobs = e /\ t.writes = Up!NoFile
        /\ t.names = Up!Nothing /\ t.packaged = Up!Nothing
    BY <1>3, <1>5 DEF Task
  <2>2. t.at \notin Fresh /\ t.at \notin Holding
        /\ t.at \notin {"store", "probe", "make", "sign", "package", "commit"}
    BY <2>1 DEF Fresh, Holding, Idling
  <2> HIDE DEF t
  <2>3. Works(t)
    BY <1>1, <2>1, <2>2 DEF Works
  <2> QED
    BY <2>1, <2>3 DEF t
<1>7. [Up!Idle EXCEPT !.at = "none"] = Up!Idle
  <2>1. PICK i : i = Up!Idle
    OBVIOUS
  <2>2. i \in Task /\ i.at = "none"
    BY <1>3, <1>5, <2>1
  <2>3. [i EXCEPT !.at = "none"] = i
    BY <2>2 DEF Task
  <2> QED
    BY <2>1, <2>3
<1> QED
  BY <1>5, <1>6, <1>7

-----------------------------------------------------------------------------
(* What an upload makes, in order *)

LEMMA MinIsIn == ASSUME NEW n \in Nat, NEW I \in SUBSET (1..n), I # {} PROVE Up!Min(I) \in I
<1>1. PICK x \in I : \A y \in I : x <= y
  <2>1. I \in SUBSET Nat
    OBVIOUS
  <2> QED
    BY <2>1, Least
<1> QED
  BY <1>1 DEF Up!Min

LEMMA OneIsSeq == ASSUME NEW S, NEW a \in S PROVE <<a>> \in Seq(S)
  OBVIOUS

Planned(t) == (IF t.cover = None THEN {} ELSE {"cover"}) \cup {"thumb"}
                \cup (IF t.video THEN Videos ELSE Audios)

LEMMA PlanIsSeq == ASSUME NEW t \in Task PROVE Up!Plan(t) \in Seq(Planned(t))
<1> DEFINE P1 == IF t.cover = None THEN <<>> ELSE <<"cover">>
           P2 == IF Ffmpeg /\ t.video THEN <<"thumb">> ELSE <<>>
           P3 == IF ~Ffmpeg THEN <<>> ELSE IF t.video THEN Targets ELSE AudioTargets
<1>0. <<>> \in Seq(Planned(t)) /\ "thumb" \in Planned(t) /\ (t.cover # None => "cover" \in Planned(t))
  BY DEF Planned
<1>1. P1 \in Seq(Planned(t))
  BY <1>0, OneIsSeq
<1>2. P2 \in Seq(Planned(t))
  BY <1>0, OneIsSeq
<1>3. P3 \in Seq(Planned(t))
  <2>1. Targets \in Seq(Videos) /\ AudioTargets \in Seq(Audios)
    BY Files0
  <2>2. \A S : S \subseteq Planned(t) => Seq(S) \subseteq Seq(Planned(t))
    OBVIOUS
  <2>3. (t.video => Videos \subseteq Planned(t)) /\ (~t.video => Audios \subseteq Planned(t))
    BY DEF Planned
  <2>4. <<>> \in Seq(Planned(t))
    OBVIOUS
  <2> QED
    BY <2>1, <2>2, <2>3, <2>4
<1>4. Up!Plan(t) = (P1 \o P2) \o P3
  BY DEF Up!Plan
<1> HIDE DEF P1, P2, P3
<1> QED
  BY <1>1, <1>2, <1>3, <1>4, ConcatProperties

\* The artifact at hand is one the plan may hold.
OfPlan(t) == /\ t.of = "cover" => t.cover # None
             /\ t.of \in Artifacts \ Basics => t.of \in IF t.video THEN Videos ELSE Audios

Settled(o) == o.seg = 0 /\ o.writes = Up!NoFile /\ o.blobs = <<>>

LEMMA OnwardGoes ==
  ASSUME NEW t \in Task, t.file \in Files \ Matches, OfPlan(t)
  PROVE  /\ Up!Onward(t) \in Task /\ Works(Up!Onward(t))
         /\ Up!Onward(t).at \in {"index", "check", "make"}
         /\ Up!Onward(t).file = t.file /\ Up!Onward(t).cover = t.cover
         /\ Up!Onward(t).names = t.names /\ Up!Onward(t).packaged = t.packaged
         /\ Up!Onward(t).of = "original" => t.of = "original"
<1> DEFINE p == Up!Plan(t)
           i == IF t.of = "original" THEN 1 ELSE Up!SelectInSeq(p, LAMBDA a : a = t.of) + 1
           j == IF i <= Len(p) /\ p[i] = "thumb" /\ "cover" \in DOMAIN t.names THEN i + 1 ELSE i
           bare == [t EXCEPT !.seg = 0, !.writes = Up!NoFile, !.found = <<>>, !.hashed = Up!Absent,
                             !.blobs = <<>>]
           o == Up!Onward(t)
<1>1. o = IF j > Len(p) THEN [bare EXCEPT !.at = "index"]
          ELSE [bare EXCEPT !.of = p[j], !.at = IF p[j] = "cover" THEN "check" ELSE "make"]
  BY DEF Up!Onward
<1>2. p \in Seq(Planned(t)) /\ Len(p) \in Nat
  BY PlanIsSeq, LenProperties
<1>3. i \in Nat /\ i >= 1
  <2>1. Up!SelectInSeq(p, LAMBDA a : a = t.of) \in 0..Len(p)
    <3> DEFINE I == {k \in 1..Len(p) : p[k] = t.of}
    <3>1. Up!SelectInSeq(p, LAMBDA a : a = t.of) = IF I # {} THEN Up!Min(I) ELSE 0
      BY DEF Up!SelectInSeq
    <3>2. I # {} => Up!Min(I) \in 1..Len(p)
      BY <1>2, MinIsIn
    <3> QED
      BY <1>2, <3>1, <3>2
  <2> QED
    BY <1>2, <2>1
<1>4. j \in Nat /\ j >= 1
  BY <1>3
<1>5. ~(j > Len(p)) => p[j] \in Planned(t)
  BY <1>2, <1>4
<1>6. PICK e : e = <<>>
  OBVIOUS
<1>7. e \in Seq(Nat) /\ e \in Seq(Up!Blobs) /\ Up!NoFile \in Writes
  BY <1>6 DEF Writes
<1>8. bare = [t EXCEPT !.seg = 0, !.writes = Up!NoFile, !.found = e, !.hashed = Up!Absent,
                       !.blobs = e]
  BY <1>6
<1> HIDE DEF p, i, j, bare
<1>9. /\ bare \in Task /\ bare.seg = 0 /\ bare.writes = Up!NoFile /\ bare.blobs = e
      /\ bare.of = t.of /\ bare.file = t.file /\ bare.cover = t.cover /\ bare.video = t.video
      /\ bare.names = t.names /\ bare.packaged = t.packaged
  BY <1>7, <1>8 DEF Task
<1>10. Planned(t) \subseteq Artifacts \ {"original"}
  <2>1. "original" \notin Videos \cup Audios
    BY Files0 DEF Basics
  <2> QED
    BY <2>1 DEF Planned, Artifacts, Basics
<1>11. "index" \in Fresh /\ "check" \in Fresh /\ "make" \in Fresh
       /\ \A x \in {"index", "check", "make"} : x \in Fresh /\ x \notin Holding /\ x \notin {"store", "probe", "sign", "package", "commit"}
  BY DEF Fresh, Holding
<1>12. CASE j > Len(p)
  <2> DEFINE q == [bare EXCEPT !.at = "index"]
  <2>1. /\ q \in Task /\ q.at = "index" /\ q.seg = 0 /\ q.writes = Up!NoFile /\ q.blobs = e
        /\ q.of = t.of /\ q.file = t.file /\ q.cover = t.cover /\ q.video = t.video
        /\ q.names = t.names /\ q.packaged = t.packaged
    BY <1>9, <1>11 DEF Task
  <2> HIDE DEF q
  <2>2. Works(q)
    BY <1>6, <1>11, <2>1 DEF Works, OfPlan
  <2>3. o = q
    BY <1>1, <1>12 DEF q
  <2> HIDE DEF o
  <2> QED
    BY <2>1, <2>2, <2>3 DEF o
<1>13. CASE ~(j > Len(p))
  <2> DEFINE x == IF p[j] = "cover" THEN "check" ELSE "make"
             q == [bare EXCEPT !.of = p[j], !.at = x]
  <2>0. p[j] \in Planned(t) /\ p[j] \in Artifacts /\ p[j] # "original" /\ x \in {"check", "make"}
    BY <1>5, <1>10, <1>13
  <2>1. x \in Fresh
    BY <1>11, <2>0
  <2>2. /\ q \in Task /\ q.at = x /\ q.seg = 0 /\ q.writes = Up!NoFile /\ q.blobs = e
        /\ q.of = p[j] /\ q.file = t.file /\ q.cover = t.cover /\ q.video = t.video
        /\ q.names = t.names /\ q.packaged = t.packaged
    <3> HIDE DEF x
    <3> QED
      BY <1>9, <2>0, <2>1 DEF Task
  <2>3. /\ p[j] = "cover" => t.cover # None
        /\ p[j] \in Artifacts \ Basics => p[j] \in IF t.video THEN Videos ELSE Audios
    <3>1. "cover" \notin Videos \cup Audios
      BY Files0 DEF Basics
    <3>2. "cover" \in Basics /\ "thumb" \in Basics
      BY DEF Basics
    <3> QED
      BY <2>0, <3>1, <3>2 DEF Planned
  <2> HIDE DEF q
  <2>4. q.at \in Fresh /\ q.at \notin Holding /\ q.at \notin {"store", "probe", "sign", "package", "commit"}
    BY <1>11, <2>0, <2>2
  <2> HIDE DEF x
  <2>5. Works(q)
    BY <1>6, <2>0, <2>2, <2>3, <2>4 DEF Works
  <2>6. o = q
    BY <1>1, <1>13 DEF q, x
  <2> HIDE DEF o
  <2>7. q.at \in {"index", "check", "make"}
    BY <2>0, <2>2
  <2> QED
    BY <2>0, <2>2, <2>5, <2>6, <2>7 DEF o
<1> QED
  BY <1>12, <1>13

-----------------------------------------------------------------------------
(* What a step leaves as it is *)

LEMMA MadeMakes == \A t : Up!Made(t) = Makes(t, t.of)
  BY DEF Up!Made, Makes

LEMMA MadeIs ==
  ASSUME NEW t \in Task, t.at \in Fresh \cup Holding, Works(t)
  PROVE  /\ Up!Made(t) \in Contents
         /\ t.at \in Holding \/ (t.at = "sign" /\ t.video) => Up!Made(t) \in Up!Renditions
         /\ t.of \notin Basics => Up!Made(t) = RenditionOf[t.file][t.of]
<1>1. t.of \in Artifacts /\ t.file \in Files /\ t.cover \in Covers \cup {None}
  BY DEF Works, Task
<1>2. CASE t.of = "original"
  BY <1>1, <1>2, Files0 DEF Up!Made, Works, Basics
<1>3. CASE t.of = "cover"
  <2>1. Up!Made(t) = t.cover /\ t.cover # None
    BY <1>3 DEF Up!Made, Works
  <2>2. t.of \in Basics
    BY <1>3 DEF Basics
  <2>3. t.at \notin Holding /\ t.at # "sign"
    BY <2>2 DEF Works
  <2> QED
    BY <1>1, <2>1, <2>2, <2>3, Files0
<1>4. CASE t.of = "thumb"
  <2>1. Up!Made(t) = ThumbOf[t.file]
    BY <1>4 DEF Up!Made
  <2>2. t.of \in Basics /\ t.of # "original"
    BY <1>4 DEF Basics
  <2>3. t.at \notin Holding /\ t.at # "sign" /\ t.file \in Files \ Matches
    BY <1>1, <2>2 DEF Works
  <2> QED
    BY <2>1, <2>2, <2>3, Files0
<1>5. CASE t.of \notin Basics
  <2>1. t.of \notin {"original", "cover", "thumb"}
    BY <1>5 DEF Basics
  <2>2. Up!Made(t) = RenditionOf[t.file][t.of]
    BY <2>1 DEF Up!Made
  <2>3. t.file \in Files \ Matches /\ t.of \in (IF t.video THEN Videos ELSE Audios)
    BY <1>1, <1>5, <2>1 DEF Works
  <2>4. t.at \in Holding => t.video
    BY DEF Works
  <2> QED
    BY <1>5, <2>2, <2>3, <2>4, Files0
<1> QED
  BY <1>1, <1>2, <1>3, <1>4, <1>5 DEF Basics

\* Blobs that are good stay so: a file is written once, but for the segments that two
\* uploads packaged at one time, and a row that is marked stays as it is.
Grows ==
  /\ contested \subseteq contested'
  /\ \A b : Good(b) => Good(b)'

LEMMA GoodKept ==
  ASSUME contested \subseteq contested',
         \A b \in Up!Blobs : store'[b] = store[b] \/ store[b] = Up!Absent \/ Up!Torn(b),
         \A b \in Up!Blobs : rows[b] = "clear" => rows'[b] = "clear"
  PROVE  Grows
<1>1. \A b : Up!Torn(b) => Up!Torn(b)'
  BY DEF Up!Torn
<1>2. ASSUME NEW b, Good(b) PROVE Good(b)'
  <2>1. b \in Up!Blobs /\ (store[b] = b \/ Up!Torn(b)) /\ rows[b] = "clear" /\ b # Up!Absent
    BY <1>2, Contents0 DEF Good
  <2>2. store'[b] = b \/ Up!Torn(b)'
    BY <1>1, <2>1
  <2>3. rows'[b] = "clear"
    BY <2>1
  <2> QED
    BY <2>1, <2>2, <2>3 DEF Good
<1> QED
  BY <1>2 DEF Grows

LEMMA PlaysKept == ASSUME Grows PROVE \A r, bs : Plays(r, bs) => Plays(r, bs)'
  BY DEF Grows, Plays

LEMMA NamedKept == ASSUME Grows PROVE \A t : Named(t) => Named(t)'
  BY PlaysKept DEF Grows, Named

LEMMA WritingKept ==
  ASSUME Grows, NEW t, Writing(t),
         t.at \in Holding => Up!Made(t) \in contested' \/ hls'[Up!Made(t)] = hls[Up!Made(t)]
  PROVE  Writing(t)'
<1> DEFINE r == Up!Made(t)
           S == SegmentsOf[r]
<1>1. r \in contested => r \in contested'
  BY DEF Grows
<1>2. \A b : Good(b) => Good(b)'
  BY DEF Grows
<1>3. CASE t.at = "package"
  <2>1. r \in contested' \/ hls'[r] = hls[r]
    BY <1>3 DEF Holding
  <2> QED
    BY <1>1, <1>3, <2>1 DEF Writing
<1>4. CASE t.at \in {"hash", "commit"}
  <2>1. r \in contested' \/ hls'[r] = hls[r]
    BY <1>4 DEF Holding
  <2> QED
    BY <1>1, <1>2, <1>4, <2>1 DEF Writing
<1>5. CASE t.at \notin {"package", "hash", "commit"}
  BY <1>5 DEF Writing
<1> QED
  BY <1>3, <1>4, <1>5

\* A task at rest is none to speak of.
LEMMA IdleHolds ==
  ASSUME NEW x \in Idling
  PROVE  LET t == [Up!Idle EXCEPT !.at = x] IN
         t \in Task /\ t.at = x /\ t.at \notin Fresh \cup Holding /\ Works(t) /\ Named(t) /\ Writing(t)
<1> DEFINE t == [Up!Idle EXCEPT !.at = x]
<1>1. /\ t \in Task /\ t.at = x /\ Works(t) /\ t.names = Up!Nothing /\ t.packaged = Up!Nothing
  BY IdleTask
<1>2. x \notin Fresh \cup Holding
  BY DEF Idling, Fresh, Holding
<1> HIDE DEF t
<1>3. Named(t)
  <2>1. t.at # "sign"
    BY <1>1, <1>2 DEF Fresh
  <2> QED
    BY <1>1, <1>2, <2>1, Nothing0 DEF Named
<1>4. Writing(t)
  BY <1>1, <1>2 DEF Writing, Holding
<1> QED
  BY <1>1, <1>2, <1>3, <1>4 DEF t

\* An upload that a step leaves alone.
LEMMA Rests ==
  ASSUME UpInv, Grows, NEW v \in Uploads, task'[v] = task[v], status'[v] = status[v],
         indexed'[v] = indexed[v], playlists'[v] = playlists[v], given \subseteq given',
         task[v].at \in Holding =>
           Up!Made(task[v]) \in contested' \/ hls'[Up!Made(task[v])] = hls[Up!Made(task[v])]
  PROVE  TaskHolds(v)' /\ PublishedBy(v)'
<1>1. Works(task[v]) /\ Named(task[v]) /\ Writing(task[v]) /\ PublishedBy(v)
  BY DEF UpInv, TaskHolds
<1>2. PICK t : t = task[v]
  OBVIOUS
<1>3. Writing(t)'
  BY <1>1, <1>2, WritingKept
<1>4. Named(t)'
  BY <1>1, <1>2, NamedKept
<1>5. Works(task'[v]) /\ Named(task[v])' /\ Writing(task[v])'
  BY <1>1, <1>2, <1>3, <1>4
<1>6. PublishedBy(v)'
  BY <1>1, PlaysKept DEF PublishedBy, Grows
<1> QED
  BY <1>5, <1>6 DEF TaskHolds

LEMMA AloneKept ==
  ASSUME Alone, Grows,
         \A v \in Uploads : task'[v].at \in Holding =>
           task[v].at \in Holding /\ Up!Made(task'[v]) = Up!Made(task[v])
  PROVE  Alone'
  BY DEF Alone, Grows

LEMMA OneMoves ==
  ASSUME UpInv, Grows, DiskTyped', Up!StoreIsSound', Alone',
         NEW u \in Uploads, NEW t \in Task, task' = [task EXCEPT ![u] = t],
         UNCHANGED <<status, indexed, playlists, given>>,
         task[u].at \in Fresh \cup Holding, t.at \in Fresh \cup Holding,
         Works(t), Named(t)', Writing(t)',
         \A v \in Uploads \ {u} : task[v].at \in Holding =>
           Up!Made(task[v]) \in contested' \/ hls'[Up!Made(task[v])] = hls[Up!Made(task[v])]
  PROVE  UpInv'
<1>1. TasksTyped'
  BY DEF UpInv, TasksTyped
<1>2. task'[u] = t /\ \A v \in Uploads \ {u} : task'[v] = task[v]
  BY DEF UpInv, TasksTyped
<1>3. ASSUME NEW v \in Uploads \ {u} PROVE TaskHolds(v)' /\ PublishedBy(v)'
  BY <1>2, Rests
<1>4. TaskHolds(u)'
  <2>1. Works(task'[u]) /\ Named(task[u])' /\ Writing(task[u])'
    BY <1>2
  <2> QED
    BY <2>1 DEF TaskHolds
<1>5. PublishedBy(u)'
  <2>1. status[u] = "processing"
    BY DEF UpInv, PublishedBy
  <2>2. t.at # "dead"
    BY DEF Fresh, Holding
  <2> QED
    BY <1>2, <2>1, <2>2 DEF PublishedBy
<1> QED
  BY <1>1, <1>3, <1>4, <1>5 DEF UpInv

\* ... when no file changes, and it packages nothing it did not package before.
LEMMA Quiet ==
  ASSUME UpInv, NEW u \in Uploads, NEW t \in Task, task' = [task EXCEPT ![u] = t],
         UNCHANGED <<status, hls, store, rows, indexed, playlists, given, contested>>,
         task[u].at \in Fresh \cup Holding, t.at \in Fresh \cup Holding,
         Works(t), Named(t), Writing(t),
         t.at \in Holding => task[u].at \in Holding /\ Up!Made(t) = Up!Made(task[u])
  PROVE  UpInv'
<1>1. Grows
  BY GoodKept
<1>2. DiskTyped' /\ Up!StoreIsSound'
  BY DEF UpInv, DiskTyped, Up!StoreIsSound, Up!Torn, Up!Unasked
<1>3. task'[u] = t /\ \A v \in Uploads \ {u} : task'[v] = task[v]
  BY DEF UpInv, TasksTyped
<1>4. Alone'
  <2>1. \A v \in Uploads : task'[v].at \in Holding =>
           task[v].at \in Holding /\ Up!Made(task'[v]) = Up!Made(task[v])
    BY <1>3
  <2> QED
    BY <1>1, <2>1, AloneKept DEF UpInv
<1>5. Named(t)' /\ Writing(t)'
  BY <1>1, NamedKept, WritingKept
<1> QED
  BY <1>1, <1>2, <1>4, <1>5, OneMoves

\* What is known of a task that is under way.
LEMMA TaskIs ==
  ASSUME UpInv, NEW u \in Uploads
  PROVE  task[u] \in Task /\ Works(task[u]) /\ Named(task[u]) /\ Writing(task[u])
  BY DEF UpInv, TasksTyped, TaskHolds

LEMMA NamedAs ==
  ASSUME NEW s, Named(s), NEW t, t.file = s.file, t.cover = s.cover, t.names = s.names,
         t.packaged = s.packaged, t.at \in Holding => t.of = s.of /\ s.at \in Holding,
         t.of = "original" => s.of = "original", t.at # "sign"
  PROVE  Named(t)
<1>1. \A a : Makes(t, a) = Makes(s, a)
  BY DEF Makes
<1> QED
  BY <1>1 DEF Named

\* A task is done with what it worked on.
LEMMA GoesOnward ==
  ASSUME UpInv, NEW u \in Uploads, NEW t \in Task, task[u].at \in Fresh \cup Holding,
         t.file \in Files \ Matches, OfPlan(t), Named(t),
         task' = [task EXCEPT ![u] = Up!Onward(t)],
         UNCHANGED <<status, hls, store, rows, indexed, playlists, given, contested>>
  PROVE  UpInv'
<1> DEFINE o == Up!Onward(t)
<1>1. /\ o \in Task /\ Works(o) /\ o.at \in {"index", "check", "make"}
      /\ o.file = t.file /\ o.cover = t.cover /\ o.names = t.names /\ o.packaged = t.packaged
      /\ o.of = "original" => t.of = "original"
  BY OnwardGoes
<1> HIDE DEF o
<1>2. o.at \in Fresh /\ o.at \notin Holding
  BY <1>1 DEF Fresh, Holding
<1>3. Named(o)
  BY <1>1, <1>2, NamedAs
<1>4. Writing(o)
  BY <1>2 DEF Writing, Holding
<1> QED
  BY <1>1, <1>2, <1>3, <1>4, Quiet DEF o

LEMMA Still ==
  ASSUME UpInv, UNCHANGED <<hls, store, rows, contested>>
  PROVE  Grows /\ DiskTyped' /\ Up!StoreIsSound'
<1>1. Grows
  BY GoodKept
<1> QED
  BY <1>1 DEF UpInv, DiskTyped, Up!StoreIsSound, Up!Torn, Up!Unasked

LEMMA OnwardMoves ==
  ASSUME UpInv, Grows, DiskTyped', Up!StoreIsSound',
         NEW u \in Uploads, NEW t \in Task, task[u].at \in Fresh \cup Holding,
         t.file \in Files \ Matches, OfPlan(t), Named(t)',
         task' = [task EXCEPT ![u] = Up!Onward(t)],
         UNCHANGED <<status, hls, indexed, playlists, given, contested>>
  PROVE  UpInv'
<1> DEFINE o == Up!Onward(t)
<1>1. /\ o \in Task /\ Works(o) /\ o.at \in {"index", "check", "make"}
      /\ o.file = t.file /\ o.cover = t.cover /\ o.names = t.names /\ o.packaged = t.packaged
      /\ o.of = "original" => t.of = "original"
  BY OnwardGoes
<1> HIDE DEF o
<1>2. o.at \in Fresh /\ o.at \notin Holding /\ o.at # "sign"
  BY <1>1 DEF Fresh, Holding
<1>3. Named(o)'
  <2>1. \A a : Makes(o, a) = Makes(t, a)
    BY <1>1 DEF Makes
  <2> QED
    BY <1>1, <1>2, <2>1 DEF Named
<1>4. Writing(o)'
  BY <1>2 DEF Writing, Holding
<1>5. task' = [task EXCEPT ![u] = o]
  BY DEF o
<1>6. task'[u] = o /\ \A v \in Uploads \ {u} : task'[v] = task[v]
  BY <1>5 DEF UpInv, TasksTyped
<1>7. Alone'
  <2>1. \A v \in Uploads : task'[v].at \in Holding =>
           task[v].at \in Holding /\ Up!Made(task'[v]) = Up!Made(task[v])
    BY <1>2, <1>6
  <2> QED
    BY <2>1, AloneKept DEF UpInv
<1> QED
  BY <1>1, <1>2, <1>3, <1>4, <1>5, <1>7, OneMoves

-----------------------------------------------------------------------------
(* One artifact: made, checked, hashed and stored *)

LEMMA MakeStep == ASSUME UpInv, NEW u \in Uploads, Up!Make(u) PROVE UpInv'
<1> DEFINE t == [task[u] EXCEPT !.at = "check"]
<1>1. /\ task[u].at = "make" /\ task' = [task EXCEPT ![u] = t]
      /\ UNCHANGED <<status, hls, store, rows, indexed, playlists, given, contested>>
  BY DEF Up!Make, Up!At, Up!Moves
<1>2. /\ task[u] \in Task /\ Works(task[u]) /\ Named(task[u])
  BY TaskIs
<1>3. "check" \in Fresh /\ "check" \notin Holding /\ "make" \in Fresh /\ "make" \notin Holding
  BY DEF Fresh, Holding
<1>4. /\ t \in Task /\ t.at = "check" /\ t.file = task[u].file /\ t.cover = task[u].cover
      /\ t.of = task[u].of /\ t.video = task[u].video /\ t.names = task[u].names
      /\ t.packaged = task[u].packaged /\ t.seg = task[u].seg /\ t.writes = task[u].writes
      /\ t.blobs = task[u].blobs
  BY <1>2, <1>3 DEF Task
<1> HIDE DEF t
<1>5. Works(t)
  BY <1>1, <1>2, <1>3, <1>4 DEF Works
<1>6. Named(t)
  BY <1>2, <1>3, <1>4, NamedAs
<1>7. Writing(t)
  BY <1>4 DEF Writing
<1> QED
  BY <1>1, <1>3, <1>4, <1>5, <1>6, <1>7, Quiet

LEMMA CheckPassesStep == ASSUME UpInv, NEW u \in Uploads, Up!CheckPasses(u) PROVE UpInv'
<1> DEFINE t == [task[u] EXCEPT !.at = "store"]
<1>1. /\ task[u].at = "check" /\ task' = [task EXCEPT ![u] = t] /\ Up!Made(task[u]) \notin Matches
      /\ UNCHANGED <<status, hls, store, rows, indexed, playlists, given, contested>>
  BY DEF Up!CheckPasses, Up!At, Up!Moves, Up!Matched
<1>2. /\ task[u] \in Task /\ Works(task[u]) /\ Named(task[u])
  BY TaskIs
<1>3. "check" \in Fresh /\ "check" \notin Holding /\ "store" \in Fresh /\ "store" \notin Holding
  BY DEF Fresh, Holding
<1>4. /\ t \in Task /\ t.at = "store" /\ t.file = task[u].file /\ t.cover = task[u].cover
      /\ t.of = task[u].of /\ t.video = task[u].video /\ t.names = task[u].names
      /\ t.packaged = task[u].packaged /\ t.seg = task[u].seg /\ t.writes = task[u].writes
      /\ t.blobs = task[u].blobs
  BY <1>2, <1>3 DEF Task
<1> HIDE DEF t
<1>5. Up!Made(t) = Up!Made(task[u])
  BY <1>4 DEF Up!Made
<1>6. t.file \notin Matches
  <2>1. CASE task[u].of = "original"
    BY <1>1, <1>4, <2>1 DEF Up!Made
  <2>2. CASE task[u].of # "original"
    BY <1>1, <1>2, <1>3, <1>4, <2>2 DEF Works
  <2> QED
    BY <2>1, <2>2
<1>7. Works(t)
  BY <1>1, <1>2, <1>3, <1>4, <1>5, <1>6 DEF Works
<1>8. Named(t)
  BY <1>2, <1>3, <1>4, NamedAs
<1>9. Writing(t)
  BY <1>4 DEF Writing
<1> QED
  BY <1>1, <1>3, <1>4, <1>7, <1>8, <1>9, Quiet

LEMMA ProbeStep == ASSUME UpInv, NEW u \in Uploads, Up!Probe(u) PROVE UpInv'
<1>1. PICK known \in {Ffmpeg, FALSE} :
        task' = [task EXCEPT ![u] = Up!Onward([task[u] EXCEPT !.video = known => task[u].file \in Video])]
  BY DEF Up!Probe, Up!Moves
<1> DEFINE x == known => task[u].file \in Video
           t == [task[u] EXCEPT !.video = x]
<1>2. /\ task[u].at = "probe"
      /\ UNCHANGED <<status, hls, store, rows, indexed, playlists, given, contested>>
  BY DEF Up!Probe, Up!At
<1>3. /\ task[u] \in Task /\ Works(task[u]) /\ Named(task[u])
  BY TaskIs
<1>4. "probe" \in Fresh /\ "probe" \notin Holding
  BY DEF Fresh, Holding
<1>5. x \in BOOLEAN
  BY Files0
<1> HIDE DEF x
<1>6. /\ t \in Task /\ t.at = "probe" /\ t.file = task[u].file /\ t.cover = task[u].cover
      /\ t.of = task[u].of /\ t.names = task[u].names /\ t.packaged = task[u].packaged
  BY <1>2, <1>3, <1>5 DEF Task
<1> HIDE DEF t
<1>7. Named(t)
  BY <1>3, <1>4, <1>6, NamedAs
<1>8. t.file \in Files \ Matches
  BY <1>2, <1>3, <1>4, <1>6 DEF Works
<1>9. OfPlan(t)
  BY <1>2, <1>3, <1>6 DEF OfPlan, Works, Basics
<1>10. task' = [task EXCEPT ![u] = Up!Onward(t)]
  BY <1>1 DEF t, x
<1> QED
  BY <1>2, <1>4, <1>6, <1>7, <1>8, <1>9, <1>10, GoesOnward

LEMMA UnaskedKept ==
  ASSUME \A x \in Up!Blobs : store[x] # Up!Absent => store'[x] # Up!Absent, NEW b, Up!Unasked(b)
  PROVE  Up!Unasked(b)'
<1>1. PICK r \in Up!Renditions : b.of \in Up!ToSet(SegmentsOf[r]) /\ store[Up!Whole(r)] # Up!Absent
  BY DEF Up!Unasked
<1>2. Up!Whole(r) \in Up!Blobs
  BY <1>1, Files0, Contents0
<1> QED
  BY <1>1, <1>2 DEF Up!Unasked

\* commitBlob, recordBlob and markBlobChecked: what becomes of the store when they end, and
\* when they are cut short.
LEMMA Stored ==
  ASSUME UpInv, NEW b \in Up!Blobs, NEW c, b.of \notin Matches \/ Up!Unasked(b),
         Up!Commit(b, c), Up!Record(b) \/ rows' \in Up!Unmarked(b),
         store[b] = Up!Absent => c \in Up!Blobs /\ (c = b \/ Up!Torn(b)), UNCHANGED contested
  PROVE  /\ Grows /\ Up!StoreIsSound' /\ (Up!Record(b) => Good(b)')
         /\ store' \in [Up!Blobs -> Up!Blobs \cup {Up!Absent}]
         /\ rows' \in [Up!Blobs -> {None, "unchecked", "clear", "match"}]
<1>1. /\ store \in [Up!Blobs -> Up!Blobs \cup {Up!Absent}]
      /\ rows \in [Up!Blobs -> {None, "unchecked", "clear", "match"}]
  BY DEF UpInv, DiskTyped
<1>2. Up!Absent \notin Up!Blobs
  BY Contents0
<1>3. /\ store' \in [Up!Blobs -> Up!Blobs \cup {Up!Absent}]
      /\ \A x \in Up!Blobs : store'[x] = IF x = b /\ store[b] = Up!Absent THEN c ELSE store[x]
  BY <1>1 DEF Up!Commit
<1>4. /\ rows' \in [Up!Blobs -> {None, "unchecked", "clear", "match"}]
      /\ \A x \in Up!Blobs \ {b} : rows'[x] = rows[x]
      /\ rows'[b] \in {rows[b], "unchecked", "clear"} /\ (rows[b] = "clear" => rows'[b] = "clear")
      /\ Up!Record(b) => rows'[b] = "clear"
  <2>1. CASE Up!Record(b)
    BY <1>1, <2>1 DEF Up!Record
  <2>2. CASE rows' = rows
    BY <1>1, <2>2 DEF Up!Record
  <2>3. CASE rows' = [rows EXCEPT ![b] = IF @ = None THEN "unchecked" ELSE @]
    <3>1. None # "clear"
      BY UploadAssumption
    <3> QED
      BY <1>1, <2>3, <3>1 DEF Up!Record
  <2> QED
    BY <2>1, <2>2, <2>3 DEF Up!Unmarked
<1>5. Grows
  BY <1>3, <1>4, GoodKept
<1>6. \A x : Up!Torn(x) <=> Up!Torn(x)'
  BY DEF Up!Torn
<1>7. \A x : Up!Unasked(x) => Up!Unasked(x)'
  BY <1>2, <1>3, UnaskedKept
<1>8. Up!StoreIsSound'
  <2>1. ASSUME NEW x \in Up!Blobs
        PROVE  /\ store'[x] \in {Up!Absent, x} \/ Up!Torn(x)'
               /\ rows'[x] # None => store'[x] # Up!Absent
               /\ x.of \in Matches =>
                    (store'[x] = Up!Absent /\ rows'[x] # "clear") \/ Up!Unasked(x)'
    <3>1. /\ store[x] \in {Up!Absent, x} \/ Up!Torn(x)
          /\ rows[x] # None => store[x] # Up!Absent
          /\ x.of \in Matches => (store[x] = Up!Absent /\ rows[x] # "clear") \/ Up!Unasked(x)
      BY DEF UpInv, Up!StoreIsSound
    <3>2. CASE x = b
      BY <1>2, <1>3, <1>6, <1>7, <3>1, <3>2
    <3>3. CASE x # b
      BY <1>3, <1>4, <1>6, <1>7, <3>1, <3>3
    <3> QED
      BY <3>2, <3>3
  <2> QED
    BY <2>1 DEF Up!StoreIsSound
<1>9. ASSUME Up!Record(b) PROVE Good(b)'
  <2>1. rows'[b] = "clear"
    BY <1>4, <1>9
  <2>2. store'[b] = b \/ Up!Torn(b)'
    BY <1>2, <1>3, <1>6 DEF UpInv, Up!StoreIsSound
  <2> QED
    BY <2>1, <2>2 DEF Good
<1> QED
  BY <1>3, <1>4, <1>5, <1>8, <1>9

\* What a task at "store" may leave when it does not come to its end.
LEMMA PartStored ==
  ASSUME UpInv, NEW u \in Uploads, Up!StoredPart(u), task[u].at \in Fresh \cup Holding,
         UNCHANGED <<hls, contested>>
  PROVE  Grows /\ DiskTyped' /\ Up!StoreIsSound'
<1>1. CASE UNCHANGED <<store, rows>>
  BY <1>1, Still
<1>2. CASE ~UNCHANGED <<store, rows>>
  <2>0. PICK b : b = Up!Whole(Up!Made(task[u]))
    OBVIOUS
  <2>1. task[u].at = "store" /\ Up!Commit(b, b) /\ rows' \in Up!Unmarked(b)
    BY <1>2, <2>0 DEF Up!StoredPart, Up!At
  <2>2. b \in Up!Blobs /\ b.of \notin Matches
    <3>1. Up!Made(task[u]) \in Contents \ Matches
      BY <2>1, TaskIs, MadeIs DEF Works
    <3> QED
      BY <2>0, <3>1, Contents0
  <2>3. /\ Grows /\ Up!StoreIsSound' /\ store' \in [Up!Blobs -> Up!Blobs \cup {Up!Absent}]
        /\ rows' \in [Up!Blobs -> {None, "unchecked", "clear", "match"}]
    BY <2>1, <2>2, Stored
  <2> QED
    BY <2>3 DEF UpInv, DiskTyped
<1> QED
  BY <1>1, <1>2

\* From every stage after the original's check.
LEMMA OnwardSteps ==
  ASSUME UpInv, NEW u \in Uploads, Up!MakeFails(u) \/ Up!Skip(u) \/ Up!Drop(u)
  PROVE  UpInv'
<1>1. /\ task[u].at \in {"make", "check", "store", "sign", "package", "hash"}
      /\ task[u].at = "check" => task[u].of # "original"
      /\ task' = [task EXCEPT ![u] = Up!Onward(task[u])]
      /\ Up!StoredPart(u)
      /\ UNCHANGED <<status, hls, indexed, playlists, given, contested>>
  BY DEF Up!MakeFails, Up!Skip, Up!Drop, Up!At, Up!Moves, Up!StoredPart
<1>2. /\ task[u] \in Task /\ Works(task[u]) /\ Named(task[u])
  BY TaskIs
<1>3. task[u].at \in Fresh \cup Holding
  BY <1>1 DEF Fresh, Holding
<1>4. task[u].file \in Files \ Matches /\ OfPlan(task[u])
  BY <1>1, <1>2, <1>3 DEF Works, OfPlan
<1>5. Grows /\ DiskTyped' /\ Up!StoreIsSound'
  BY <1>1, <1>3, PartStored
<1>6. PICK t : t = task[u]
  OBVIOUS
<1>7. Named(t)'
  BY <1>2, <1>5, <1>6, NamedKept
<1> QED
  BY <1>1, <1>2, <1>3, <1>4, <1>5, <1>6, <1>7, OnwardMoves

LEMMA StoreStep == ASSUME UpInv, NEW u \in Uploads, Up!Store(u) PROVE UpInv'
<1>0. PICK s : s = task[u]
  OBVIOUS
<1>0a. PICK b : b = Up!Whole(Up!Made(s))
  OBVIOUS
<1> DEFINE r == Up!Made(s)
<1>1. /\ s.at = "store" /\ Up!Commit(b, b) /\ Up!Record(b)
      /\ UNCHANGED <<status, hls, indexed, playlists, given, contested>>
  BY <1>0, <1>0a DEF Up!Store, Up!At
<1>2. s \in Task /\ Works(s) /\ Named(s) /\ Writing(s)
  BY <1>0, TaskIs
<1>3. "store" \in Fresh /\ "store" \notin Holding /\ "probe" \in Fresh /\ "probe" \notin Holding
      /\ "sign" \in Fresh /\ "sign" \notin Holding
  BY DEF Holding, Fresh
<1>4. r \in Contents /\ r \notin Matches /\ b \in Up!Blobs /\ b.of = r
  <2>1. r \in Contents
    BY <1>1, <1>2, <1>3, MadeIs
  <2>2. r \notin Matches
    BY <1>1, <1>2 DEF Works
  <2> QED
    BY <1>0a, <2>1, <2>2, Contents0
<1>5. /\ Grows /\ Up!StoreIsSound' /\ Good(b)' /\ DiskTyped'
  <2>1. /\ Grows /\ Up!StoreIsSound' /\ Good(b)'
        /\ store' \in [Up!Blobs -> Up!Blobs \cup {Up!Absent}]
        /\ rows' \in [Up!Blobs -> {None, "unchecked", "clear", "match"}]
    BY <1>1, <1>4, Stored
  <2> QED
    BY <1>1, <2>1 DEF UpInv, DiskTyped
<1>6. s.of \in Artifacts /\ s.names \in Names
  BY <1>2 DEF Task
<1>7. s.file \in Files \ Matches /\ OfPlan(s)
  BY <1>1, <1>2, <1>3 DEF Works, OfPlan
<1>8. Makes(s, s.of) = r
  BY MadeMakes
<1>9. \A v \in Uploads \ {u} : task[v].at \in Holding =>
         Up!Made(task[v]) \in contested' \/ hls'[Up!Made(task[v])] = hls[Up!Made(task[v])]
  BY <1>1
<1>10. ASSUME NEW t \in Task, task' = [task EXCEPT ![u] = t], t.at \in {"probe", "sign"}
       PROVE  Alone' /\ t.at \in Fresh /\ t.at \notin Holding /\ Writing(t)'
  <2>1. t.at \in Fresh /\ t.at \notin Holding
    BY <1>3, <1>10
  <2>2. task'[u] = t /\ \A v \in Uploads \ {u} : task'[v] = task[v]
    BY <1>10 DEF UpInv, TasksTyped
  <2>3. \A v \in Uploads : task'[v].at \in Holding =>
           task[v].at \in Holding /\ Up!Made(task'[v]) = Up!Made(task[v])
    BY <2>1, <2>2
  <2>4. Alone'
    BY <1>5, <2>3, AloneKept DEF UpInv
  <2>5. Writing(t)'
    BY <2>1 DEF Writing, Holding
  <2> QED
    BY <2>1, <2>4, <2>5
<1>11. CASE s.of = "original"
  <2>a. PICK n : n = Up!With(Up!Nothing, "original", b)
    OBVIOUS
  <2>b. PICK t : t = [s EXCEPT !.at = "probe", !.names = n]
    OBVIOUS
  <2>1. task' = [task EXCEPT ![u] = t]
    BY <1>0, <1>0a, <1>11, <2>a, <2>b DEF Up!Store, Up!Moves
  <2>2. n \in Names /\ DOMAIN n = {"original"} /\ n["original"] = b
    <3>1. PICK g \in Names, a \in Artifacts : g = Up!Nothing /\ DOMAIN g = {} /\ a = "original"
      BY <1>6, <1>11, Nothing0
    <3>2. n = Up!With(g, a, b)
      BY <2>a, <3>1
    <3>3. n \in Names /\ More(n, g, a, b)
      BY <1>4, <3>2, WithName
    <3> QED
      BY <3>1, <3>3 DEF More
  <2>3. /\ t \in Task /\ t.at = "probe" /\ t.file = s.file /\ t.cover = s.cover /\ t.of = s.of
        /\ t.video = s.video /\ t.names = n /\ t.packaged = s.packaged
        /\ t.seg = s.seg /\ t.writes = s.writes /\ t.blobs = s.blobs
    BY <1>2, <1>3, <2>b, <2>2 DEF Task
  <2>4. Works(t)
    BY <1>1, <1>2, <1>3, <1>7, <1>11, <2>3 DEF Works
  <2>5. Named(t)'
    <3>1. DOMAIN t.packaged = {}
      BY <1>2, <1>11, <2>3 DEF Named
    <3>2. Makes(t, "original") = r
      BY <1>11, <2>3 DEF Makes, Up!Made
    <3>3. t.at \notin Holding /\ t.at # "sign"
      BY <1>3, <2>3
    <3> QED
      BY <1>0a, <1>5, <2>2, <2>3, <3>1, <3>2, <3>3 DEF Named
  <2>6. task[u].at \in Fresh \cup Holding /\ t.at \in Fresh \cup Holding
    BY <1>0, <1>1, <1>3, <2>3
  <2>7. Alone' /\ Writing(t)'
    BY <1>10, <2>1, <2>3
  <2> QED
    BY <1>1, <1>5, <1>9, <2>1, <2>3, <2>4, <2>5, <2>6, <2>7, OneMoves
<1>12. CASE s.of \in {"cover", "thumb"}
  <2>a. PICK n : n = Up!With(s.names, s.of, b)
    OBVIOUS
  <2>b. PICK t : t = [s EXCEPT !.names = n]
    OBVIOUS
  <2>1. task' = [task EXCEPT ![u] = Up!Onward(t)]
    <3>1. s.of # "original"
      BY <1>12
    <3> QED
      BY <1>0, <1>0a, <1>12, <2>a, <2>b, <3>1 DEF Up!Store, Up!Moves
  <2>2. n \in Names /\ More(n, s.names, s.of, b)
    <3>1. PICK g \in Names : g = s.names
      BY <1>6
    <3>2. PICK a \in Artifacts : a = s.of
      BY <1>6
    <3>3. n = Up!With(g, a, b)
      BY <2>a, <3>1, <3>2
    <3>4. n \in Names /\ More(n, g, a, b)
      BY <1>4, <3>1, <3>3, WithName
    <3> QED
      BY <3>1, <3>2, <3>4
  <2>3. /\ t \in Task /\ t.at = "store" /\ t.file = s.file /\ t.cover = s.cover /\ t.of = s.of
        /\ t.video = s.video /\ t.names = n /\ t.packaged = s.packaged
        /\ t.seg = s.seg /\ t.writes = s.writes /\ t.blobs = s.blobs
    BY <1>1, <1>2, <1>3, <2>b, <2>2 DEF Task
  <2>4. Named(t)'
    <3>1. Named(s)'
      BY <1>2, <1>5, NamedKept
    <3>2. \A a : Makes(t, a) = Makes(s, a)
      BY <2>3 DEF Makes
    <3>3. s.at \notin Holding /\ t.at \notin Holding /\ t.at # "sign" /\ t.of # "original"
      BY <1>1, <1>3, <1>12, <2>3
    <3>4. \A a \in DOMAIN n : n[a] = Up!Whole(Makes(t, a)) /\ Good(n[a])'
      BY <1>0a, <1>5, <1>8, <2>2, <3>1, <3>2 DEF Named, More
    <3>5. \A a \in DOMAIN s.packaged : a \in DOMAIN n /\ Plays(Makes(t, a), s.packaged[a])'
      BY <2>2, <3>1, <3>2 DEF Named, More
    <3> QED
      BY <2>3, <3>3, <3>4, <3>5 DEF Named
  <2>5. t.file \in Files \ Matches /\ OfPlan(t)
    BY <1>7, <2>3 DEF OfPlan
  <2>6. task[u].at \in Fresh \cup Holding
    BY <1>0, <1>1, <1>3
  <2> QED
    BY <1>1, <1>5, <2>1, <2>3, <2>4, <2>5, <2>6, OnwardMoves
<1>13. CASE s.of \notin Basics
  <2>a. PICK t : t = [s EXCEPT !.at = "sign"]
    OBVIOUS
  <2>1. task' = [task EXCEPT ![u] = t] /\ s.of # "original"
    BY <1>0, <1>0a, <1>13, <2>a DEF Up!Store, Up!Moves, Basics
  <2>2. /\ t \in Task /\ t.at = "sign" /\ t.file = s.file /\ t.cover = s.cover /\ t.of = s.of
        /\ t.video = s.video /\ t.names = s.names /\ t.packaged = s.packaged
        /\ t.seg = s.seg /\ t.writes = s.writes /\ t.blobs = s.blobs
    BY <1>2, <1>3, <2>a DEF Task
  <2>3. Works(t)
    BY <1>1, <1>2, <1>3, <1>7, <1>13, <2>1, <2>2 DEF Works
  <2>4. Named(t)'
    <3>1. Named(s)'
      BY <1>2, <1>5, NamedKept
    <3>2. \A a : Makes(t, a) = Makes(s, a)
      BY <2>2 DEF Makes
    <3>3. t.at \notin Holding /\ t.of # "original" /\ Up!Made(t) = r
      BY <1>3, <2>1, <2>2, <3>2, MadeMakes
    <3>4. \A a \in DOMAIN t.names : t.names[a] = Up!Whole(Makes(t, a)) /\ Good(t.names[a])'
      BY <2>2, <3>1, <3>2 DEF Named
    <3>5. \A a \in DOMAIN t.packaged : a \in DOMAIN t.names /\ Plays(Makes(t, a), t.packaged[a])'
      BY <2>2, <3>1, <3>2 DEF Named
    <3> QED
      BY <1>0a, <1>5, <2>2, <3>3, <3>4, <3>5 DEF Named
  <2>6. task[u].at \in Fresh \cup Holding /\ t.at \in Fresh \cup Holding
    BY <1>0, <1>1, <1>3, <2>2
  <2>7. Alone' /\ Writing(t)'
    BY <1>10, <2>1, <2>2
  <2> QED
    BY <1>1, <1>5, <1>9, <2>1, <2>2, <2>3, <2>4, <2>6, <2>7, OneMoves
<1> QED
  BY <1>11, <1>12, <1>13 DEF Basics

-----------------------------------------------------------------------------
(* The segments of a rendition *)

LEMMA SegmentsAre ==
  ASSUME NEW r \in Up!Renditions
  PROVE  /\ SegmentsOf[r] \in Seq(Contents) /\ Len(SegmentsOf[r]) \in Nat
         /\ DOMAIN SegmentsOf[r] = 1..Len(SegmentsOf[r])
         /\ \A k \in 1..Len(SegmentsOf[r]) : SegmentsOf[r][k] \in Contents
<1>1. SegmentsOf[r] \in Seq(Contents)
  BY Files0
<1> QED
  BY <1>1, LenProperties

LEMMA ListingIs ==
  ASSUME NEW r \in Up!Renditions
  PROVE  /\ Up!Listing(r) \in Seq(1..Len(SegmentsOf[r]))
         /\ (\A k \in 1..Len(SegmentsOf[r]) : hls[r][k] # Up!Absent) =>
              /\ Len(Up!Listing(r)) = Len(SegmentsOf[r])
              /\ \A k \in 1..Len(SegmentsOf[r]) : Up!Listing(r)[k] = k
<1> DEFINE n == Len(SegmentsOf[r])
           A == {k \in DOMAIN SegmentsOf[r] : k = 1 \/ hls[r][k] # Up!Absent}
           m == Cardinality(A)
           L == [i \in 1..m |-> CHOOSE k \in A : Cardinality({j \in A : j < k}) = i - 1]
<1>1. Up!Listing(r) = L
  BY DEF Up!Listing, Up!Cardinality, Cardinality
<1>2. n \in Nat /\ A \in SUBSET (1..n)
  BY SegmentsAre
<1>3. m \in Nat
  BY <1>2, UpTo
<1> HIDE DEF A
<1>4. ASSUME NEW i \in 1..m
      PROVE  L[i] \in A /\ Cardinality({j \in A : j < L[i]}) = i - 1
  <2>1. \E k \in A : Cardinality({j \in A : j < k}) = i - 1
    BY <1>2, Ranked
  <2> QED
    BY <2>1
<1>5. L \in Seq(1..n) /\ Len(L) = m
  <2>1. \A i \in 1..m : L[i] \in 1..n
    BY <1>2, <1>4
  <2>2. L \in [1..m -> 1..n]
    <3>1. \A i \in 1..m : (CHOOSE k \in A : Cardinality({j \in A : j < k}) = i - 1) \in 1..n
      BY <2>1
    <3> QED
      BY <3>1
  <2> HIDE DEF L, m
  <2> QED
    BY <1>3, <2>2
<1>6. ASSUME \A k \in 1..n : hls[r][k] # Up!Absent
      PROVE  m = n /\ \A k \in 1..n : L[k] = k
  <2>1. A = 1..n
    BY <1>6, SegmentsAre DEF A
  <2>2. m = n
    BY <1>2, <2>1, UpTo
  <2>3. ASSUME NEW k \in 1..n PROVE L[k] = k
    <3> DEFINE x == L[k]
    <3>1. x \in 1..n /\ Cardinality({j \in A : j < x}) = k - 1
      BY <1>4, <2>1, <2>2
    <3> HIDE DEF x
    <3>2. {j \in A : j < x} = 1..(x - 1)
      BY <1>2, <2>1, <3>1
    <3>3. Cardinality(1..(x - 1)) = x - 1
      <4>1. x - 1 \in Int /\ 1 \in Int /\ x - 1 >= 0
        BY <1>2, <3>1
      <4>2. Cardinality(1..(x - 1)) = IF 1 > x - 1 THEN 0 ELSE (x - 1) - 1 + 1
        BY <4>1, FS_Interval
      <4> QED
        BY <4>1, <4>2
    <3>4. x - 1 = k - 1
      BY <3>1, <3>2, <3>3
    <3>5. x = k
      BY <1>2, <3>1, <3>4
    <3> QED
      BY <3>5 DEF x
  <2> QED
    BY <2>2, <2>3
<1> HIDE DEF L, m
<1> QED
  BY <1>1, <1>5, <1>6

LEMMA ReadDirectoryStep == ASSUME UpInv, NEW u \in Uploads, Up!ReadDirectory(u) PROVE UpInv'
<1> DEFINE r == Up!Made(task[u])
           L == Up!Listing(r)
           t == [task[u] EXCEPT !.at = "hash", !.found = L, !.writes = Up!NoFile]
<1>1. /\ task[u].at = "package" /\ task' = [task EXCEPT ![u] = t]
      /\ task[u].seg = Len(SegmentsOf[r]) /\ task[u].writes = Up!NoFile
      /\ UNCHANGED <<status, hls, store, rows, indexed, playlists, given, contested>>
  BY DEF Up!ReadDirectory, Up!At, Up!Moves, Up!FfmpegEnded
<1>2. /\ task[u] \in Task /\ Works(task[u]) /\ Named(task[u]) /\ Writing(task[u])
  BY TaskIs
<1>3. "package" \in Holding /\ "hash" \in Holding
  BY DEF Holding
<1>4. r \in Up!Renditions
  BY <1>1, <1>2, <1>3, MadeIs
<1>5. L \in Seq(1..Len(SegmentsOf[r])) /\ L \in Seq(Nat)
  BY <1>4, ListingIs, SegmentsAre
<1>6. /\ t \in Task /\ t.at = "hash" /\ t.file = task[u].file /\ t.cover = task[u].cover
      /\ t.of = task[u].of /\ t.video = task[u].video /\ t.names = task[u].names
      /\ t.packaged = task[u].packaged /\ t.writes = Up!NoFile /\ t.found = L
      /\ t.blobs = task[u].blobs
  <2>1. Up!NoFile \in Writes
    BY DEF Writes
  <2> HIDE DEF L
  <2> QED
    BY <1>2, <1>3, <1>5, <2>1 DEF Task
<1> HIDE DEF t, L
<1>7. Up!Made(t) = r
  BY <1>6 DEF Up!Made
<1>8. Works(t)
  BY <1>1, <1>2, <1>3, <1>6 DEF Works
<1>9. Named(t)
  BY <1>2, <1>1, <1>3, <1>6, NamedAs
<1>10. Writing(t)
  <2>1. task[u].blobs = <<>>
    BY <1>1, <1>2 DEF Works
  <2>2. Len(t.blobs) = 0
    BY <1>6, <2>1
  <2>3. ASSUME r \notin contested
        PROVE  \A k \in 1..Len(SegmentsOf[r]) : hls[r][k] = Up!Whole(SegmentsOf[r][k])
    BY <1>1, <1>2, <2>3 DEF Writing
  <2>4. ASSUME r \notin contested
        PROVE  /\ Len(L) = Len(SegmentsOf[r])
               /\ \A k \in 1..Len(SegmentsOf[r]) : L[k] = k
    <3>1. \A k \in 1..Len(SegmentsOf[r]) : hls[r][k] # Up!Absent
      BY <2>3, <2>4, <1>4, SegmentsAre, Contents0
    <3> QED
      BY <1>4, <3>1, ListingIs DEF L
  <2>5. Len(SegmentsOf[r]) \in Nat
    BY <1>4, SegmentsAre
  <2>6. ASSUME r \notin contested
        PROVE /\ Len(t.blobs) + Len(t.found) = Len(SegmentsOf[r])
              /\ \A k \in 1..Len(t.found) :
                 /\ t.found[k] = Len(t.blobs) + k
                 /\ hls[r][Len(t.blobs) + k] = Up!Whole(SegmentsOf[r][Len(t.blobs) + k])
              /\ \A k \in 1..Len(t.blobs) : t.blobs[k] = Up!Whole(SegmentsOf[r][k]) /\ Good(t.blobs[k])
    <3>1. \A k \in Nat : Len(t.blobs) + k = k
      BY <2>2
    <3>2. \A k \in 1..Len(t.blobs) : FALSE
      BY <2>2
    <3> QED
      BY <1>6, <2>2, <2>3, <2>4, <2>5, <2>6, <3>1, <3>2
  <2> QED
    BY <1>5, <1>6, <1>7, <2>6 DEF Writing
<1> QED
  BY <1>1, <1>3, <1>6, <1>7, <1>8, <1>9, <1>10, Quiet

LEMMA HashSegmentStep == ASSUME UpInv, NEW u \in Uploads, Up!HashSegment(u) PROVE UpInv'
<1> DEFINE r == Up!Made(task[u])
           x == hls[r][Head(task[u].found)]
           t == [task[u] EXCEPT !.at = "commit", !.hashed = x]
<1>1. /\ task[u].at = "hash" /\ task' = [task EXCEPT ![u] = t]
      /\ task[u].found # <<>> /\ x # Up!Absent
      /\ UNCHANGED <<status, hls, store, rows, indexed, playlists, given, contested>>
  BY DEF Up!HashSegment, Up!At, Up!Moves
<1>2. /\ task[u] \in Task /\ Works(task[u]) /\ Named(task[u]) /\ Writing(task[u])
  BY TaskIs
<1>3. "commit" \in Holding /\ "hash" \in Holding
  BY DEF Holding
<1>4. r \in Up!Renditions
  BY <1>1, <1>2, <1>3, MadeIs
<1>5. /\ task[u].found \in Seq(1..Len(SegmentsOf[r])) /\ Len(task[u].found) > 0
      /\ Head(task[u].found) \in 1..Len(SegmentsOf[r]) /\ Head(task[u].found) = task[u].found[1]
  <2>1. task[u].found \in Seq(1..Len(SegmentsOf[r]))
    BY <1>1, <1>2 DEF Writing
  <2> QED
    BY <1>1, <2>1, HeadTailProperties, LenProperties, EmptySeq
<1>6. x \in {Up!Cut(SegmentsOf[r][Head(task[u].found)]), Up!Whole(SegmentsOf[r][Head(task[u].found)])}
  BY <1>1, <1>4, <1>5, SegmentsAre DEF UpInv, DiskTyped
<1>7. x \in Up!Blobs
  BY <1>4, <1>5, <1>6, SegmentsAre, Contents0
<1>8. /\ t \in Task /\ t.at = "commit" /\ t.file = task[u].file /\ t.cover = task[u].cover
      /\ t.of = task[u].of /\ t.video = task[u].video /\ t.names = task[u].names
      /\ t.packaged = task[u].packaged /\ t.writes = task[u].writes /\ t.found = task[u].found
      /\ t.blobs = task[u].blobs /\ t.hashed = x
  <2> HIDE DEF x
  <2> QED
    BY <1>2, <1>3, <1>7 DEF Task
<1> HIDE DEF t, x
<1>9. Up!Made(t) = r
  BY <1>8 DEF Up!Made
<1>10. Works(t)
  BY <1>1, <1>2, <1>3, <1>8 DEF Works
<1>11. Named(t)
  BY <1>1, <1>2, <1>3, <1>8, NamedAs
<1>12. Writing(t)
  <2>1. r \notin contested => x = Up!Whole(SegmentsOf[r][Len(t.blobs) + 1])
    <3>1. r \notin contested => hls[r][Len(t.blobs) + 1] = Up!Whole(SegmentsOf[r][Len(t.blobs) + 1])
                                /\ task[u].found[1] = Len(t.blobs) + 1
      <4>1. 1 \in 1..Len(task[u].found)
        BY <1>5, LenProperties
      <4> QED
        BY <1>1, <1>2, <1>8, <4>1 DEF Writing
    <3> QED
      BY <1>5, <3>1 DEF x
  <2> QED
    BY <1>1, <1>2, <1>5, <1>6, <1>8, <1>9, <2>1 DEF Writing
<1> QED
  BY <1>1, <1>3, <1>8, <1>9, <1>10, <1>11, <1>12, Quiet

LEMMA PackagedStep == ASSUME UpInv, NEW u \in Uploads, Up!Packaged(u) PROVE UpInv'
<1>0. PICK s : s = task[u]
  OBVIOUS
<1>0a. PICK p : p = Up!With(s.packaged, s.of, s.blobs)
  OBVIOUS
<1> DEFINE t == [s EXCEPT !.packaged = p]
           r == Up!Made(s)
<1>1. /\ s.at = "hash" /\ s.found = <<>> /\ task' = [task EXCEPT ![u] = Up!Onward(t)]
      /\ UNCHANGED <<status, hls, store, rows, indexed, playlists, given, contested>>
  BY <1>0, <1>0a DEF Up!Packaged, Up!At, Up!Moves
<1>2. s \in Task /\ Works(s) /\ Named(s) /\ Writing(s)
  BY <1>0, TaskIs
<1>3. "hash" \in Holding
  BY DEF Holding
<1>4. /\ s.packaged \in Lists /\ s.of \in Artifacts /\ s.blobs \in Seq(Up!Blobs) /\ s.names \in Names
  BY <1>2 DEF Task
<1>5. p \in Lists /\ More(p, s.packaged, s.of, s.blobs)
  <2>1. PICK f \in Lists, a \in Artifacts, b \in Seq(Up!Blobs) :
          f = s.packaged /\ a = s.of /\ b = s.blobs
    BY <1>4
  <2>2. p = Up!With(f, a, b)
    BY <1>0a, <2>1
  <2>3. p \in Lists /\ More(p, f, a, b)
    BY <2>2, WithList
  <2> QED
    BY <2>1, <2>3
<1>6. /\ t \in Task /\ t.at = "hash" /\ t.file = s.file /\ t.cover = s.cover /\ t.of = s.of
      /\ t.video = s.video /\ t.names = s.names /\ t.packaged = p
  BY <1>1, <1>2, <1>5 DEF Task
<1> HIDE DEF t
<1>7. t.file \in Files \ Matches /\ OfPlan(t)
  BY <1>1, <1>2, <1>3, <1>6 DEF Works, OfPlan
<1>8. r \in Up!Renditions /\ r = Makes(t, s.of)
  <2>1. r \in Up!Renditions
    BY <1>1, <1>2, <1>3, MadeIs
  <2> QED
    BY <1>6, <2>1, MadeMakes DEF Makes
<1>9. Plays(r, s.blobs)
  <2>1. CASE r \in contested
    BY <2>1 DEF Plays
  <2>2. CASE r \notin contested
    <3>1. /\ Len(s.blobs) + Len(s.found) = Len(SegmentsOf[r])
          /\ \A k \in 1..Len(s.blobs) : s.blobs[k] = Up!Whole(SegmentsOf[r][k]) /\ Good(s.blobs[k])
      BY <1>1, <1>2, <2>2 DEF Writing
    <3>2. Len(s.found) = 0
      BY <1>1
    <3>3. Len(s.blobs) \in Nat /\ DOMAIN s.blobs = 1..Len(s.blobs) /\ DOMAIN SegmentsOf[r] = 1..Len(SegmentsOf[r])
      BY <1>4, <1>8, SegmentsAre, LenProperties
    <3>4. Len(s.blobs) = Len(SegmentsOf[r])
      BY <3>1, <3>2, <3>3
    <3>5. s.blobs = [k \in DOMAIN SegmentsOf[r] |-> Up!Whole(SegmentsOf[r][k])]
      <4>1. s.blobs = [k \in DOMAIN s.blobs |-> s.blobs[k]]
        BY <1>4
      <4>2. DOMAIN s.blobs = DOMAIN SegmentsOf[r]
        BY <3>3, <3>4
      <4> QED
        BY <3>1, <3>3, <4>1, <4>2
    <3>6. \A b \in Up!ToSet(s.blobs) : Good(b)
      BY <3>1, <3>3 DEF Up!ToSet
    <3> QED
      BY <3>5, <3>6 DEF Plays
  <2> QED
    BY <2>1, <2>2
<1>10. Named(t)
  <2>1. \A a : Makes(t, a) = Makes(s, a)
    BY <1>6 DEF Makes
  <2>2. s.of \in DOMAIN s.names /\ s.of # "original"
    BY <1>1, <1>2, <1>3 DEF Named, Works, Basics
  <2>3. \A a \in DOMAIN p : a \in DOMAIN t.names /\ Plays(Makes(t, a), p[a])
    BY <1>2, <1>5, <1>6, <1>8, <1>9, <2>1, <2>2 DEF Named, More
  <2> QED
    BY <1>2, <1>6, <2>1, <2>2, <2>3 DEF Named
<1> QED
  BY <1>0, <1>1, <1>3, <1>6, <1>7, <1>10, GoesOnward

\* A rendition that is packaged is in the store.
LEMMA RenditionStored ==
  ASSUME UpInv, NEW u \in Uploads, task[u].at \in Holding
  PROVE  Up!Made(task[u]) \in Up!Renditions /\ store[Up!Whole(Up!Made(task[u]))] # Up!Absent
<1>0. PICK s : s = task[u]
  OBVIOUS
<1>1. s \in Task /\ Works(s) /\ Named(s)
  BY <1>0, TaskIs
<1>2. Up!Made(s) \in Up!Renditions
  BY <1>0, <1>1, MadeIs
<1>3. Good(Up!Whole(Up!Made(s)))
  BY <1>0, <1>1, MadeMakes DEF Named
<1>4. None # "clear"
  BY UploadAssumption
<1> QED
  BY <1>0, <1>2, <1>3, <1>4 DEF Good, UpInv, Up!StoreIsSound

\* Other uploads' directories are theirs, or contested.
LEMMA Apart ==
  ASSUME UpInv, NEW u \in Uploads, task[u].at \in Holding, UNCHANGED contested,
         \A q \in Up!Renditions \ {Up!Made(task[u])} : hls'[q] = hls[q]
  PROVE  \A v \in Uploads \ {u} : task[v].at \in Holding =>
           Up!Made(task[v]) \in contested' \/ hls'[Up!Made(task[v])] = hls[Up!Made(task[v])]
<1> SUFFICES ASSUME NEW v \in Uploads \ {u}, task[v].at \in Holding,
                    Up!Made(task[v]) # Up!Made(task[u])
             PROVE  hls'[Up!Made(task[v])] = hls[Up!Made(task[v])]
  BY DEF UpInv, Alone
<1>1. Up!Made(task[v]) \in Up!Renditions
  BY TaskIs, MadeIs
<1> QED
  BY <1>1

LEMMA OpenSegmentStep == ASSUME UpInv, NEW u \in Uploads, Up!OpenSegment(u) PROVE UpInv'
<1>0. PICK s : s = task[u]
  OBVIOUS
<1> DEFINE r == Up!Made(s)
           S == SegmentsOf[r]
           k == s.seg + 1
           w == <<"segment", r, k>>
<1>a. PICK t : t = [s EXCEPT !.seg = k, !.writes = w]
  OBVIOUS
<1>1. /\ s.at = "package" /\ s.writes = Up!NoFile /\ s.seg < Len(S)
      /\ task' = [task EXCEPT ![u] = t]
      /\ hls' = [hls EXCEPT ![r][k] = Up!Cut(S[k])]
      /\ UNCHANGED <<status, store, rows, indexed, playlists, given, contested>>
  BY <1>0, <1>a DEF Up!OpenSegment, Up!At, Up!Moves
<1>2. s \in Task /\ Works(s) /\ Named(s) /\ Writing(s)
  BY <1>0, TaskIs
<1>3. "package" \in Holding
  BY DEF Holding
<1>4. r \in Up!Renditions /\ Len(S) \in Nat
  BY <1>1, <1>2, <1>3, MadeIs, SegmentsAre
<1>5. s.seg \in Nat /\ k \in 1..Len(S) /\ k \in DOMAIN S
  <2>1. s.seg \in Nat
    BY <1>2 DEF Task
  <2> QED
    BY <1>1, <1>4, <2>1, SegmentsAre
<1>6. /\ w \in Writes /\ w # Up!NoFile
  BY <1>4, <1>5 DEF Writes, Up!NoFile
<1>7. /\ t \in Task /\ t.at = "package" /\ t.file = s.file /\ t.cover = s.cover /\ t.of = s.of
      /\ t.video = s.video /\ t.names = s.names /\ t.packaged = s.packaged
      /\ t.seg = k /\ t.writes = w /\ t.blobs = s.blobs
  <2> HIDE DEF w
  <2>1. k \in Nat
    BY <1>5
  <2> HIDE DEF k
  <2> QED
    BY <1>a, <1>1, <1>2, <1>6, <2>1 DEF Task
<1>8. Up!Made(t) = r
  BY <1>7 DEF Up!Made
<1>9. Works(t)
  BY <1>1, <1>2, <1>3, <1>7 DEF Works
<1>10. Grows
  BY <1>1, GoodKept
<1>11. /\ DOMAIN hls' = Up!Renditions /\ \A q \in Up!Renditions \ {r} : hls'[q] = hls[q]
       /\ DOMAIN hls'[r] = DOMAIN S
       /\ \A j \in DOMAIN S : hls'[r][j] = IF j = k THEN Up!Cut(S[k]) ELSE hls[r][j]
  BY <1>1, <1>4 DEF UpInv, DiskTyped
<1>12. DiskTyped'
  BY <1>1, <1>4, <1>11 DEF UpInv, DiskTyped
<1>13. Up!StoreIsSound'
  BY <1>1 DEF UpInv, Up!StoreIsSound, Up!Torn, Up!Unasked
<1>14. Named(t)'
  <2>1. Named(t)
    BY <1>1, <1>2, <1>3, <1>7, NamedAs
  <2> QED
    BY <1>10, <2>1, NamedKept
<1>15. Writing(t)'
  <2>1. k > 0 /\ k <= Len(S)
    BY <1>4, <1>5
  <2>2. ASSUME r \notin contested, NEW j \in 1..k, j # k PROVE hls'[r][j] = Up!Whole(S[j])
    <3>1. j \in 1..s.seg /\ j \in DOMAIN S
      BY <1>4, <1>5, <2>2, SegmentsAre
    <3>2. hls[r][j] = Up!Whole(S[j])
      BY <1>1, <1>2, <2>2, <3>1 DEF Writing
    <3> QED
      BY <1>11, <2>2, <3>1, <3>2
  <2> HIDE DEF k, w
  <2>3. w = <<"segment", r, k>>
    BY DEF w
  <2> QED
    BY <1>1, <1>6, <1>7, <1>8, <2>1, <2>2, <2>3 DEF Writing
<1>16. task'[u] = t /\ \A v \in Uploads \ {u} : task'[v] = task[v]
  BY <1>1 DEF UpInv, TasksTyped
<1>17. Alone'
  <2>1. \A v \in Uploads : task'[v].at \in Holding =>
           task[v].at \in Holding /\ Up!Made(task'[v]) = Up!Made(task[v])
    BY <1>0, <1>1, <1>3, <1>8, <1>16
  <2> QED
    BY <1>10, <2>1, AloneKept DEF UpInv
<1>18. \A v \in Uploads \ {u} : task[v].at \in Holding =>
           Up!Made(task[v]) \in contested' \/ hls'[Up!Made(task[v])] = hls[Up!Made(task[v])]
  BY <1>0, <1>1, <1>3, <1>11, Apart
<1> QED
  BY <1>0, <1>1, <1>3, <1>7, <1>9, <1>10, <1>12, <1>13, <1>14, <1>15, <1>17, <1>18, OneMoves

LEMMA CloseSegmentStep == ASSUME UpInv, NEW u \in Uploads, Up!CloseSegment(u) PROVE UpInv'
<1>0. PICK s : s = task[u]
  OBVIOUS
<1> DEFINE r == Up!Made(s)
           S == SegmentsOf[r]
           k == s.seg
           whole == Up!Whole(S[k])
<1>a. PICK t : t = [s EXCEPT !.writes = Up!NoFile]
  OBVIOUS
<1>1. /\ s.at = "package" /\ s.writes # Up!NoFile
      /\ task' = [task EXCEPT ![u] = t]
      /\ IF s.writes[1] = "segment"
           THEN hls' = [hls EXCEPT ![s.writes[2]][s.writes[3]] = whole] /\ UNCHANGED store
           ELSE store' = [store EXCEPT ![s.writes[2]] = whole] /\ UNCHANGED hls
      /\ UNCHANGED <<status, rows, indexed, playlists, given, contested>>
  BY <1>0, <1>a DEF Up!CloseSegment, Up!At, Up!Moves
<1>2. s \in Task /\ Works(s) /\ Named(s) /\ Writing(s)
  BY <1>0, TaskIs
<1>3. "package" \in Holding
  BY DEF Holding
<1>4. r \in Up!Renditions /\ Len(S) \in Nat
  BY <1>1, <1>2, <1>3, MadeIs, SegmentsAre
<1>5. k \in 1..Len(S) /\ k \in DOMAIN S /\ S[k] \in Contents
  <2>1. k \in Nat
    BY <1>2 DEF Task
  <2>2. k > 0 /\ k <= Len(S)
    BY <1>1, <1>2 DEF Writing
  <2> QED
    BY <1>4, <2>1, <2>2, SegmentsAre
<1>6. whole \in Up!Blobs /\ whole.of = S[k] /\ whole # Up!Absent
  BY <1>5, Contents0
<1> HIDE DEF k
<1>7. /\ t \in Task /\ t.at = "package" /\ t.file = s.file /\ t.cover = s.cover /\ t.of = s.of
      /\ t.video = s.video /\ t.names = s.names /\ t.packaged = s.packaged
      /\ t.seg = s.seg /\ t.writes = Up!NoFile /\ t.blobs = s.blobs
  <2>1. Up!NoFile \in Writes
    BY DEF Writes
  <2> QED
    BY <1>a, <1>1, <1>2, <2>1 DEF Task
<1>8. Up!Made(t) = r
  BY <1>7 DEF Up!Made
<1>9. Works(t)
  BY <1>1, <1>2, <1>3, <1>7 DEF Works
<1> HIDE DEF whole
<1>10. /\ Grows /\ DiskTyped' /\ Up!StoreIsSound'
       /\ \A q \in Up!Renditions \ {r} : hls'[q] = hls[q]
       /\ r \notin contested => \A j \in DOMAIN S : j # k => hls'[r][j] = hls[r][j]
       /\ r \notin contested => hls'[r][k] = whole
  <2>1. \/ s.writes = <<"segment", r, k>>
        \/ /\ r \in contested
           /\ \E b \in Up!Blobs : b.of = S[k] /\ s.writes = <<"blob", b>>
    BY <1>1, <1>2 DEF Writing, k
  <2>2. CASE s.writes = <<"segment", r, k>>
    <3>1. s.writes[1] = "segment" /\ s.writes[2] = r /\ s.writes[3] = k
      BY <2>2
    <3>2. hls' = [hls EXCEPT ![r][k] = whole] /\ UNCHANGED store
      BY <1>1, <3>1
    <3>3. /\ DOMAIN hls' = Up!Renditions /\ \A q \in Up!Renditions \ {r} : hls'[q] = hls[q]
          /\ DOMAIN hls'[r] = DOMAIN S
          /\ \A j \in DOMAIN S : hls'[r][j] = IF j = k THEN whole ELSE hls[r][j]
      BY <1>4, <3>2 DEF UpInv, DiskTyped
    <3>4. Grows
      BY <1>1, <3>2, GoodKept
    <3>5. DiskTyped'
      BY <1>1, <1>4, <3>2, <3>3 DEF UpInv, DiskTyped, whole
    <3>6. Up!StoreIsSound'
      BY <1>1, <3>2 DEF UpInv, Up!StoreIsSound, Up!Torn, Up!Unasked
    <3> QED
      BY <1>5, <3>3, <3>4, <3>5, <3>6
  <2>3. ASSUME r \in contested, NEW b \in Up!Blobs, b.of = S[k], s.writes = <<"blob", b>>
        PROVE  /\ Grows /\ DiskTyped' /\ Up!StoreIsSound' /\ hls' = hls
    <3>1. s.writes[1] = "blob" /\ s.writes[2] = b
      BY <2>3
    <3>2. store' = [store EXCEPT ![b] = whole] /\ UNCHANGED hls
      BY <1>1, <3>1
    <3>3. Up!Torn(b) /\ Up!Unasked(b)
      <4>1. S[k] \in Up!ToSet(S)
        BY <1>5 DEF Up!ToSet
      <4>2. store[Up!Whole(r)] # Up!Absent
        BY <1>0, <1>1, <1>3, RenditionStored
      <4> QED
        BY <1>4, <2>3, <4>1, <4>2 DEF Up!Torn, Up!Unasked
    <3>4. /\ \A x \in Up!Blobs : store'[x] = IF x = b THEN whole ELSE store[x]
          /\ store' \in [Up!Blobs -> Up!Blobs \cup {Up!Absent}]
      BY <1>6, <3>2 DEF UpInv, DiskTyped
    <3>5. Grows
      BY <1>1, <3>3, <3>4, GoodKept
    <3>6. DiskTyped'
      BY <1>1, <3>2, <3>4 DEF UpInv, DiskTyped
    <3>7. \A x : Up!Unasked(x) => Up!Unasked(x)'
      BY <1>6, <3>4, UnaskedKept
    <3>8. \A x : Up!Torn(x) => Up!Torn(x)'
      BY <1>1 DEF Up!Torn
    <3>9. Up!StoreIsSound'
      BY <1>1, <1>6, <3>3, <3>4, <3>7, <3>8 DEF UpInv, Up!StoreIsSound
    <3> QED
      BY <3>2, <3>5, <3>6, <3>9
  <2> QED
    BY <2>1, <2>2, <2>3
<1>14. Named(t)'
  <2>1. Named(t)
    BY <1>1, <1>2, <1>3, <1>7, NamedAs
  <2> QED
    BY <1>10, <2>1, NamedKept
<1>15. Writing(t)'
  <2>2. ASSUME r \notin contested, NEW j \in 1..k PROVE hls'[r][j] = Up!Whole(S[j])
    <3>1. j \in 1..s.seg /\ j \in DOMAIN S
      BY <1>4, <1>5, <2>2, SegmentsAre DEF k
    <3>2. j # k => hls[r][j] = Up!Whole(S[j])
      BY <1>1, <1>2, <2>2, <3>1 DEF Writing, k
    <3> QED
      BY <1>10, <2>2, <3>1, <3>2 DEF whole
  <2>3. k <= Len(S)
    BY <1>4, <1>5
  <2> QED
    BY <1>1, <1>7, <1>8, <2>2, <2>3 DEF Writing, k
<1>16. task'[u] = t /\ \A v \in Uploads \ {u} : task'[v] = task[v]
  BY <1>1 DEF UpInv, TasksTyped
<1>17. Alone'
  <2>1. \A v \in Uploads : task'[v].at \in Holding =>
           task[v].at \in Holding /\ Up!Made(task'[v]) = Up!Made(task[v])
    BY <1>0, <1>1, <1>3, <1>8, <1>16
  <2> QED
    BY <1>10, <2>1, AloneKept DEF UpInv
<1>18. \A v \in Uploads \ {u} : task[v].at \in Holding =>
           Up!Made(task[v]) \in contested' \/ hls'[Up!Made(task[v])] = hls[Up!Made(task[v])]
  BY <1>0, <1>1, <1>3, <1>10, Apart
<1> QED
  BY <1>0, <1>1, <1>3, <1>7, <1>9, <1>10, <1>14, <1>15, <1>17, <1>18, OneMoves

LEMMA SignStep == ASSUME UpInv, NEW u \in Uploads, Up!Sign(u) PROVE UpInv'
<1>0. PICK s : s = task[u]
  OBVIOUS
<1>0a. PICK b : b = Up!Whole(Up!Made(s))
  OBVIOUS
<1>0b. PICK n : n = Up!With(s.names, s.of, b)
  OBVIOUS
<1>0c. PICK y : y = [s EXCEPT !.names = n]
  OBVIOUS
<1> DEFINE r == Up!Made(s)
<1>1. /\ s.at = "sign"
      /\ task' = [task EXCEPT ![u] = IF y.video THEN [y EXCEPT !.at = "package"] ELSE Up!Onward(y)]
      /\ contested' = IF y.video /\ Up!Rivals(u, r) # {} THEN contested \cup {r} ELSE contested
      /\ UNCHANGED <<status, hls, store, rows, indexed, playlists, given>>
  BY <1>0, <1>0a, <1>0b, <1>0c DEF Up!Sign, Up!At, Up!Moves
<1>2. s \in Task /\ Works(s) /\ Named(s) /\ Writing(s)
  BY <1>0, TaskIs
<1>3. "sign" \in Fresh /\ "sign" \notin Holding /\ "package" \in Holding /\ "package" \notin Fresh
  BY DEF Holding, Fresh
<1>4. r \in Contents /\ (s.video => r \in Up!Renditions) /\ b \in Up!Blobs /\ Good(b)
  <2>1. r \in Contents /\ (s.video => r \in Up!Renditions)
    BY <1>1, <1>2, <1>3, MadeIs
  <2>2. Good(b)
    BY <1>0a, <1>1, <1>2 DEF Named
  <2> QED
    BY <1>0a, <2>1, <2>2, Contents0
<1>5. s.of \in Artifacts /\ s.of \notin Basics /\ s.of # "original" /\ s.names \in Names
  BY <1>1, <1>2 DEF Task, Works, Basics
<1>6. n \in Names /\ More(n, s.names, s.of, b)
  <2>1. PICK f \in Names, a \in Artifacts : f = s.names /\ a = s.of
    BY <1>5
  <2>2. n = Up!With(f, a, b)
    BY <1>0b, <2>1
  <2>3. n \in Names /\ More(n, f, a, b)
    BY <1>4, <2>2, WithName
  <2> QED
    BY <2>1, <2>3
<1>7. /\ y \in Task /\ y.at = "sign" /\ y.file = s.file /\ y.cover = s.cover /\ y.of = s.of
      /\ y.video = s.video /\ y.names = n /\ y.packaged = s.packaged
      /\ y.seg = s.seg /\ y.writes = s.writes /\ y.blobs = s.blobs
  BY <1>0c, <1>1, <1>2, <1>6 DEF Task
<1>8. Up!Made(y) = r
  BY <1>7 DEF Up!Made
<1>9. \A a : Makes(y, a) = Makes(s, a)
  BY <1>7 DEF Makes
<1>10. Makes(s, s.of) = r
  BY MadeMakes
<1>11. Named(y) /\ s.of \in DOMAIN y.names
  <2>1. \A a \in DOMAIN n : n[a] = Up!Whole(Makes(y, a)) /\ Good(n[a])
    BY <1>0a, <1>2, <1>4, <1>6, <1>9, <1>10 DEF Named, More
  <2>2. \A a \in DOMAIN s.packaged : a \in DOMAIN n /\ Plays(Makes(y, a), s.packaged[a])
    BY <1>2, <1>6, <1>9 DEF Named, More
  <2> QED
    BY <1>0a, <1>3, <1>4, <1>5, <1>6, <1>7, <1>8, <2>1, <2>2 DEF Named, More
<1>12. y.file \in Files \ Matches /\ OfPlan(y)
  BY <1>1, <1>2, <1>3, <1>7 DEF Works, OfPlan
<1>13. CASE ~y.video
  <2>1. /\ task' = [task EXCEPT ![u] = Up!Onward(y)]
        /\ UNCHANGED <<status, hls, store, rows, indexed, playlists, given, contested>>
    BY <1>1, <1>13
  <2> QED
    BY <1>0, <1>1, <1>3, <1>7, <1>11, <1>12, <2>1, GoesOnward
<1>14. CASE y.video
  <2>a. PICK t : t = [y EXCEPT !.at = "package"]
    OBVIOUS
  <2>1. task' = [task EXCEPT ![u] = t]
    BY <1>1, <1>14, <2>a
  <2>2. /\ t \in Task /\ t.at = "package" /\ t.file = y.file /\ t.cover = y.cover /\ t.of = y.of
        /\ t.video = y.video /\ t.names = y.names /\ t.packaged = y.packaged
        /\ t.seg = y.seg /\ t.writes = y.writes /\ t.blobs = y.blobs
    BY <1>3, <1>7, <2>a DEF Task
  <2>3. Up!Made(t) = r
    BY <1>7, <2>2 DEF Up!Made
  <2>4. Works(t)
    BY <1>1, <1>2, <1>3, <1>7, <1>14, <2>2 DEF Works
  <2>5. contested \subseteq contested'
    BY <1>1
  <2>6. Grows
    BY <1>1, <2>5, GoodKept
  <2>7. DiskTyped'
    <3>1. contested' \in SUBSET Up!Renditions
      BY <1>1, <1>4, <1>7, <1>14 DEF UpInv, DiskTyped
    <3> QED
      BY <1>1, <3>1 DEF UpInv, DiskTyped
  <2>8. Up!StoreIsSound'
    <3>1. \A x : (Up!Torn(x) => Up!Torn(x)') /\ (Up!Unasked(x) => Up!Unasked(x)')
      BY <1>1, <2>5 DEF Up!Torn, Up!Unasked
    <3> QED
      BY <1>1, <3>1 DEF UpInv, Up!StoreIsSound
  <2>9. Named(t)'
    <3>1. \A a : Makes(t, a) = Makes(y, a)
      BY <2>2 DEF Makes
    <3>2. Named(t)
      BY <1>5, <1>7, <1>11, <2>2, <3>1 DEF Named
    <3> QED
      BY <2>6, <3>2, NamedKept
  <2>10. Writing(t)'
    <3>1. t.seg = 0 /\ t.writes = Up!NoFile
      BY <1>1, <1>2, <1>3, <1>7, <2>2 DEF Works
    <3>2. Len(SegmentsOf[r]) \in Nat
      BY <1>4, <1>7, <1>14, SegmentsAre
    <3> QED
      BY <2>2, <2>3, <3>1, <3>2 DEF Writing
  <2>11. task'[u] = t /\ \A v \in Uploads \ {u} : task'[v] = task[v]
    BY <2>1 DEF UpInv, TasksTyped
  <2>12. Alone'
    <3>1. ASSUME NEW v \in Uploads \ {u}, task[v].at \in Holding, Up!Made(task[v]) = r
          PROVE  r \in contested'
      <4>1. v \in Up!Rivals(u, r)
        BY <3>1 DEF Up!Rivals, Holding
      <4> QED
        BY <1>1, <1>14, <4>1
    <3>2. ASSUME NEW v \in Uploads, NEW w \in Uploads, v # w, task'[v].at \in Holding,
                 task'[w].at \in Holding, Up!Made(task'[v]) = Up!Made(task'[w])
          PROVE  Up!Made(task'[v]) \in contested'
      <4>1. CASE v = u
        BY <2>3, <2>11, <3>1, <3>2, <4>1
      <4>2. CASE w = u
        BY <2>3, <2>11, <3>1, <3>2, <4>2
      <4>3. CASE v # u /\ w # u
        BY <2>5, <2>11, <3>2, <4>3 DEF UpInv, Alone
      <4> QED
        BY <4>1, <4>2, <4>3
    <3>3. \A x : Up!Made(x)' = Up!Made(x)
      BY DEF Up!Made
    <3> QED
      BY <3>2 DEF Alone
  <2> QED
    BY <1>0, <1>1, <1>3, <2>1, <2>2, <2>4, <2>6, <2>7, <2>8, <2>9, <2>10, <2>12, OneMoves
<1> QED
  BY <1>13, <1>14

\* What is published stays so.
LEMMA PublishedKept ==
  ASSUME UpInv, Grows, NEW v \in Uploads, task'[v].at = task[v].at, status'[v] = status[v],
         indexed'[v] = indexed[v], playlists'[v] = playlists[v], given \subseteq given'
  PROVE  PublishedBy(v)'
<1>1. PublishedBy(v)
  BY DEF UpInv
<1> QED
  BY <1>1, PlaysKept DEF PublishedBy, Grows

\* A task whose segment is moved from under it goes on writing where the file is now.
LEMMA Followed ==
  ASSUME Grows, NEW d \in Task, Works(d), Named(d), Writing(d), NEW e,
         NEW r \in Up!Renditions, NEW k, d.writes = <<"segment", r, k>>,
         d.at \in Holding => (Up!Made(d) = r => r \in contested),
         NEW b \in Up!Blobs, b.of = SegmentsOf[r][k], e = [d EXCEPT !.writes = <<"blob", b>>]
  PROVE  e \in Task /\ Works(e) /\ Named(e)' /\ Writing(e)' /\ e.at = d.at /\ Up!Made(e) = Up!Made(d)
<1>1. d.writes # Up!NoFile
  BY DEF Up!NoFile
<1>2. d.at = "package" /\ d.at \in Holding
  BY <1>1 DEF Works, Holding
<1>3. Up!Made(d) = r /\ d.seg = k /\ d.seg > 0 /\ d.seg <= Len(SegmentsOf[r])
  BY <1>1, <1>2 DEF Writing
<1>4. r \in contested
  BY <1>2, <1>3
<1>5. PICK w \in Writes : w = <<"blob", b>> /\ e = [d EXCEPT !.writes = w]
  BY DEF Writes
<1>6. /\ e \in Task /\ e.at = "package" /\ e.file = d.file /\ e.cover = d.cover /\ e.of = d.of
      /\ e.video = d.video /\ e.names = d.names /\ e.packaged = d.packaged
      /\ e.seg = d.seg /\ e.writes = w /\ e.blobs = d.blobs
  BY <1>2, <1>5 DEF Task
<1>7. Up!Made(e) = r
  BY <1>3, <1>6 DEF Up!Made
<1>8. Works(e)
  BY <1>2, <1>6, <1>7, <1>3 DEF Works
<1>9. Named(e)'
  <2>1. Named(e)
    BY <1>2, <1>6, NamedAs
  <2> QED
    BY <2>1, NamedKept
<1>10. Writing(e)'
  <2>1. r \in contested'
    BY <1>4 DEF Grows
  <2>2. \E x \in Up!Blobs : x.of = SegmentsOf[r][e.seg] /\ e.writes = <<"blob", x>>
    BY <1>3, <1>5, <1>6
  <2> QED
    BY <1>3, <1>6, <1>7, <2>1, <2>2 DEF Writing
<1> QED
  BY <1>2, <1>3, <1>6, <1>7, <1>8, <1>9, <1>10

\* What task s has moved, whole, and what it has still to move, the segment in hand first.
Midway(s, k, h) ==
  LET r == Up!Made(s)
      S == SegmentsOf[r]
      n == Len(s.blobs) IN
  /\ n + Len(s.found) = Len(S)
  /\ \A j \in 1..Len(s.found) : s.found[j] = n + j /\ hls[r][n + j] = Up!Whole(S[n + j])
  /\ \A j \in 1..n : s.blobs[j] = Up!Whole(S[j]) /\ Good(s.blobs[j])
  /\ k = n + 1 /\ h = Up!Whole(S[k])

\* The segment in hand.
LEMMA InHand ==
  ASSUME UpInv, NEW u \in Uploads, NEW s, s = task[u], s.at = "commit", NEW r, r = Up!Made(s),
         NEW k, k = Head(s.found), NEW h, h = s.hashed, NEW c, c = hls[r][k]
  PROVE  /\ s \in Task /\ Works(s) /\ Named(s) /\ s.at \in Holding
         /\ r \in Up!Renditions /\ Len(SegmentsOf[r]) \in Nat
         /\ DOMAIN SegmentsOf[r] = 1..Len(SegmentsOf[r])
         /\ Len(s.found) > 0 /\ Len(s.found) \in Nat /\ k \in 1..Len(SegmentsOf[r])
         /\ Tail(s.found) \in Seq(1..Len(SegmentsOf[r]))
         /\ Len(Tail(s.found)) = Len(s.found) - 1
         /\ \A j \in 1..Len(Tail(s.found)) : Tail(s.found)[j] = s.found[j + 1]
         /\ h \in Up!Blobs /\ h.of = SegmentsOf[r][k] /\ Up!Unasked(h)
         /\ s.blobs \in Seq(Up!Blobs) /\ Len(s.blobs) \in Nat
         /\ r \notin contested => Midway(s, k, h)
         /\ c # Up!Absent => c \in Up!Blobs /\ (c = h \/ Up!Torn(h))
<1> DEFINE S == SegmentsOf[r]
           n == Len(s.blobs)
<1>1. s.at = "commit"
  OBVIOUS
<1>2. s \in Task /\ Works(s) /\ Named(s) /\ Writing(s)
  BY TaskIs
<1>3. "commit" \in Holding /\ "hash" \in Holding
  BY DEF Holding
<1>4. r \in Up!Renditions /\ Len(S) \in Nat /\ DOMAIN S = 1..Len(S)
  BY <1>1, <1>2, <1>3, MadeIs, SegmentsAre
<1>5. /\ s.found \in Seq(1..Len(S)) /\ Len(s.found) > 0 /\ Len(s.found) \in Nat
      /\ k \in 1..Len(S) /\ k = s.found[1] /\ k \in DOMAIN S
  <2>1. s.found \in Seq(1..Len(S)) /\ s.found # <<>>
    BY <1>1, <1>2 DEF Writing, Works
  <2> QED
    BY <1>4, <2>1, HeadTailProperties, LenProperties, EmptySeq
<1>5a. /\ Tail(s.found) \in Seq(1..Len(S)) /\ Len(Tail(s.found)) = Len(s.found) - 1
       /\ \A j \in 1..Len(Tail(s.found)) : Tail(s.found)[j] = s.found[j + 1]
  <2>1. s.found \in Seq(1..Len(S)) /\ s.found # <<>>
    BY <1>1, <1>2 DEF Writing, Works
  <2>2. PICK z \in Seq(1..Len(S)) : z = s.found /\ z # <<>>
    BY <2>1
  <2>3. /\ Tail(z) \in Seq(1..Len(S)) /\ Len(Tail(z)) = Len(z) - 1
        /\ \A j \in 1..Len(Tail(z)) : Tail(z)[j] = z[j + 1]
    BY <2>2, HeadTailProperties
  <2> QED
    BY <2>2, <2>3
<1>6. S[k] \in Contents /\ S[k] \in Up!ToSet(S)
  BY <1>4, <1>5, SegmentsAre DEF Up!ToSet
<1>7. h \in {Up!Cut(S[k]), Up!Whole(S[k])} /\ h \in Up!Blobs /\ h.of = S[k]
  <2>1. h \in {Up!Cut(S[k]), Up!Whole(S[k])}
    BY <1>1, <1>2 DEF Writing
  <2> QED
    BY <1>6, <2>1, Contents0
<1>8. c \in {Up!Absent, Up!Cut(S[k]), Up!Whole(S[k])}
  BY <1>4, <1>5 DEF UpInv, DiskTyped
<1>9. s.blobs \in Seq(Up!Blobs) /\ n \in Nat
  BY <1>2, LenProperties DEF Task
<1>10. r \notin contested =>
         /\ n + Len(s.found) = Len(S)
         /\ \A j \in 1..Len(s.found) : s.found[j] = n + j /\ hls[r][n + j] = Up!Whole(S[n + j])
         /\ \A j \in 1..n : s.blobs[j] = Up!Whole(S[j]) /\ Good(s.blobs[j])
         /\ h = Up!Whole(S[n + 1])
  BY <1>1, <1>2 DEF Writing
<1>11. r \notin contested => k = n + 1 /\ h = Up!Whole(S[k]) /\ c = h
  <2>1. 1 \in 1..Len(s.found)
    BY <1>5
  <2> QED
    BY <1>5, <1>10, <2>1
<1>12. r \in contested => Up!Torn(h)
  BY <1>6, <1>7 DEF Up!Torn
<1>13. c # Up!Absent => c \in Up!Blobs /\ (c = h \/ Up!Torn(h))
  BY <1>6, <1>8, <1>11, <1>12, Contents0
<1>14. Up!Unasked(h)
  <2>1. store[Up!Whole(r)] # Up!Absent
    BY <1>1, <1>3, RenditionStored
  <2> QED
    BY <1>4, <1>6, <1>7, <2>1 DEF Up!Unasked
<1> QED
  BY <1>1, <1>2, <1>3, <1>4, <1>5, <1>5a, <1>7, <1>9, <1>10, <1>11, <1>13, <1>14 DEF Midway

\* It is moved, and its row is marked or is not.
LEMMA SegmentStored ==
  ASSUME UpInv, NEW u \in Uploads, NEW s, s = task[u], s.at = "commit", NEW r, r = Up!Made(s),
         NEW k, k = Head(s.found), NEW h, h = s.hashed,
         store[h] = Up!Absent => hls[r][k] # Up!Absent,
         Up!Commit(h, hls[r][k]),
         hls' = IF store[h] = Up!Absent THEN [hls EXCEPT ![r][k] = Up!Absent] ELSE hls,
         Up!Record(h) \/ rows' \in Up!Unmarked(h), UNCHANGED contested
  PROVE  /\ Grows /\ DiskTyped' /\ Up!StoreIsSound' /\ (Up!Record(h) => Good(h)')
         /\ \A q \in Up!Renditions \ {r} : hls'[q] = hls[q]
         /\ \A j \in DOMAIN SegmentsOf[r] \ {k} : hls'[r][j] = hls[r][j]
<1> DEFINE S == SegmentsOf[r]
<1>0. PICK c : c = hls[r][k]
  OBVIOUS
<1>1. /\ store[h] = Up!Absent => c # Up!Absent
      /\ Up!Commit(h, c)
      /\ hls' = IF store[h] = Up!Absent THEN [hls EXCEPT ![r][k] = Up!Absent] ELSE hls
  BY <1>0
<1>2. /\ r \in Up!Renditions /\ DOMAIN S = 1..Len(S) /\ k \in 1..Len(S)
      /\ h \in Up!Blobs /\ Up!Unasked(h)
      /\ c # Up!Absent => c \in Up!Blobs /\ (c = h \/ Up!Torn(h))
  BY <1>0, InHand
<1>3. /\ Grows /\ Up!StoreIsSound' /\ (Up!Record(h) => Good(h)')
      /\ store' \in [Up!Blobs -> Up!Blobs \cup {Up!Absent}]
      /\ rows' \in [Up!Blobs -> {None, "unchecked", "clear", "match"}]
  BY <1>1, <1>2, Stored
<1>4. /\ DOMAIN hls' = Up!Renditions /\ \A q \in Up!Renditions \ {r} : hls'[q] = hls[q]
      /\ DOMAIN hls'[r] = DOMAIN S
      /\ \A j \in DOMAIN S : IF j = k THEN hls'[r][j] \in {Up!Absent, hls[r][j]} ELSE hls'[r][j] = hls[r][j]
  <2>1. /\ DOMAIN hls = Up!Renditions /\ DOMAIN hls[r] = DOMAIN S
    BY <1>2 DEF UpInv, DiskTyped
  <2>2. CASE store[h] = Up!Absent
    <3>1. hls' = [hls EXCEPT ![r][k] = Up!Absent]
      BY <1>1, <2>2
    <3> QED
      BY <1>2, <2>1, <3>1
  <2>3. CASE store[h] # Up!Absent
    BY <1>1, <2>1, <2>3
  <2> QED
    BY <2>2, <2>3
<1>5. DiskTyped'
  <2>1. \A q \in Up!Renditions : /\ DOMAIN hls'[q] = DOMAIN SegmentsOf[q]
                                 /\ \A j \in DOMAIN SegmentsOf[q] : hls'[q][j] \in
                                   {Up!Absent, Up!Cut(SegmentsOf[q][j]), Up!Whole(SegmentsOf[q][j])}
    <3>1. ASSUME NEW q \in Up!Renditions, q # r
          PROVE  /\ DOMAIN hls'[q] = DOMAIN SegmentsOf[q]
                 /\ \A j \in DOMAIN SegmentsOf[q] : hls'[q][j] \in
                                   {Up!Absent, Up!Cut(SegmentsOf[q][j]), Up!Whole(SegmentsOf[q][j])}
      BY <1>4, <3>1 DEF UpInv, DiskTyped
    <3>2. \A j \in DOMAIN S : hls[r][j] \in {Up!Absent, Up!Cut(S[j]), Up!Whole(S[j])}
      BY <1>2 DEF UpInv, DiskTyped
    <3>3. \A j \in DOMAIN S : hls'[r][j] \in {Up!Absent, Up!Cut(S[j]), Up!Whole(S[j])}
      BY <1>4, <3>2
    <3> QED
      BY <1>4, <3>1, <3>3
  <2> QED
    BY <1>3, <1>4, <2>1 DEF UpInv, DiskTyped
<1> QED
  BY <1>3, <1>4, <1>5

\* ... and the task goes on as t: others that write the file follow it.
LEMMA SegmentMoves ==
  ASSUME UpInv, Grows, DiskTyped', Up!StoreIsSound', NEW u \in Uploads, NEW t \in Task,
         task[u].at = "commit", Up!MoveSegment(u, t), t.at \in Fresh \cup Holding,
         UNCHANGED <<status, indexed, playlists, given, contested>>,
         \A q \in Up!Renditions \ {Up!Made(task[u])} : hls'[q] = hls[q],
         t.at \in Holding => Up!Made(t) = Up!Made(task[u]),
         Works(t), Named(t)', Writing(t)'
  PROVE  UpInv'
<1>0. PICK s, r, k, h : s = task[u] /\ r = Up!Made(s) /\ k = Head(s.found) /\ h = s.hashed
  OBVIOUS
<1> DEFINE S == SegmentsOf[r]
<1>1. /\ s.at = "commit" /\ s.at \in Holding
      /\ task' = [(IF store[h] = Up!Absent THEN Up!Follow(r, k, h) ELSE task) EXCEPT ![u] = t]
  BY <1>0 DEF Up!MoveSegment, Holding
<1>2. r \in Up!Renditions /\ h \in Up!Blobs /\ h.of = S[k]
  <2>1. PICK c : c = hls[r][k]
    OBVIOUS
  <2> QED
    BY <1>0, <1>1, <2>1, InHand
<1>3. ASSUME NEW v \in Uploads \ {u}
       PROVE  \/ task'[v] = task[v]
              \/ /\ task[v].writes = <<"segment", r, k>>
                 /\ task'[v] = [task[v] EXCEPT !.writes = <<"blob", h>>]
  BY <1>1 DEF UpInv, TasksTyped, Up!Follow
<1>4. task'[u] = t
  BY <1>1 DEF UpInv, TasksTyped, Up!Follow
<1>5. \A v \in Uploads \ {u} : task[v].at \in Holding =>
           Up!Made(task[v]) \in contested' \/ hls'[Up!Made(task[v])] = hls[Up!Made(task[v])]
  BY <1>0, <1>1, Apart
<1>6. ASSUME NEW v \in Uploads \ {u}
       PROVE  /\ task'[v] \in Task /\ TaskHolds(v)' /\ task'[v].at = task[v].at
              /\ Up!Made(task'[v]) = Up!Made(task[v])
  <2>1. CASE task'[v] = task[v]
    <3>1. TaskHolds(v)'
      BY <1>5, <2>1, Rests
    <3>2. task[v] \in Task
      BY TaskIs
    <3> QED
      BY <2>1, <3>1, <3>2
  <2>2. CASE /\ task[v].writes = <<"segment", r, k>>
             /\ task'[v] = [task[v] EXCEPT !.writes = <<"blob", h>>]
    <3>1. PICK d, e : d = task[v] /\ e = task'[v]
      OBVIOUS
    <3>2. d \in Task /\ Works(d) /\ Named(d) /\ Writing(d)
      BY <3>1, TaskIs
    <3>3. d.at \in Holding => (Up!Made(d) = r => r \in contested)
      BY <1>0, <1>1, <3>1 DEF UpInv, Alone
    <3>4. /\ e \in Task /\ Works(e) /\ Named(e)' /\ Writing(e)' /\ e.at = d.at
          /\ Up!Made(e) = Up!Made(d)
      BY <1>2, <2>2, <3>1, <3>2, <3>3, Followed
    <3>5. TaskHolds(v)'
      <4>1. Works(task'[v]) /\ Named(task[v])' /\ Writing(task[v])'
        BY <3>1, <3>4
      <4> QED
        BY <4>1 DEF TaskHolds
    <3> QED
      BY <3>1, <3>4, <3>5
  <2> QED
    BY <1>3, <2>1, <2>2
<1>7. TaskHolds(u)'
  <2>1. Works(task'[u]) /\ Named(task[u])' /\ Writing(task[u])'
    BY <1>4
  <2> QED
    BY <2>1 DEF TaskHolds
<1>8. TasksTyped'
  <2>1. DOMAIN task' = Uploads
    BY <1>1 DEF UpInv, TasksTyped, Up!Follow
  <2>2. task' = [v \in Uploads |-> task'[v]]
    BY <1>1 DEF UpInv, TasksTyped, Up!Follow
  <2>3. \A v \in Uploads : task'[v] \in Task
    BY <1>4, <1>6
  <2>4. task' \in [Uploads -> Task]
    BY <2>2, <2>3
  <2> QED
    BY <1>1, <2>4 DEF UpInv, TasksTyped
<1>9. Alone'
  <2>1. \A v \in Uploads : task'[v].at \in Holding =>
           task[v].at \in Holding /\ Up!Made(task'[v]) = Up!Made(task[v])
    BY <1>0, <1>1, <1>4, <1>6
  <2> QED
    BY <2>1, AloneKept DEF UpInv
<1>10. ASSUME NEW v \in Uploads PROVE PublishedBy(v)'
  <2>1. CASE v # u
    BY <1>6, <2>1, PublishedKept
  <2>2. CASE v = u
    <3>1. PublishedBy(u)
      BY DEF UpInv
    <3>2. status[u] = "processing"
      BY <1>0, <1>1, <3>1 DEF PublishedBy
    <3>3. t.at # "dead"
      BY DEF Fresh, Holding
    <3> QED
      BY <1>4, <2>2, <3>2, <3>3 DEF PublishedBy
  <2> QED
    BY <2>1, <2>2
<1> QED
  BY <1>6, <1>7, <1>8, <1>9, <1>10 DEF UpInv

LEMMA CommitSegmentStep == ASSUME UpInv, NEW u \in Uploads, Up!CommitSegment(u) PROVE UpInv'
<1>0. PICK s : s = task[u]
  OBVIOUS
<1>a. PICK r, k : r = Up!Made(s) /\ k = Head(s.found)
  OBVIOUS
<1>b. PICK h : h = s.hashed
  OBVIOUS
<1>c. PICK c : c = hls[r][k]
  OBVIOUS
<1> DEFINE S == SegmentsOf[r]
           n == Len(s.blobs)
<1>d. PICK t : t = [s EXCEPT !.at = "hash", !.found = Tail(@), !.blobs = Append(@, h),
                             !.hashed = Up!Absent]
  OBVIOUS
<1>1. /\ s.at = "commit" /\ Up!MoveSegment(u, t) /\ Up!Record(h)
      /\ UNCHANGED <<status, indexed, playlists, given, contested>>
  BY <1>0, <1>b, <1>d DEF Up!CommitSegment, Up!At
<1>2. /\ s \in Task /\ Works(s) /\ Named(s)
      /\ r \in Up!Renditions /\ Len(S) \in Nat /\ DOMAIN S = 1..Len(S)
  BY <1>0, <1>a, <1>b, <1>c, <1>1, InHand
<1>3. "commit" \in Holding /\ "hash" \in Holding
  BY DEF Holding
<1>4. /\ Len(s.found) > 0 /\ Len(s.found) \in Nat /\ k \in 1..Len(S)
      /\ h \in Up!Blobs /\ h.of = S[k] /\ s.blobs \in Seq(Up!Blobs) /\ n \in Nat
  BY <1>0, <1>a, <1>b, <1>c, <1>1, InHand
<1>5. /\ Tail(s.found) \in Seq(1..Len(S)) /\ Len(Tail(s.found)) = Len(s.found) - 1
      /\ \A j \in 1..Len(Tail(s.found)) : Tail(s.found)[j] = s.found[j + 1]
  BY <1>0, <1>a, <1>b, <1>c, <1>1, InHand
<1>6. /\ Grows /\ DiskTyped' /\ Up!StoreIsSound' /\ Good(h)'
      /\ \A q \in Up!Renditions \ {r} : hls'[q] = hls[q]
      /\ \A j \in DOMAIN S \ {k} : hls'[r][j] = hls[r][j]
  BY <1>0, <1>a, <1>b, <1>1, SegmentStored DEF Up!MoveSegment
<1>7. r \notin contested =>
        /\ n + Len(s.found) = Len(S)
        /\ \A j \in 1..Len(s.found) : s.found[j] = n + j /\ hls[r][n + j] = Up!Whole(S[n + j])
        /\ \A j \in 1..n : s.blobs[j] = Up!Whole(S[j]) /\ Good(s.blobs[j])
        /\ k = n + 1 /\ h = Up!Whole(S[k])
  <2>1. r \notin contested => Midway(s, k, h)
    BY <1>0, <1>a, <1>b, <1>c, <1>1, InHand
  <2> QED
    BY <1>a, <2>1 DEF Midway
<1>8. /\ t \in Task /\ t.at = "hash" /\ t.file = s.file /\ t.cover = s.cover /\ t.of = s.of
       /\ t.video = s.video /\ t.names = s.names /\ t.packaged = s.packaged
       /\ t.seg = s.seg /\ t.writes = s.writes /\ t.found = Tail(s.found) /\ t.blobs = Append(s.blobs, h)
  <2>1. PICK f : f = Tail(s.found)
    OBVIOUS
  <2>2. PICK b : b = Append(s.blobs, h)
    OBVIOUS
  <2>3. f \in Seq(1..Len(S)) /\ f \in Seq(Nat) /\ b \in Seq(Up!Blobs)
    <3>1. f \in Seq(1..Len(S))
      BY <1>5, <2>1
    <3>2. 1..Len(S) \subseteq Nat
      BY <1>2
    <3>3. b \in Seq(Up!Blobs)
      BY <1>4, <2>2, AppendProperties
    <3> QED
      BY <3>1, <3>2, <3>3
  <2>4. t = [s EXCEPT !.at = "hash", !.found = f, !.blobs = b, !.hashed = Up!Absent]
    BY <1>d, <2>1, <2>2
  <2>5. /\ t \in Task /\ t.at = "hash" /\ t.file = s.file /\ t.cover = s.cover /\ t.of = s.of
        /\ t.video = s.video /\ t.names = s.names /\ t.packaged = s.packaged
        /\ t.seg = s.seg /\ t.writes = s.writes /\ t.found = f /\ t.blobs = b
    BY <1>2, <1>3, <2>3, <2>4 DEF Task
  <2> QED
    BY <2>1, <2>2, <2>5
<1>9. Up!Made(t) = r
  BY <1>a, <1>8 DEF Up!Made
<1>10. Works(t)
  BY <1>1, <1>2, <1>3, <1>8 DEF Works
<1>11. Named(t)'
  <2>1. Named(t)
    BY <1>1, <1>2, <1>3, <1>8, NamedAs
  <2> QED
    BY <1>6, <2>1, NamedKept
<1>12. Writing(t)'
  <2>1. /\ t.found \in Seq(1..Len(S)) /\ Len(t.found) = Len(s.found) - 1
        /\ \A j \in 1..Len(t.found) : t.found[j] = s.found[j + 1]
    BY <1>5, <1>8
  <2>2. /\ Len(t.blobs) = n + 1 /\ t.blobs[n + 1] = h
        /\ \A j \in 1..n : t.blobs[j] = s.blobs[j]
    BY <1>4, <1>8, AppendProperties
  <2>3. ASSUME r \notin contested
        PROVE  /\ Len(t.blobs) + Len(t.found) = Len(S)
               /\ \A j \in 1..Len(t.found) :
                    /\ t.found[j] = Len(t.blobs) + j
                    /\ hls'[r][Len(t.blobs) + j] = Up!Whole(S[Len(t.blobs) + j])
               /\ \A j \in 1..Len(t.blobs) : t.blobs[j] = Up!Whole(S[j]) /\ Good(t.blobs[j])'
    <3>1. Len(t.blobs) + Len(t.found) = Len(S)
      <4>1. PICK a, b, l \in Nat : a = Len(s.blobs) /\ b = Len(s.found) /\ l = Len(S)
        BY <1>2, <1>4
      <4>2. a + b = l /\ Len(t.blobs) = a + 1 /\ Len(t.found) = b - 1
        BY <1>7, <2>1, <2>2, <2>3, <4>1
      <4>3. (a + 1) + (b - 1) = l
        BY <4>2
      <4> QED
        BY <4>1, <4>2, <4>3
    <3>2. ASSUME NEW j \in 1..Len(t.found)
          PROVE  /\ t.found[j] = Len(t.blobs) + j
                 /\ hls'[r][Len(t.blobs) + j] = Up!Whole(S[Len(t.blobs) + j])
      <4>1. j + 1 \in 1..Len(s.found) /\ j \in Nat
        BY <1>4, <2>1
      <4>2. n + (j + 1) = (n + 1) + j /\ n + (j + 1) # k /\ n + (j + 1) \in 1..Len(S)
        <5>1. PICK a, b, l \in Nat : a = Len(s.blobs) /\ b = Len(s.found) /\ l = Len(S)
          BY <1>2, <1>4
        <5>a. a + b = l /\ k = a + 1
          BY <1>7, <2>3, <5>1
        <5>b. j + 1 \in 1..b /\ j \in Nat /\ j >= 1
          BY <4>1, <5>1
        <5>2. a + b = l /\ k = a + 1 /\ j + 1 \in 1..b /\ j \in Nat /\ j >= 1
          BY <5>a, <5>b
        <5>3. a + (j + 1) = (a + 1) + j /\ a + (j + 1) # a + 1 /\ a + (j + 1) \in 1..l
          BY <5>2
        <5> QED
          BY <5>1, <5>2, <5>3
      <4>3. hls[r][n + (j + 1)] = Up!Whole(S[n + (j + 1)]) /\ s.found[j + 1] = n + (j + 1)
        BY <1>7, <2>3, <4>1
      <4>4. hls'[r][n + (j + 1)] = Up!Whole(S[n + (j + 1)])
        BY <1>2, <1>6, <4>2, <4>3
      <4> QED
        BY <2>1, <2>2, <4>2, <4>3, <4>4
    <3>3. ASSUME NEW j \in 1..Len(t.blobs) PROVE t.blobs[j] = Up!Whole(S[j]) /\ Good(t.blobs[j])'
      <4>1. CASE j = n + 1
        BY <1>6, <1>7, <2>2, <2>3, <4>1
      <4>2. CASE j \in 1..n
        <5>1. t.blobs[j] = Up!Whole(S[j]) /\ Good(t.blobs[j])
          BY <1>7, <2>2, <2>3, <4>2
        <5> QED
          BY <1>6, <5>1 DEF Grows
      <4>3. j = n + 1 \/ j \in 1..n
        BY <1>4, <2>2
      <4> QED
        BY <4>1, <4>2, <4>3
    <3> QED
      BY <3>1, <3>2, <3>3
  <2> QED
    BY <1>1, <1>8, <1>9, <2>1, <2>3 DEF Writing
<1> QED
  <2>1. Up!Made(task[u]) = r /\ t.at \in Fresh \cup Holding
    BY <1>0, <1>a, <1>3, <1>8
  <2> QED
    BY <1>0, <1>1, <1>6, <1>8, <1>9, <1>10, <1>11, <1>12, <2>1, SegmentMoves

\* It goes on without the rendition's playlist; what it moved stays.
LEMMA CommitFailsStep == ASSUME UpInv, NEW u \in Uploads, Up!CommitFails(u) PROVE UpInv'
<1>0. PICK s, r, k, h : s = task[u] /\ r = Up!Made(s) /\ k = Head(s.found) /\ h = s.hashed
  OBVIOUS
<1>1. /\ s.at = "commit" /\ s.at \in Holding
      /\ UNCHANGED <<status, indexed, playlists, given, contested>>
  BY <1>0 DEF Up!CommitFails, Up!At, Holding
<1>2. s \in Task /\ Works(s) /\ Named(s) /\ s.file \in Files \ Matches /\ OfPlan(s)
  <2>1. s \in Task /\ Works(s) /\ Named(s)
    BY <1>0, TaskIs
  <2> QED
    BY <1>1, <2>1 DEF Works, OfPlan
<1>3. CASE Up!Moves(u, Up!Onward(s)) /\ UNCHANGED <<hls, store, rows>>
  <2>1. task' = [task EXCEPT ![u] = Up!Onward(s)]
    BY <1>3 DEF Up!Moves
  <2> QED
    BY <1>0, <1>1, <1>2, <1>3, <2>1, GoesOnward
<1>4. CASE Up!MoveSegment(u, Up!Onward(s)) /\ rows' \in Up!Unmarked(h)
  <2>0. PICK o : o = Up!Onward(s)
    OBVIOUS
  <2>1. /\ Grows /\ DiskTyped' /\ Up!StoreIsSound'
        /\ \A q \in Up!Renditions \ {r} : hls'[q] = hls[q]
    BY <1>0, <1>1, <1>4, SegmentStored DEF Up!MoveSegment
  <2>2. /\ o \in Task /\ Works(o) /\ o.at \in {"index", "check", "make"}
        /\ o.file = s.file /\ o.cover = s.cover /\ o.names = s.names /\ o.packaged = s.packaged
        /\ o.of = "original" => s.of = "original"
    BY <1>2, <2>0, OnwardGoes
  <2>3. o.at \in Fresh \cup Holding /\ o.at \notin Holding /\ o.at # "sign"
    BY <2>2 DEF Fresh, Holding
  <2>4. Named(o)'
    <3>1. Named(o)
      BY <1>2, <2>2, <2>3, NamedAs
    <3> QED
      BY <2>1, <3>1, NamedKept
  <2>5. Writing(o)'
    BY <2>3 DEF Writing, Holding
  <2> QED
    BY <1>0, <1>1, <1>4, <2>0, <2>1, <2>2, <2>3, <2>4, <2>5, SegmentMoves
<1> QED
  BY <1>0, <1>3, <1>4 DEF Up!CommitFails

-----------------------------------------------------------------------------
(* Its row, and the manifest *)

\* A step that changes the row of an upload, and no segment directory.
LEMMA RowMoves ==
  ASSUME UpInv, NEW u \in Uploads, NEW t \in Task, task' = [task EXCEPT ![u] = t],
         NEW x \in {"none", "processing", "published", "failed"}, status' = [status EXCEPT ![u] = x],
         Grows, DiskTyped', Up!StoreIsSound', UNCHANGED <<hls, contested>>,
         indexed' \in [Uploads -> Names \cup {None}], playlists' \in [Uploads -> Lists],
         \A v \in Uploads \ {u} : indexed'[v] = indexed[v] /\ playlists'[v] = playlists[v],
         given \subseteq given', t.at \notin Holding, Works(t), Named(t), Writing(t), PublishedBy(u)'
  PROVE  UpInv'
<1>1. /\ task'[u] = t
      /\ \A v \in Uploads \ {u} : task'[v] = task[v] /\ status'[v] = status[v]
  BY DEF UpInv, TasksTyped
<1>2. TasksTyped'
  BY DEF UpInv, TasksTyped
<1>3. Alone'
  <2>1. \A v \in Uploads : task'[v].at \in Holding =>
           task[v].at \in Holding /\ Up!Made(task'[v]) = Up!Made(task[v])
    BY <1>1
  <2> QED
    BY <2>1, AloneKept DEF UpInv
<1>4. TaskHolds(u)'
  <2>1. Named(t)' /\ Writing(t)'
    BY NamedKept, WritingKept
  <2>2. Works(task'[u]) /\ Named(task[u])' /\ Writing(task[u])'
    BY <1>1, <2>1
  <2> QED
    BY <2>2 DEF TaskHolds
<1>5. \A v \in Uploads \ {u} : TaskHolds(v)' /\ PublishedBy(v)'
  BY <1>1, Rests
<1> QED
  BY <1>2, <1>3, <1>4, <1>5 DEF UpInv

LEMMA AcceptStep ==
  ASSUME UpInv, NEW u \in Uploads, NEW file \in Files, NEW cover \in Covers, Up!Accept(u, file, cover)
  PROVE  UpInv'
<1>0. PICK t : t = [Up!Idle EXCEPT !.at = "check", !.file = file, !.cover = cover]
  OBVIOUS
<1>1. /\ status[u] = "none" /\ status' = [status EXCEPT ![u] = "processing"]
      /\ task' = [task EXCEPT ![u] = t]
      /\ UNCHANGED <<hls, store, rows, indexed, playlists, given, contested>>
  BY <1>0 DEF Up!Accept, Up!Moves
<1>2. "check" \in Fresh /\ "check" \notin Holding
  BY DEF Fresh, Holding
<1>3. PICK e : e = <<>>
  OBVIOUS
<1>4. e \in Seq(Nat) /\ e \in Seq(Up!Blobs) /\ Up!NoFile \in Writes /\ "original" \in Artifacts
  BY <1>3 DEF Writes, Artifacts, Basics
<1>5. t = [at |-> "check", file |-> file, cover |-> cover, of |-> "original", video |-> TRUE,
           names |-> Up!Nothing, packaged |-> Up!Nothing,
           seg |-> 0, writes |-> Up!NoFile, found |-> e, hashed |-> Up!Absent, blobs |-> e]
  BY <1>0, <1>3 DEF Up!Idle
<1>6. /\ t \in Task /\ t.at = "check" /\ t.file = file /\ t.of = "original" /\ t.names = Up!Nothing
      /\ t.packaged = Up!Nothing /\ t.seg = 0 /\ t.writes = Up!NoFile /\ t.blobs = e
  BY <1>2, <1>4, <1>5, Nothing0 DEF Task
<1>7. Works(t)
  BY <1>2, <1>3, <1>6 DEF Works, Basics
<1>8. Named(t)
  BY <1>2, <1>6, Nothing0 DEF Named
<1>9. Writing(t)
  BY <1>6 DEF Writing
<1>10. PublishedBy(u)'
  <2>1. task'[u] = t /\ status'[u] = "processing"
    BY <1>1 DEF UpInv, TasksTyped
  <2> QED
    BY <1>2, <1>6, <2>1 DEF PublishedBy
<1>11. indexed' \in [Uploads -> Names \cup {None}] /\ playlists' \in [Uploads -> Lists]
  BY <1>1 DEF UpInv, TasksTyped
<1>12. Grows /\ DiskTyped' /\ Up!StoreIsSound'
  BY <1>1, Still
<1> QED
  BY <1>1, <1>2, <1>6, <1>7, <1>8, <1>9, <1>10, <1>11, <1>12, RowMoves

\* The pipeline is over, and the row tells how it ended.
LEMMA Ends ==
  ASSUME UpInv, NEW u \in Uploads, NEW x \in {"published", "failed"},
         task' = [task EXCEPT ![u] = [Up!Idle EXCEPT !.at = "over"]],
         status' = [status EXCEPT ![u] = x],
         Grows, DiskTyped', Up!StoreIsSound', UNCHANGED <<hls, contested>>,
         indexed' \in [Uploads -> Names \cup {None}], playlists' \in [Uploads -> Lists],
         \A v \in Uploads \ {u} : indexed'[v] = indexed[v] /\ playlists'[v] = playlists[v],
         given \subseteq given',
         x = "published" =>
           /\ u \in given' /\ indexed'[u] # None
           /\ \A a \in DOMAIN indexed'[u] : Good(indexed'[u][a])
           /\ \A a \in DOMAIN playlists'[u] :
                a \in DOMAIN indexed'[u] /\ Plays(indexed'[u][a].of, playlists'[u][a])
  PROVE  UpInv'
<1>1. PICK t : t = [Up!Idle EXCEPT !.at = "over"]
  OBVIOUS
<1>2. "over" \in Idling
  BY DEF Idling
<1>3. t \in Task /\ t.at \notin Fresh \cup Holding /\ Works(t) /\ Named(t) /\ Writing(t) /\ t.at = "over"
  BY <1>1, <1>2, IdleHolds
<1>4. task'[u] = t /\ status'[u] = x
  BY <1>1 DEF UpInv, TasksTyped
<1>5. PublishedBy(u)'
  <2>1. x = "published" =>
           /\ u \in given' /\ indexed'[u] # None
           /\ \A a \in DOMAIN indexed'[u] : Good(indexed[u][a])'
           /\ \A a \in DOMAIN playlists'[u] :
                a \in DOMAIN indexed'[u] /\ Plays(indexed[u][a].of, playlists[u][a])'
    BY PlaysKept DEF Grows
  <2> QED
    BY <1>3, <1>4, <2>1 DEF PublishedBy
<1> QED
  BY <1>1, <1>3, <1>5, RowMoves

LEMMA FailSteps ==
  ASSUME UpInv, NEW u \in Uploads, Up!OriginalFails(u) \/ Up!UpdateFails(u) \/ Up!Reject(u)
  PROVE  UpInv'
<1>1. /\ task' = [task EXCEPT ![u] = [Up!Idle EXCEPT !.at = "over"]]
      /\ status' = [status EXCEPT ![u] = "failed"]
      /\ UNCHANGED <<hls, indexed, playlists, given, contested>>
  BY DEF Up!OriginalFails, Up!UpdateFails, Up!Reject, Up!Failed, Up!Moves
<1>2. indexed' \in [Uploads -> Names \cup {None}] /\ playlists' \in [Uploads -> Lists]
  BY <1>1 DEF UpInv, TasksTyped
<1>3. Grows /\ DiskTyped' /\ Up!StoreIsSound'
  <2>1. CASE Up!OriginalFails(u)
    <3>1. Up!StoredPart(u) /\ task[u].at \in Fresh
      BY <2>1 DEF Up!OriginalFails, Fresh
    <3> QED
      BY <1>1, <3>1, PartStored
  <2>2. CASE Up!UpdateFails(u) \/ Up!Reject(u)
    <3>1. UNCHANGED <<store, rows>>
      BY <2>2 DEF Up!UpdateFails, Up!Reject
    <3> QED
      BY <1>1, <3>1, Still
  <2> QED
    BY <2>1, <2>2
<1> QED
  BY <1>1, <1>2, <1>3, Ends

LEMMA PartIs ==
  ASSUME UpInv, NEW u \in Uploads, Up!PublishedPart(u)
  PROVE  /\ indexed' \in [Uploads -> Names \cup {None}] /\ playlists' \in [Uploads -> Lists]
         /\ \A v \in Uploads \ {u} : indexed'[v] = indexed[v] /\ playlists'[v] = playlists[v]
         /\ given \subseteq given'
<1>1. task[u].names \in Names /\ task[u].packaged \in Lists
  BY TaskIs DEF Task
<1> QED
  BY <1>1 DEF UpInv, TasksTyped, Up!PublishedPart

LEMMA PublishStep ==
  ASSUME UpInv, NEW u \in Uploads, Up!Publish(u) \/ Up!PublishFails(u)
  PROVE  UpInv'
<1>1. CASE Up!PublishFails(u)
  <2>1. /\ task' = [task EXCEPT ![u] = [Up!Idle EXCEPT !.at = "over"]]
        /\ status' = [status EXCEPT ![u] = "failed"] /\ Up!PublishedPart(u)
        /\ UNCHANGED <<hls, store, rows, contested>>
    BY <1>1 DEF Up!PublishFails, Up!Failed, Up!Moves
  <2>2. Grows /\ DiskTyped' /\ Up!StoreIsSound'
    BY <2>1, Still
  <2> QED
    BY <2>1, <2>2, PartIs, Ends
<1>2. CASE Up!Publish(u)
  <2>0. PICK s : s = task[u]
    OBVIOUS
  <2>1. /\ task' = [task EXCEPT ![u] = [Up!Idle EXCEPT !.at = "over"]]
        /\ status' = [status EXCEPT ![u] = "published"]
        /\ indexed' = [indexed EXCEPT ![u] = s.names]
        /\ playlists' = [playlists EXCEPT ![u] = s.packaged]
        /\ given' = given \cup {u}
        /\ UNCHANGED <<hls, store, rows, contested>>
    BY <1>2, <2>0 DEF Up!Publish, Up!Moves
  <2>2. s \in Task /\ Named(s)
    BY <2>0, TaskIs
  <2>3. s.names \in Names /\ s.packaged \in Lists
    BY <2>2 DEF Task
  <2>4. /\ indexed' \in [Uploads -> Names \cup {None}] /\ playlists' \in [Uploads -> Lists]
        /\ indexed'[u] = s.names /\ playlists'[u] = s.packaged
        /\ \A v \in Uploads \ {u} : indexed'[v] = indexed[v] /\ playlists'[v] = playlists[v]
    BY <2>1, <2>3 DEF UpInv, TasksTyped
  <2>5. s.names # None
    BY <2>3, NoneIsNoName
  <2>6. \A a \in DOMAIN s.names : Good(s.names[a]) /\ s.names[a].of = Makes(s, a)
    <3>1. ASSUME NEW a \in DOMAIN s.names PROVE Good(s.names[a]) /\ s.names[a].of = Makes(s, a)
      <4>1. s.names[a] = Up!Whole(Makes(s, a)) /\ Good(s.names[a])
        BY <2>2 DEF Named
      <4> QED
        BY <4>1 DEF Up!Whole
    <3> QED
      BY <3>1
  <2>7. \A a \in DOMAIN s.packaged : a \in DOMAIN s.names /\ Plays(s.names[a].of, s.packaged[a])
    BY <2>2, <2>6 DEF Named
  <2>8. Grows /\ DiskTyped' /\ Up!StoreIsSound'
    BY <2>1, Still
  <2> QED
    BY <2>1, <2>4, <2>5, <2>6, <2>7, <2>8, Ends
<1> QED
  BY <1>1, <1>2

LEMMA ServeStep == ASSUME UpInv, NEW b \in Up!Blobs, Up!Serve(b) PROVE UpInv'
<1>1. /\ rows[b] = "unchecked"
      /\ rows' = [rows EXCEPT ![b] =
                   IF store[b].whole /\ store[b].of \in Matches THEN "match" ELSE "clear"]
      /\ UNCHANGED <<status, task, hls, store, indexed, playlists, given, contested>>
  BY DEF Up!Serve
<1>2. /\ rows' \in [Up!Blobs -> {None, "unchecked", "clear", "match"}]
      /\ \A x \in Up!Blobs \ {b} : rows'[x] = rows[x]
  BY <1>1 DEF UpInv, DiskTyped
<1>3. Grows
  <2>1. \A x \in Up!Blobs : rows[x] = "clear" => rows'[x] = "clear"
    BY <1>1, <1>2
  <2> QED
    BY <1>1, <2>1, GoodKept
<1>4. DiskTyped'
  BY <1>1, <1>2 DEF UpInv, DiskTyped
<1>5. Up!StoreIsSound'
  <2>1. \A x : (Up!Torn(x) <=> Up!Torn(x)') /\ (Up!Unasked(x) <=> Up!Unasked(x)')
    BY <1>1 DEF Up!Torn, Up!Unasked
  <2>2. ASSUME NEW x \in Up!Blobs
        PROVE  /\ store'[x] \in {Up!Absent, x} \/ Up!Torn(x)'
               /\ rows'[x] # None => store'[x] # Up!Absent
               /\ x.of \in Matches =>
                    (store'[x] = Up!Absent /\ rows'[x] # "clear") \/ Up!Unasked(x)'
    <3>1. /\ store[x] \in {Up!Absent, x} \/ Up!Torn(x)
          /\ rows[x] # None => store[x] # Up!Absent
          /\ x.of \in Matches => (store[x] = Up!Absent /\ rows[x] # "clear") \/ Up!Unasked(x)
      BY DEF UpInv, Up!StoreIsSound
    <3>2. rows[b] # None
      BY <1>1, UploadAssumption
    <3> QED
      BY <1>1, <1>2, <2>1, <3>1, <3>2
  <2> QED
    BY <2>2 DEF Up!StoreIsSound
<1>6. Alone'
  BY <1>1, <1>3, AloneKept DEF UpInv
<1>7. \A v \in Uploads : TaskHolds(v)' /\ PublishedBy(v)'
  BY <1>1, <1>3, Rests
<1> QED
  BY <1>1, <1>3, <1>4, <1>5, <1>6, <1>7 DEF UpInv, TasksTyped

-----------------------------------------------------------------------------
(* The process stops *)

\* What is left of the tasks when the process stops.
LEMMA Stopped ==
  ASSUME UpInv, Up!Stops, Grows, DiskTyped', Up!StoreIsSound',
         indexed' \in [Uploads -> Names \cup {None}], playlists' \in [Uploads -> Lists],
         \A v \in Uploads : status[v] = "published" =>
           indexed'[v] = indexed[v] /\ playlists'[v] = playlists[v],
         given \subseteq given'
  PROVE  UpInv'
<1>1. /\ task' = [u \in Uploads |-> IF task[u].at \in {"none", "over", "dead"} THEN task[u]
                                  ELSE [Up!Idle EXCEPT !.at = "dead"]]
      /\ UNCHANGED <<status, contested>>
  BY DEF Up!Stops
<1>2. "dead" \in Idling /\ "dead" \notin Fresh \cup Holding
  BY DEF Idling, Fresh, Holding
<1>3. ASSUME NEW v \in Uploads
      PROVE  /\ task'[v] \in Task /\ TaskHolds(v)' /\ PublishedBy(v)'
             /\ task'[v].at \notin Fresh \cup Holding
  <2>1. PublishedBy(v) /\ task[v] \in Task
    BY TaskIs DEF UpInv
  <2>2. CASE task[v].at \in Idling
    <3>1. task'[v] = task[v]
      BY <1>1, <2>2 DEF Idling
    <3>2. task[v].at \notin Fresh \cup Holding
      BY <2>2 DEF Idling, Fresh, Holding
    <3>3. PICK t : t = task[v]
      OBVIOUS
    <3>4. Works(t) /\ Named(t) /\ Writing(t)
      BY <3>3, TaskIs
    <3>5. Named(t)' /\ Writing(t)'
      BY <3>2, <3>3, <3>4, NamedKept, WritingKept
    <3>6. TaskHolds(v)'
      <4>1. Works(task'[v]) /\ Named(task[v])' /\ Writing(task[v])'
        BY <3>1, <3>3, <3>4, <3>5
      <4> QED
        BY <4>1 DEF TaskHolds
    <3>7. PublishedBy(v)'
      BY <1>1, <2>1, <3>1, PlaysKept DEF PublishedBy, Grows
    <3> QED
      BY <2>1, <3>1, <3>2, <3>6, <3>7
  <2>3. CASE task[v].at \notin Idling
    <3>1. PICK t : t = [Up!Idle EXCEPT !.at = "dead"]
      OBVIOUS
    <3>2. task'[v] = t
      BY <1>1, <2>3, <3>1 DEF Idling
    <3>3. t \in Task /\ t.at \notin Fresh \cup Holding /\ Works(t) /\ Named(t) /\ Writing(t) /\ t.at = "dead"
      BY <1>2, <3>1, IdleHolds
    <3>4. Named(t)' /\ Writing(t)'
      BY <3>3, NamedKept, WritingKept
    <3>5. TaskHolds(v)'
      <4>1. Works(task'[v]) /\ Named(task[v])' /\ Writing(task[v])'
        BY <3>2, <3>3, <3>4
      <4> QED
        BY <4>1 DEF TaskHolds
    <3>6. status[v] = "processing"
      <4>1. task[v].at \in Fresh \cup Holding
        BY <2>1, <2>3 DEF Task
      <4> QED
        BY <2>1, <4>1 DEF PublishedBy
    <3>7. PublishedBy(v)'
      BY <1>1, <3>2, <3>3, <3>6 DEF PublishedBy
    <3> QED
      BY <3>2, <3>3, <3>5, <3>7
  <2> QED
    BY <2>2, <2>3
<1>4. TasksTyped'
  <2>1. task' = [v \in Uploads |-> task'[v]]
    BY <1>1
  <2>2. \A v \in Uploads : task'[v] \in Task
    BY <1>3
  <2>3. task' \in [Uploads -> Task]
    BY <2>1, <2>2
  <2> QED
    BY <1>1, <2>3 DEF UpInv, TasksTyped
<1>5. Alone'
  <2>1. \A v \in Uploads : task'[v].at \notin Holding
    BY <1>3
  <2> QED
    BY <2>1, AloneKept DEF UpInv
<1> QED
  BY <1>3, <1>4, <1>5 DEF UpInv

LEMMA CrashSteps ==
  ASSUME UpInv, NEW u \in Uploads, Up!Crash \/ Up!CrashStoring(u) \/ Up!CrashPublishing(u)
  PROVE  UpInv'
<1>1. Up!Stops /\ UNCHANGED <<status, contested>>
  BY DEF Up!Crash, Up!CrashStoring, Up!CrashPublishing, Up!Stops
<1>2. indexed \in [Uploads -> Names \cup {None}] /\ playlists \in [Uploads -> Lists]
  BY DEF UpInv, TasksTyped
<1>3. CASE Up!Crash
  <2>1. UNCHANGED <<hls, store, rows, indexed, playlists, given>>
    BY <1>3 DEF Up!Crash
  <2> QED
    BY <1>1, <1>2, <2>1, Still, Stopped
<1>4. CASE Up!CrashPublishing(u)
  <2>1. /\ UNCHANGED <<hls, store, rows>> /\ Up!PublishedPart(u) /\ task[u].at = "index"
    BY <1>4 DEF Up!CrashPublishing, Up!At
  <2>2. status[u] # "published"
    <3>1. PublishedBy(u) /\ "index" \in Fresh
      BY DEF UpInv, Fresh
    <3> QED
      BY <2>1, <3>1 DEF PublishedBy
  <2>3. /\ indexed' \in [Uploads -> Names \cup {None}] /\ playlists' \in [Uploads -> Lists]
        /\ \A v \in Uploads \ {u} : indexed'[v] = indexed[v] /\ playlists'[v] = playlists[v]
        /\ given \subseteq given'
    BY <2>1, PartIs
  <2>4. Grows /\ DiskTyped' /\ Up!StoreIsSound'
    BY <1>1, <2>1, Still
  <2> QED
    BY <1>1, <2>2, <2>3, <2>4, Stopped
<1>5. CASE Up!CrashStoring(u)
  <2>0. PICK s, r, k, h : s = task[u] /\ r = Up!Made(s) /\ k = Head(s.found) /\ h = s.hashed
    OBVIOUS
  <2>1. UNCHANGED <<indexed, playlists, given>>
    BY <1>5 DEF Up!CrashStoring
  <2>2. Grows /\ DiskTyped' /\ Up!StoreIsSound'
    <3>1. CASE task[u].at = "store" /\ Up!StoredPart(u) /\ UNCHANGED hls
      <4>1. "store" \in Fresh
        BY DEF Fresh
      <4> QED
        BY <1>1, <3>1, <4>1, PartStored
    <3>2. CASE /\ s.at = "commit" /\ store[h] = Up!Absent /\ hls[r][k] # Up!Absent
               /\ Up!Commit(h, hls[r][k]) /\ rows' \in Up!Unmarked(h)
               /\ hls' = [hls EXCEPT ![r][k] = Up!Absent]
      BY <1>1, <2>0, <3>2, SegmentStored
    <3> QED
      BY <1>5, <2>0, <3>1, <3>2 DEF Up!CrashStoring, Up!At
  <2> QED
    BY <1>1, <1>2, <2>1, <2>2, Stopped
<1> QED
  BY <1>3, <1>4, <1>5

-----------------------------------------------------------------------------
(* The theorems about uploads *)

LEMMA UploadSteps == ASSUME UpInv, Up!Next PROVE UpInv'
<1>1. ASSUME NEW u \in Uploads, Up!Step(u) PROVE UpInv'
  <2>1. CASE Up!OriginalFails(u) \/ Up!UpdateFails(u) \/ Up!Reject(u)
    BY <2>1, FailSteps
  <2>2. CASE Up!Make(u)
    BY <2>2, MakeStep
  <2>3. CASE Up!MakeFails(u) \/ Up!Skip(u) \/ Up!Drop(u)
    BY <2>3, OnwardSteps
  <2>4. CASE Up!CheckPasses(u)
    BY <2>4, CheckPassesStep
  <2>5. CASE Up!Store(u)
    BY <2>5, StoreStep
  <2>6. CASE Up!Probe(u)
    BY <2>6, ProbeStep
  <2>7. CASE Up!Sign(u)
    BY <2>7, SignStep
  <2>8. CASE Up!OpenSegment(u)
    BY <2>8, OpenSegmentStep
  <2>9. CASE Up!CloseSegment(u)
    BY <2>9, CloseSegmentStep
  <2>10. CASE Up!ReadDirectory(u)
    BY <2>10, ReadDirectoryStep
  <2>11. CASE Up!HashSegment(u)
    BY <2>11, HashSegmentStep
  <2>12. CASE Up!CommitSegment(u)
    BY <2>12, CommitSegmentStep
  <2>13. CASE Up!Packaged(u)
    BY <2>13, PackagedStep
  <2>14. CASE Up!Publish(u) \/ Up!PublishFails(u)
    BY <2>14, PublishStep
  <2>15. CASE Up!CommitFails(u)
    BY <2>15, CommitFailsStep
  <2> QED
    BY <1>1, <2>1, <2>2, <2>3, <2>4, <2>5, <2>6, <2>7, <2>8, <2>9, <2>10, <2>11, <2>12, <2>13,
       <2>14, <2>15 DEF Up!Step
<1>2. ASSUME NEW u \in Uploads, NEW file \in Files, NEW cover \in Covers, Up!Accept(u, file, cover)
      PROVE  UpInv'
  BY <1>2, AcceptStep
<1>3. ASSUME NEW b \in Up!Blobs, Up!Serve(b) PROVE UpInv'
  BY <1>3, ServeStep
<1>4. ASSUME Up!Crash PROVE UpInv'
  <2>1. CASE Uploads # {}
    BY <1>4, <2>1, CrashSteps
  <2>2. CASE Uploads = {}
    <3>1. Up!Stops /\ UNCHANGED <<hls, store, rows, indexed, playlists, given, contested>>
      BY <1>4 DEF Up!Crash, Up!Stops
    <3>2. indexed \in [Uploads -> Names \cup {None}] /\ playlists \in [Uploads -> Lists]
      BY DEF UpInv, TasksTyped
    <3> QED
      BY <2>2, <3>1, <3>2, Still, Stopped
  <2> QED
    BY <2>1, <2>2
<1>5. ASSUME NEW u \in Uploads, Up!CrashStoring(u) \/ Up!CrashPublishing(u) PROVE UpInv'
  BY <1>5, CrashSteps
<1> QED
  BY <1>1, <1>2, <1>3, <1>4, <1>5 DEF Up!Next

LEMMA UploadStutter == ASSUME UpInv, UNCHANGED upVars PROVE UpInv'
<1>1. /\ UNCHANGED <<status, task, hls, store, rows, indexed, playlists, given, contested>>
  BY DEF upVars
<1>2. Grows /\ DiskTyped' /\ Up!StoreIsSound'
  BY <1>1, Still
<1>3. TasksTyped'
  BY <1>1 DEF UpInv, TasksTyped
<1>4. Alone'
  BY <1>1, <1>2, AloneKept DEF UpInv
<1>5. \A v \in Uploads : TaskHolds(v)' /\ PublishedBy(v)'
  BY <1>1, <1>2, Rests
<1> QED
  BY <1>2, <1>3, <1>4, <1>5 DEF UpInv

LEMMA UploadInit == ASSUME Up!Init PROVE UpInv
<1>1. /\ status = [u \in Uploads |-> "none"] /\ task = [u \in Uploads |-> Up!Idle]
      /\ hls = [r \in Up!Renditions |-> [k \in DOMAIN SegmentsOf[r] |-> Up!Absent]]
      /\ store = [b \in Up!Blobs |-> Up!Absent] /\ rows = [b \in Up!Blobs |-> None]
      /\ indexed = [u \in Uploads |-> None] /\ playlists = [u \in Uploads |-> Up!Nothing]
      /\ given = {} /\ contested = {}
  BY DEF Up!Init
<1>2. PICK t : t = Up!Idle
  OBVIOUS
<1>3. "none" \in Idling /\ [Up!Idle EXCEPT !.at = "none"] = Up!Idle
  BY IdleTask DEF Idling
<1>4. t \in Task /\ t.at = "none" /\ t.at \notin Fresh \cup Holding /\ Works(t) /\ Named(t) /\ Writing(t)
  <2>1. t = [Up!Idle EXCEPT !.at = "none"]
    BY <1>2, <1>3
  <2> QED
    BY <1>3, <2>1, IdleHolds
<1>5. \A u \in Uploads : task[u] = t /\ status[u] = "none"
  BY <1>1, <1>2
<1>6. TasksTyped
  BY <1>1, <1>2, <1>4, Nothing0 DEF TasksTyped
<1>7. DiskTyped
  BY <1>1 DEF DiskTyped
<1>8. Up!StoreIsSound
  BY <1>1, UploadAssumption DEF Up!StoreIsSound
<1>9. Alone
  BY <1>4, <1>5 DEF Alone
<1>10. \A u \in Uploads : TaskHolds(u) /\ PublishedBy(u)
  BY <1>4, <1>5 DEF TaskHolds, PublishedBy
<1> QED
  BY <1>6, <1>7, <1>8, <1>9, <1>10 DEF UpInv

\* The inductive invariant of the uploads.
THEOREM UploadInvariant == PartsSpec => []UpInv
<1>1. PartsInit => UpInv
  BY UploadInit DEF PartsInit
<1>2. ASSUME UpInv, [PartsNext]_allVars PROVE UpInv'
  <2>1. CASE Up!Next
    BY <1>2, <2>1, UploadSteps
  <2>2. CASE UNCHANGED upVars
    BY <1>2, <2>2, UploadStutter
  <2> QED
    BY <1>2, <2>1, <2>2 DEF PartsNext, UploadNext, allVars
<1> QED
  BY <1>1, <1>2, PTL DEF PartsSpec

\* What stands under a blob's path is that blob, but for the segments that two uploads
\* packaged at one time; and what is on the matcher's list gets there, or is marked as if
\* it had been let pass, only as a segment of a rendition that is there: for any uploads at
\* one time, any renditions, any matcher's list, and any failures and crashes.
THEOREM UploadsKeepTheStoreSound == PartsSpec => []StoreIsSound
<1>1. UpInv => StoreIsSound
  BY DEF UpInv, StoreIsSound
<1> QED
  BY <1>1, UploadInvariant, PTL

\* All that the manifest of a published upload names is there and passes the gate, and the
\* playlists list every segment in order; but for the same segments.
THEOREM PublishedCanBePlayed == PartsSpec => []PublishedIsPlayable
<1>1. UpInv => PublishedIsPlayable
  BY DEF UpInv, PublishedBy, Good, Plays, PublishedIsPlayable, Up!PublishedIsPlayable
<1> QED
  BY <1>1, UploadInvariant, PTL

-----------------------------------------------------------------------------
(* The blob sidecar of a relay *)

UploadTask ==
  [at : {"none", "body", "exists", "persist", "persist_alone", "over"},
   expected : Side!Blobs \cup {None}, body : Side!Blobs,
   told : {"nothing", "created", "too_large", "mismatch", "error"}]
Download ==
  [at : {"none", "read", "not_found", "ok", "error"}, id : Side!Blobs, length : Nat,
   body : Side!Blobs \cup {None}]

SideInv ==
  /\ put \in [Puts -> UploadTask] /\ get \in [Gets -> Download]
  /\ files \in [Side!Blobs -> Side!Blobs \cup {None}]
  /\ \A b \in Side!Blobs : files[b] \in {None, b}
  /\ \A p \in Puts :
       /\ put[p].at \in {"exists", "persist", "persist_alone"}
            => put[p].expected \in {None, put[p].body}
       /\ put[p].told = "created" => /\ put[p].at = "over" /\ files[put[p].body] = put[p].body
                                     /\ put[p].expected \in {None, put[p].body}
  /\ \A g \in Gets :
       /\ get[g].at = "read" => /\ files[get[g].id] = get[g].id
                                /\ get[g].length = Len(get[g].id)
       /\ get[g].at = "ok" => get[g].body = get[g].id

LEMMA BlobsAreSeqs ==
  /\ \A e : e = <<>> => e \in Side!Blobs
  /\ \A b \in Side!Blobs : b \in Seq(Chunks) /\ Len(b) <= MaxBytes
  /\ \A b \in Side!Blobs, c \in Chunks : Len(b) + 1 <= MaxBytes => Append(b, c) \in Side!Blobs
<1> USE SidecarAssumption
<1>0. Side!Blobs = UNION {[1..m -> Chunks] : m \in 0..MaxBytes}
  BY DEF Side!Blobs, Side!SeqOf
<1>1. \A b : b \in Side!Blobs <=> b \in Seq(Chunks) /\ Len(b) <= MaxBytes
  <2>1. ASSUME NEW b \in Side!Blobs PROVE b \in Seq(Chunks) /\ Len(b) <= MaxBytes
    <3>1. PICK m \in 0..MaxBytes : b \in [1..m -> Chunks]
      BY <1>0
    <3> QED
      BY <3>1
  <2>2. ASSUME NEW b \in Seq(Chunks), Len(b) <= MaxBytes PROVE b \in Side!Blobs
    <3>1. b \in [1..Len(b) -> Chunks] /\ Len(b) \in 0..MaxBytes
      BY <2>2, LenProperties
    <3> QED
      BY <1>0, <3>1
  <2> QED
    BY <2>1, <2>2
<1>2. <<>> \in Seq(Chunks) /\ Len(<<>>) = 0
  OBVIOUS
<1>3. \A b \in Seq(Chunks), c \in Chunks : Append(b, c) \in Seq(Chunks) /\ Len(Append(b, c)) = Len(b) + 1
  BY AppendProperties
<1>4. \A e : e = <<>> => e \in Side!Blobs
  <2>1. \A e : e = <<>> => e \in [1..0 -> Chunks]
    OBVIOUS
  <2>2. 0 \in 0..MaxBytes
    OBVIOUS
  <2>3. \A e : e \in [1..0 -> Chunks] => e \in Side!Blobs
    BY <1>0, <2>2
  <2> QED
    BY <2>1, <2>3, Zenon
<1>5. ASSUME NEW b \in Side!Blobs, NEW c \in Chunks, Len(b) + 1 <= MaxBytes
      PROVE  Append(b, c) \in Side!Blobs
  BY <1>1, <1>3, <1>5
<1> QED
  BY <1>1, <1>4, <1>5

LEMMA Blank == Side!NoPut \in UploadTask /\ Side!NoGet \in Download
<1>1. PICK e : e = <<>>
  OBVIOUS
<1>2. e \in Side!Blobs
  BY <1>1, BlobsAreSeqs
<1>3. Side!NoPut = [at |-> "none", expected |-> None, body |-> e, told |-> "nothing"]
  BY <1>1 DEF Side!NoPut
<1>4. Side!NoGet = [at |-> "none", id |-> e, length |-> 0, body |-> None]
  BY <1>1 DEF Side!NoGet
<1>5. [at |-> "none", expected |-> None, body |-> e, told |-> "nothing"] \in UploadTask
  BY <1>2 DEF UploadTask
<1>6. [at |-> "none", id |-> e, length |-> 0, body |-> None] \in Download
  BY <1>2 DEF Download
<1> QED
  BY <1>3, <1>4, <1>5, <1>6, Zenon

LEMMA SideInit == Side!Init => SideInv
  BY Blank DEF Side!Init, SideInv, Side!NoPut, Side!NoGet

\* An upload that moves on within what is known of one keeps the rest as it was.
LEMMA PutMoves ==
  ASSUME SideInv, NEW p \in Puts, NEW t \in UploadTask, put' = [put EXCEPT ![p] = t],
         UNCHANGED <<files, get>>,
         t.at \in {"exists", "persist", "persist_alone"} => t.expected \in {None, t.body},
         t.told = "created" => /\ t.at = "over" /\ files[t.body] = t.body
                               /\ t.expected \in {None, t.body}
  PROVE  SideInv'
<1>1. put' \in [Puts -> UploadTask]
  BY DEF SideInv
<1>2. \A q \in Puts : put'[q] = IF q = p THEN t ELSE put[q]
  BY DEF SideInv
<1>3. \A q \in Puts :
       /\ put'[q].at \in {"exists", "persist", "persist_alone"}
            => put'[q].expected \in {None, put'[q].body}
       /\ put'[q].told = "created" => /\ put'[q].at = "over" /\ files[put'[q].body] = put'[q].body
                                      /\ put'[q].expected \in {None, put'[q].body}
  BY <1>2 DEF SideInv
<1> QED
  BY <1>1, <1>3 DEF SideInv, UploadTask, Download

LEMMA GetMoves ==
  ASSUME SideInv, NEW g \in Gets, NEW d \in Download, get' = [get EXCEPT ![g] = d],
         UNCHANGED <<files, put>>,
         d.at = "read" => files[d.id] = d.id /\ d.length = Len(d.id),
         d.at = "ok" => d.body = d.id
  PROVE  SideInv'
<1>1. get' \in [Gets -> Download]
  BY DEF SideInv
<1>2. \A h \in Gets : get'[h] = IF h = g THEN d ELSE get[h]
  BY DEF SideInv
<1>3. \A h \in Gets :
       /\ get'[h].at = "read" => files[get'[h].id] = get'[h].id /\ get'[h].length = Len(get'[h].id)
       /\ get'[h].at = "ok" => get'[h].body = get'[h].id
  BY <1>2 DEF SideInv
<1> QED
  BY <1>1, <1>3 DEF SideInv, UploadTask, Download

\* What an upload is told, when it is not that its blob was created.
LEMMA ToldNo ==
  ASSUME SideInv, NEW p \in Puts, NEW answer \in {"too_large", "mismatch", "error"},
         Side!Tell(p, answer), UNCHANGED <<files, get>>
  PROVE  SideInv'
<1> DEFINE t == [put[p] EXCEPT !.at = "over", !.told = answer]
<1>1. put' = [put EXCEPT ![p] = t]
  BY DEF Side!Tell
<1>2. t \in UploadTask /\ t.at = "over" /\ t.told # "created"
  BY DEF SideInv, UploadTask
<1> QED
  BY <1>1, <1>2, PutMoves

LEMMA PutSteps ==
  ASSUME SideInv, NEW p \in Puts,
         \/ Side!Put(p) \/ Side!Chunk(p) \/ Side!BodyEnds(p) \/ Side!Exists(p)
         \/ Side!PutFails(p) \/ Side!ClientLeaves(p)
  PROVE  SideInv'
<1>0. put[p] \in UploadTask /\ put \in [Puts -> UploadTask]
  BY DEF SideInv
<1>1. CASE Side!Put(p)
  <2>1. PICK expected \in Side!Blobs \cup {None} :
          put' = [put EXCEPT ![p] = [Side!NoPut EXCEPT !.at = "body", !.expected = expected]]
    BY <1>1 DEF Side!Put
  <2> DEFINE t == [Side!NoPut EXCEPT !.at = "body", !.expected = expected]
  <2>2. t \in UploadTask /\ t.at = "body"
    BY Blank DEF UploadTask
  <2>3. t.told = "nothing"
    BY DEF Side!NoPut
  <2> QED
    BY <1>1, <2>1, <2>2, <2>3, PutMoves DEF Side!Put
<1>2. CASE Side!Chunk(p)
  <2>1. PICK c \in Chunks :
          IF Len(put[p].body) + 1 > MaxBytes THEN Side!Tell(p, "too_large")
          ELSE put' = [put EXCEPT ![p].body = Append(@, c)]
    BY <1>2 DEF Side!Chunk
  <2>2. UNCHANGED <<files, get>> /\ put[p].at = "body"
    BY <1>2 DEF Side!Chunk
  <2>3. CASE Len(put[p].body) + 1 > MaxBytes
    BY <2>1, <2>2, <2>3, ToldNo
  <2>4. CASE ~ (Len(put[p].body) + 1 > MaxBytes)
    <3> DEFINE t == [put[p] EXCEPT !.body = Append(put[p].body, c)]
    <3>1. put' = [put EXCEPT ![p] = t]
      BY <2>1, <2>4
    <3>2. Len(put[p].body) \in Nat
      BY <1>0, BlobsAreSeqs, LenProperties DEF UploadTask
    <3>3. Append(put[p].body, c) \in Side!Blobs
      BY <1>0, <2>4, <3>2, BlobsAreSeqs, SidecarAssumption DEF UploadTask
    <3>4. t \in UploadTask /\ t.at = "body" /\ t.told = put[p].told
      BY <1>0, <2>2, <3>3 DEF UploadTask
    <3>5. put[p].told # "created"
      BY <2>2 DEF SideInv
    <3> HIDE DEF t
    <3> QED
      BY <2>2, <3>1, <3>4, <3>5, PutMoves
  <2> QED
    BY <2>3, <2>4
<1>3. CASE Side!BodyEnds(p)
  <2>1. UNCHANGED <<files, get>> /\ put[p].at = "body"
    BY <1>3 DEF Side!BodyEnds
  <2>2. CASE Side!Mismatch(p)
    BY <1>3, <2>1, <2>2, ToldNo DEF Side!BodyEnds
  <2>3. CASE ~ Side!Mismatch(p)
    <3> DEFINE t == [put[p] EXCEPT !.at = "exists"]
    <3>1. put' = [put EXCEPT ![p] = t]
      BY <1>3, <2>3 DEF Side!BodyEnds
    <3>2. t \in UploadTask /\ t.told = put[p].told /\ t.expected = put[p].expected
          /\ t.body = put[p].body
      BY <1>0 DEF UploadTask
    <3>3. put[p].told # "created"
      BY <2>1 DEF SideInv
    <3>4. put[p].expected \in {None, put[p].body}
      BY <2>3 DEF Side!Mismatch
    <3> HIDE DEF t
    <3> QED
      BY <2>1, <3>1, <3>2, <3>3, <3>4, PutMoves
  <2> QED
    BY <2>2, <2>3
<1>4. CASE Side!Exists(p)
  <2>1. UNCHANGED <<files, get>> /\ put[p].at = "exists" /\ put[p].expected \in {None, put[p].body}
    BY <1>4 DEF Side!Exists, SideInv
  <2>2. CASE files[put[p].body] # None /\ Side!Tell(p, "created")
    <3> DEFINE t == [put[p] EXCEPT !.at = "over", !.told = "created"]
    <3>1. put' = [put EXCEPT ![p] = t]
      BY <2>2 DEF Side!Tell
    <3>2. t \in UploadTask /\ t.at = "over" /\ t.expected = put[p].expected /\ t.body = put[p].body
      BY <1>0 DEF UploadTask
    <3>3. files[put[p].body] = put[p].body
      BY <1>0, <2>2 DEF SideInv, UploadTask
    <3> HIDE DEF t
    <3> QED
      BY <2>1, <3>1, <3>2, <3>3, PutMoves
  <2>3. CASE put' = [put EXCEPT ![p].at = "persist"]
    <3> DEFINE t == [put[p] EXCEPT !.at = "persist"]
    <3>1. put' = [put EXCEPT ![p] = t]
      BY <2>3
    <3>2. t \in UploadTask /\ t.told = put[p].told /\ t.expected = put[p].expected
          /\ t.body = put[p].body
      BY <1>0 DEF UploadTask
    <3>3. put[p].told # "created"
      BY <2>1 DEF SideInv
    <3> HIDE DEF t
    <3> QED
      BY <2>1, <3>1, <3>2, <3>3, PutMoves
  <2> QED
    BY <1>4, <2>2, <2>3 DEF Side!Exists
<1>5. CASE Side!PutFails(p)
  BY <1>5, ToldNo DEF Side!PutFails
<1>6. CASE Side!ClientLeaves(p)
  <2>1. UNCHANGED <<files, get>> /\ put[p].told # "created"
    BY <1>6 DEF Side!ClientLeaves, SideInv
  <2> DEFINE a == IF put[p].at = "persist" THEN "persist_alone" ELSE "over"
             t == [put[p] EXCEPT !.at = a]
  <2>2. put' = [put EXCEPT ![p] = t]
    BY <1>6 DEF Side!ClientLeaves
  <2>3. t \in UploadTask /\ t.told = put[p].told /\ t.expected = put[p].expected
        /\ t.body = put[p].body /\ t.at = a
    BY <1>0 DEF UploadTask
  <2>4. a = "persist_alone" => put[p].expected \in {None, put[p].body}
    BY DEF SideInv
  <2>5. a \in {"persist_alone", "over"}
    OBVIOUS
  <2> HIDE DEF t, a
  <2> QED
    BY <2>1, <2>2, <2>3, <2>4, <2>5, PutMoves
<1> QED
  BY <1>1, <1>2, <1>3, <1>4, <1>5, <1>6

\* A blob is put under its own id, whoever puts it there.
LEMMA PersistStep == ASSUME SideInv, NEW p \in Puts, Side!Persist(p) PROVE SideInv'
<1> DEFINE b == put[p].body
           a == IF put[p].at = "persist" THEN "created" ELSE "nothing"
           t == [put[p] EXCEPT !.at = "over", !.told = a]
<1>1. put' = [put EXCEPT ![p] = t] /\ files' = [files EXCEPT ![b] = b] /\ UNCHANGED get
  BY DEF Side!Persist, Side!Tell
<1>2. put[p] \in UploadTask /\ put \in [Puts -> UploadTask] /\ b \in Side!Blobs
  BY DEF SideInv, UploadTask
<1>3. t \in UploadTask /\ t.at = "over" /\ t.body = b /\ t.expected = put[p].expected
  BY <1>2 DEF UploadTask
<1>4. put[p].expected \in {None, b}
  BY DEF Side!Persist, SideInv
<1> HIDE DEF t, b
<1>5. /\ files' \in [Side!Blobs -> Side!Blobs \cup {None}]
      /\ \A x \in Side!Blobs : files'[x] \in {None, x} /\ (files[x] = x => files'[x] = x)
      /\ files'[b] = b
  BY <1>1, <1>2 DEF SideInv
<1>6. put' \in [Puts -> UploadTask] /\ \A q \in Puts : put'[q] = IF q = p THEN t ELSE put[q]
  BY <1>1, <1>2, <1>3
<1>7. \A q \in Puts : put[q].body \in Side!Blobs
  BY DEF SideInv, UploadTask
<1>8. \A q \in Puts :
       /\ put'[q].at \in {"exists", "persist", "persist_alone"}
            => put'[q].expected \in {None, put'[q].body}
       /\ put'[q].told = "created" => /\ put'[q].at = "over" /\ files'[put'[q].body] = put'[q].body
                                      /\ put'[q].expected \in {None, put'[q].body}
  BY <1>3, <1>4, <1>5, <1>6, <1>7 DEF SideInv
<1>9. \A g \in Gets : get[g].id \in Side!Blobs
  BY DEF SideInv, Download
<1>10. \A g \in Gets :
       /\ get'[g].at = "read" => /\ files'[get'[g].id] = get'[g].id
                                 /\ get'[g].length = Len(get'[g].id)
       /\ get'[g].at = "ok" => get'[g].body = get'[g].id
  BY <1>1, <1>5, <1>9 DEF SideInv
<1>11. get' \in [Gets -> Download]
  BY <1>1 DEF SideInv
<1> QED
  BY <1>5, <1>6, <1>8, <1>10, <1>11 DEF SideInv

LEMMA GetStep == ASSUME SideInv, NEW g \in Gets, Side!Get(g) PROVE SideInv'
<1>1. PICK b \in Side!Blobs :
        get' = [get EXCEPT ![g] = [Side!NoGet EXCEPT !.id = b,
                  !.at = IF files[b] = None THEN "not_found" ELSE "read",
                  !.length = IF files[b] = None THEN 0 ELSE Len(files[b])]]
  BY DEF Side!Get
<1> DEFINE d == [Side!NoGet EXCEPT !.id = b,
                   !.at = IF files[b] = None THEN "not_found" ELSE "read",
                   !.length = IF files[b] = None THEN 0 ELSE Len(files[b])]
<1>2. Len(b) \in Nat
  BY BlobsAreSeqs, LenProperties
<1>3. files[b] # None => files[b] = b
  BY DEF SideInv
<1>4. /\ d \in Download /\ d.at # "ok"
      /\ d.at = "read" => files[d.id] = d.id /\ d.length = Len(d.id)
  <2>1. CASE files[b] = None
    BY <2>1, Blank DEF Download
  <2>2. CASE files[b] # None
    BY <1>2, <1>3, <2>2, Blank DEF Download
  <2> QED
    BY <2>1, <2>2
<1> HIDE DEF d
<1> QED
  BY <1>1, <1>4, GetMoves DEF Side!Get, d

LEMMA ReadStep == ASSUME SideInv, NEW g \in Gets, Side!ReadFile(g) PROVE SideInv'
<1> DEFINE b == get[g].id
           d == [get[g] EXCEPT
                   !.at = IF files[b] # None /\ Len(files[b]) >= get[g].length THEN "ok" ELSE "error",
                   !.body = IF files[b] # None THEN SubSeq(files[b], 1, get[g].length) ELSE None]
<1>1. get' = [get EXCEPT ![g] = d] /\ UNCHANGED <<files, put>>
  BY DEF Side!ReadFile
<1>2. get[g] \in Download /\ b \in Side!Blobs /\ files[b] = b /\ get[g].length = Len(b)
  BY DEF Side!ReadFile, SideInv, Download
<1>3. SubSeq(b, 1, Len(b)) = b
  BY <1>2, BlobsAreSeqs, SubSeqFull
<1>4. d \in Download /\ d.at \in {"ok", "error"} /\ (d.at = "ok" => d.body = d.id)
  BY <1>2, <1>3 DEF Download
<1> HIDE DEF d
<1> QED
  BY <1>1, <1>4, GetMoves

\* A restart ends what was under way and leaves the files.
LEMMA CrashStep == ASSUME SideInv, Side!Crash PROVE SideInv'
<1>1. \A p \in Puts : /\ put'[p] \in UploadTask
                      /\ put'[p].at \in {"none", "over"}
                      /\ put'[p].told = put[p].told /\ put'[p].body = put[p].body
                      /\ put'[p].expected = put[p].expected
                      /\ put[p].told = "created" => put'[p].at = "over"
  BY DEF SideInv, Side!Crash, UploadTask
<1>2. \A g \in Gets : /\ get'[g] \in Download
                      /\ get'[g].at # "read" /\ get'[g].id = get[g].id
                      /\ get'[g].at = "ok" => get[g].at = "ok"
                      /\ get'[g].body = get[g].body
  BY DEF SideInv, Side!Crash, Download
<1>3. put' \in [Puts -> UploadTask] /\ get' \in [Gets -> Download] /\ files' = files
  BY <1>1, <1>2 DEF Side!Crash
<1> QED
  BY <1>1, <1>2, <1>3 DEF SideInv

\* The inductive invariant of the sidecar, and what it says to the clients: a blob is
\* under no path but its own, and an upload that was told of it and a download that
\* has its length find it there.
THEOREM SidecarInvariant == PartsSpec => []SideInv
<1>1. PartsInit => SideInv
  BY SideInit DEF PartsInit
<1>2. SideInv /\ [PartsNext]_allVars => SideInv'
  <2> SUFFICES ASSUME SideInv, [PartsNext]_allVars PROVE SideInv'
    OBVIOUS
  <2>1. CASE Side!Next
    BY <2>1, PutSteps, PersistStep, GetStep, ReadStep, CrashStep DEF Side!Next
  <2>2. CASE UNCHANGED sideVars
    BY <2>2 DEF sideVars, SideInv, UploadTask, Download
  <2> QED
    BY <2>1, <2>2 DEF PartsNext, allVars
<1> QED
  BY <1>1, <1>2, PTL DEF PartsSpec

\* An upload that is told "created" has its blob under its hash, and what is served under
\* an id is that blob, for any uploads and downloads at one time, failures and crashes.
THEOREM SidecarIsSound == PartsSpec => []SidecarHolds
<1>1. SideInv => SidecarHolds
  BY DEF SideInv, SidecarHolds, Side!SidecarHolds
<1> QED
  BY <1>1, SidecarInvariant, PTL

-----------------------------------------------------------------------------
(* The accounts of a gateway *)

USE AccountsAssumption

Owned ==
  \A r \in Calls : call[r].at \in {"indexing", "answered"} => users[call[r].of] = r

Logged == begun = attempts /\ ExportRate

LEMMA InitTyped == Init => TypeOK
<1> SUFFICES ASSUME Init PROVE TypeOK
  OBVIOUS
<1>1. call \in [Calls -> [at : {"none"} \cup Registering \cup Answers, of : Accounts]]
  BY DEF Init, Accounts, Idle
<1>2. clock \in 0..MaxClock /\ users \in [Accounts -> Calls \cup {None}]
  BY DEF Init
<1>3. index \subseteq Calls /\ relayed \subseteq Calls /\ torn \subseteq Calls
  BY DEF Init
<1>4. attempts \in [Handles -> Seq(0..MaxClock)] /\ begun \in [Handles -> Seq(0..MaxClock)]
  BY DEF Init
<1>5. listening \in BOOLEAN
  BY DEF Init
<1> QED
  BY <1>1, <1>2, <1>3, <1>4, <1>5 DEF TypeOK

LEMMA NextTyped == TypeOK /\ [Next]_vars => TypeOK'
<1> SUFFICES ASSUME TypeOK, [Next]_vars PROVE TypeOK'
  OBVIOUS
<1> USE DEF TypeOK, Accounts, Registering, Answers
<1>1. ASSUME NEW r \in Calls, Ensure(r) PROVE TypeOK'
  <2>1. CASE users[Own] # None
    BY <1>1, <2>1 DEF Ensure, tables
  <2>2. CASE users[Own] = None
    <3>1. call' = [call EXCEPT ![r] = [at |-> "hashing", of |-> Own]] /\ listening' = listening
      BY <1>1, <2>2 DEF Ensure
    <3> QED
      BY <1>1, <3>1 DEF Ensure, tables
  <2> QED
    BY <2>1, <2>2
<1>2. ASSUME NEW r \in Calls, Hashed(r) PROVE TypeOK'
  <2>1. call[r].of \in Accounts
    OBVIOUS
  <2>2. \A to \in Registering \cup Answers :
          [call EXCEPT ![r].at = to]
            \in [Calls -> [at : {"none"} \cup Registering \cup Answers, of : Accounts]]
    OBVIOUS
  <2>3. /\ call' \in [Calls -> [at : {"none"} \cup Registering \cup Answers, of : Accounts]]
        /\ users' \in [Accounts -> Calls \cup {None}]
    <3>1. CASE users[call[r].of] = None
      <4>1. /\ users' = [users EXCEPT ![call[r].of] = r]
            /\ call' = [call EXCEPT ![r].at = "indexing"]
        BY <1>2, <3>1 DEF Hashed, InsertUser
      <4> QED
        BY <2>2, <4>1
    <3>2. CASE users[call[r].of] # None
      <4>1. users' = users /\ call' = [call EXCEPT ![r].at = "failed"]
        BY <1>2, <3>2 DEF Hashed, InsertUser
      <4> QED
        BY <2>2, <4>1
    <3> QED
      BY <3>1, <3>2
  <2> QED
    BY <1>2, <2>3 DEF Hashed
<1>3. ASSUME NEW r \in Calls, Indexed(r) PROVE TypeOK'
  BY <1>3 DEF Indexed, Answer
<1>4. ASSUME NEW r \in Calls, IndexFails(r) PROVE TypeOK'
  BY <1>4 DEF IndexFails, tables
<1>5. ASSUME NEW r \in Calls, NEW h \in Handles, Register(r, h) PROVE TypeOK'
  BY <1>5 DEF Register, tables
<1>6. ASSUME NEW x \in Exports, Verified(x) PROVE TypeOK'
  BY <1>6 DEF Verified, tables
<1>7. ASSUME NEW x \in Exports, NEW h \in Handles, Export(x, h) PROVE TypeOK'
  <2>1. attempts' \in [Handles -> Seq(0..MaxClock)] /\ begun' \in [Handles -> Seq(0..MaxClock)]
    <3>1. Append(attempts[h], clock) \in Seq(0..MaxClock) /\ Append(begun[h], clock) \in Seq(0..MaxClock)
      OBVIOUS
    <3>2. CASE Recent(h) < MaxAttempts
      <4>1. /\ attempts' = [attempts EXCEPT ![h] = Append(attempts[h], clock)]
            /\ begun' = [begun EXCEPT ![h] = Append(begun[h], clock)]
        BY <1>7, <3>2 DEF Export, Log
      <4>2. attempts' \in [Handles -> Seq(0..MaxClock)]
        BY <3>1, <4>1
      <4>3. begun' \in [Handles -> Seq(0..MaxClock)]
        BY <3>1, <4>1
      <4> QED
        BY <4>2, <4>3
    <3>3. CASE ~(Recent(h) < MaxAttempts)
      BY <1>7, <3>3 DEF Export
    <3> QED
      BY <3>2, <3>3
  <2> QED
    BY <1>7, <2>1 DEF Export
<1>8. CASE SetClock
  BY <1>8 DEF SetClock, tables
<1>9. CASE Crash
  <2>1. call' = [r \in Calls |->
          IF call[r].at \in Registering THEN [call[r] EXCEPT !.at = "failed"] ELSE call[r]]
    BY <1>9 DEF Crash
  <2>2. \A r \in Calls : call'[r] \in [at : {"none"} \cup Registering \cup Answers, of : Accounts]
    <3>1. ASSUME NEW c \in [at : {"none"} \cup Registering \cup Answers, of : Accounts]
          PROVE  [c EXCEPT !.at = "failed"]
                   \in [at : {"none"} \cup Registering \cup Answers, of : Accounts]
      OBVIOUS
    <3> QED
      BY <2>1, <3>1
  <2>3. call' \in [Calls -> [at : {"none"} \cup Registering \cup Answers, of : Accounts]]
    BY <2>1, <2>2
  <2> QED
    BY <1>9, <2>3 DEF Crash, tables
<1>10. CASE UNCHANGED vars
  BY <1>10 DEF vars, tables
<1> QED
  BY <1>1, <1>2, <1>3, <1>4, <1>5, <1>6, <1>7, <1>8, <1>9, <1>10 DEF Next

\* The account table keeps its types.
THEOREM TypeCorrect == Spec => []TypeOK
BY InitTyped, NextTyped, PTL DEF Spec

-----------------------------------------------------------------------------
(* Handles and accounts *)

LEMMA NextOwned == TypeOK /\ Owned /\ [Next]_vars => Owned'
<1> SUFFICES ASSUME TypeOK, Owned, [Next]_vars PROVE Owned'
  OBVIOUS
<1> USE DEF TypeOK, Owned
<1>1. ASSUME NEW r \in Calls, Ensure(r) PROVE Owned'
  <2>1. CASE users[Own] # None
    BY <1>1, <2>1 DEF Ensure, tables
  <2>2. CASE users[Own] = None
    <3>1. call' = [call EXCEPT ![r] = [at |-> "hashing", of |-> Own]] /\ users' = users
      BY <1>1, <2>2 DEF Ensure, tables
    <3> QED
      BY <3>1
  <2> QED
    BY <2>1, <2>2
<1>2. ASSUME NEW r \in Calls, Hashed(r) PROVE Owned'
  BY <1>2 DEF Hashed, InsertUser
<1>3. ASSUME NEW r \in Calls, Indexed(r) PROVE Owned'
  BY <1>3 DEF Indexed, Answer
<1>4. ASSUME NEW r \in Calls, IndexFails(r) PROVE Owned'
  BY <1>4 DEF IndexFails, tables
<1>5. ASSUME NEW r \in Calls, NEW h \in Handles, Register(r, h) PROVE Owned'
  BY <1>5 DEF Register, tables
<1>6. CASE Crash
  BY <1>6 DEF Crash, tables, Registering
<1>7. CASE UNCHANGED <<call, users>>
  BY <1>7
<1> QED
  BY <1>1, <1>2, <1>3, <1>4, <1>5, <1>6, <1>7
  DEF Next, Verified, Export, SetClock, vars, tables

LEMMA NextWhole == TypeOK /\ Owned /\ AccountsAreWhole /\ [Next]_vars => AccountsAreWhole'
<1> SUFFICES ASSUME TypeOK, Owned, AccountsAreWhole, [Next]_vars PROVE AccountsAreWhole'
  OBVIOUS
<1> USE DEF TypeOK, AccountsAreWhole
<1>1. ASSUME NEW r \in Calls, Ensure(r) PROVE AccountsAreWhole'
  BY <1>1 DEF Ensure, tables
<1>2. ASSUME NEW r \in Calls, Hashed(r) PROVE AccountsAreWhole'
  <2>1. index' = index /\ relayed' = relayed /\ torn' = torn /\ call[r].at = "hashing"
    BY <1>2 DEF Hashed
  <2>2. call[r].of \in Accounts
    OBVIOUS
  <2>3. CASE users[call[r].of] = None
    <3>1. /\ users' = [users EXCEPT ![call[r].of] = r]
          /\ call' = [call EXCEPT ![r].at = "indexing"]
      BY <1>2, <2>3 DEF Hashed, InsertUser
    <3>2. call'[r].at = "indexing" /\ \A q \in Calls : q # r => call'[q] = call[q]
      BY <3>1
    <3>3. ASSUME NEW h \in Accounts, h # call[r].of PROVE users'[h] = users[h]
      BY <3>1, <3>3
    <3>4. users'[call[r].of] = r
      BY <2>2, <3>1
    <3>5. ASSUME NEW h \in Accounts, users[h] = r, r # None
          PROVE  r \in index \cap relayed \/ r \in torn
      BY <2>1, <3>5
    <3> QED
      BY <2>1, <3>2, <3>3, <3>4, <3>5
  <2>4. CASE users[call[r].of] # None
    <3>1. users' = users /\ call' = [call EXCEPT ![r].at = "failed"]
      BY <1>2, <2>4 DEF Hashed, InsertUser
    <3> QED
      BY <2>1, <3>1
  <2> QED
    BY <2>3, <2>4
<1>3. ASSUME NEW r \in Calls, Indexed(r) PROVE AccountsAreWhole'
  BY <1>3 DEF Indexed, Answer
<1>4. ASSUME NEW r \in Calls, IndexFails(r) PROVE AccountsAreWhole'
  BY <1>4 DEF IndexFails, tables
<1>5. ASSUME NEW r \in Calls, NEW h \in Handles, Register(r, h) PROVE AccountsAreWhole'
  BY <1>5 DEF Register, tables
<1>6. CASE Crash
  BY <1>6 DEF Crash, tables, Registering
<1>7. CASE UNCHANGED <<call, users, index, relayed, torn>>
  BY <1>7
<1> QED
  BY <1>1, <1>2, <1>3, <1>4, <1>5, <1>6, <1>7
  DEF Next, Verified, Export, SetClock, vars, tables

\* A registration that is answered has its handle for good: InsertUser's check is made
\* in the statement that writes.
THEOREM HandleKept == Spec => []AnsweredOwnsHandle
<1>1. Init => Owned
  BY DEF Init, Owned, Idle
<1>2. Owned => AnsweredOwnsHandle
  BY DEF Owned, AnsweredOwnsHandle
<1> QED
  BY <1>1, <1>2, TypeCorrect, NextOwned, PTL DEF Spec

\* An account is indexed and published, at it, or torn.
THEOREM AccountsWhole == Spec => []AccountsAreWhole
<1>1. Init => Owned
  BY DEF Init, Owned, Idle
<1>2. Init => AccountsAreWhole
  BY DEF Init, AccountsAreWhole, Accounts
<1> QED
  BY <1>1, <1>2, TypeCorrect, NextOwned, NextWhole, PTL DEF Spec

\* No account is another's, and none is half there without a cause.
THEOREM AccountsHeld == Spec => []AccountsHold
<1>1. (AnsweredOwnsHandle /\ AccountsAreWhole) => AccountsHold
  BY DEF AccountsHold
<1> QED
  BY <1>1, HandleKept, AccountsWhole, PTL

-----------------------------------------------------------------------------
(* The rate of exports *)

Tries(s, from, to) == {k \in DOMAIN s : s[k] > from /\ s[k] <= to}

LEMMA TriesFinite ==
  ASSUME NEW s \in Seq(0..MaxClock)
  PROVE  IsFiniteSet(DOMAIN s) /\ \A S \in SUBSET DOMAIN s : IsFiniteSet(S) /\ Cardinality(S) \in Nat
<1>1. DOMAIN s = 1..Len(s) /\ Len(s) \in Nat
  OBVIOUS
<1>2. IsFiniteSet(DOMAIN s)
  BY <1>1, FS_Interval
<1> QED
  BY <1>2, FS_Subset, FS_CardinalityType

\* One try more, at a time at which fewer than the limit were recent.
LEMMA OneMore ==
  ASSUME NEW s \in Seq(0..MaxClock), NEW now \in 0..MaxClock, NEW t \in 0..MaxClock,
         Cardinality(Tries(s, t - Window, t)) <= MaxAttempts,
         Cardinality({k \in DOMAIN s : s[k] > now - Window}) < MaxAttempts
  PROVE  Cardinality(Tries(Append(s, now), t - Window, t)) <= MaxAttempts
<1> DEFINE n == Len(s) + 1
           old == Tries(s, t - Window, t)
           new == Tries(Append(s, now), t - Window, t)
           recent == {k \in DOMAIN s : s[k] > now - Window}
<1>1. DOMAIN s = 1..Len(s) /\ Len(s) \in Nat /\ \A k \in DOMAIN s : s[k] \in 0..MaxClock
  OBVIOUS
<1>2. /\ DOMAIN Append(s, now) = 1..n /\ Append(s, now)[n] = now
      /\ \A k \in DOMAIN s : Append(s, now)[k] = s[k]
  BY <1>1
<1>3. CASE ~(now > t - Window /\ now <= t)
  <2>1. new = old
    BY <1>1, <1>2, <1>3 DEF Tries
  <2> QED
    BY <2>1
<1>4. CASE now > t - Window /\ now <= t
  <2>1. new = old \cup {n}
    BY <1>1, <1>2, <1>4 DEF Tries
  <2>2. old \in SUBSET recent
    BY <1>1, <1>4 DEF Tries
  <2>3. IsFiniteSet(recent) /\ Cardinality(recent) \in Nat
    BY TriesFinite
  <2>4. IsFiniteSet(old) /\ Cardinality(old) <= Cardinality(recent) /\ Cardinality(old) \in Nat
    BY <2>2, <2>3, FS_Subset, FS_CardinalityType
  <2>5. n \notin old
    BY <1>1 DEF Tries
  <2>6. Cardinality(new) = Cardinality(old) + 1
    BY <2>1, <2>4, <2>5, FS_AddElement
  <2> QED
    BY <2>3, <2>4, <2>6
<1> QED
  BY <1>3, <1>4

LEMMA NextLogged == TypeOK /\ Logged /\ [Next]_vars => Logged'
<1> SUFFICES ASSUME TypeOK, Logged, [Next]_vars PROVE Logged'
  OBVIOUS
<1>1. ASSUME NEW x \in Exports, NEW h \in Handles, Export(x, h) PROVE Logged'
  <2>1. CASE Recent(h) < MaxAttempts
    <3>1. begun' = attempts' /\ begun' = [begun EXCEPT ![h] = Append(@, clock)]
      BY <1>1, <2>1 DEF Export, Log, Logged
    <3>2. ASSUME NEW g \in Handles, NEW t \in 0..MaxClock
          PROVE  Cardinality(Tries(begun'[g], t - Window, t)) <= MaxAttempts
      <4>1. begun[g] \in Seq(0..MaxClock) /\ clock \in 0..MaxClock
        BY DEF TypeOK
      <4>2. Cardinality(Tries(begun[g], t - Window, t)) <= MaxAttempts
        BY DEF Logged, ExportRate, Tries
      <4>3. CASE g = h
        <5>1. begun'[g] = Append(begun[g], clock)
          BY <3>1, <4>3 DEF TypeOK
        <5>2. Cardinality({k \in DOMAIN begun[g] : begun[g][k] > clock - Window}) < MaxAttempts
          BY <2>1, <4>3 DEF Recent, Logged
        <5> QED
          BY <4>1, <4>2, <5>1, <5>2, OneMore
      <4>4. CASE g # h
        BY <3>1, <4>2, <4>4 DEF TypeOK
      <4> QED
        BY <4>3, <4>4
    <3> QED
      BY <3>1, <3>2 DEF Logged, ExportRate, Tries
  <2>2. CASE ~(Recent(h) < MaxAttempts)
    BY <1>1, <2>2 DEF Export, Logged, ExportRate
  <2> QED
    BY <2>1, <2>2
<1>2. CASE UNCHANGED <<attempts, begun>>
  BY <1>2 DEF Logged, ExportRate
<1> QED
  BY <1>1, <1>2
  DEF Next, Ensure, Hashed, Indexed, IndexFails, Register, Verified, SetClock, Crash, vars, tables

\* In no window are there more tries of an account's password than the limit, for any
\* number of requests and any clock.
THEOREM RateHeld == Spec => []ExportRate
<1>1. Init => Logged
  <2> SUFFICES ASSUME Init, NEW h \in Handles, NEW t \in 0..MaxClock
               PROVE  Cardinality({k \in DOMAIN begun[h] : begun[h][k] > t - Window /\ begun[h][k] <= t})
                        <= MaxAttempts
    BY DEF Init, Logged, ExportRate
  <2>1. {k \in DOMAIN begun[h] : begun[h][k] > t - Window /\ begun[h][k] <= t} = {}
    BY DEF Init
  <2> QED
    BY <2>1, FS_EmptySet
<1>2. Logged => ExportRate
  BY DEF Logged
<1> QED
  BY <1>1, <1>2, TypeCorrect, NextLogged, PTL DEF Spec

=============================================================================
