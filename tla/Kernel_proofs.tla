----------------------------- MODULE Kernel_proofs -----------------------------
(***************************************************************************)
(* Theorems about the kernel's rules, for every value of the constants.    *)
(*                                                                         *)
(* RotationChain: any rotations, keys, windows and clocks, and any order   *)
(* and time in which a verifier receives them.                             *)
(*                                                                         *)
(* Documents: blobs, bundles, records, renditions and feeds of any size,   *)
(* damaged in any way and any number of times, and what every reader makes *)
(* of them.  A document stays of its kind, so that each kind has an        *)
(* invariant of its own.                                                   *)
(*                                                                         *)
(* The walks and loops of the code are recursive functions: of each, a     *)
(* lemma shows that the function exists, and what holds of every iterate   *)
(* is shown with SetInduction and UpToInduction.                           *)
(***************************************************************************)
EXTENDS RotationChain, Documents, FiniteSetTheorems, SequenceTheorems, WellFoundedInduction, TLAPS

-----------------------------------------------------------------------------
(* Induction over the steps of a walk *)

Less == {ss \in Nat \X Nat : ss[1] < ss[2]}

\* The least-number principle, for sets.
LEMMA LeastNat ==
  ASSUME NEW T \in SUBSET Nat, T # {}
  PROVE  \E n \in T : \A m \in T : n <= m
<1>1. IsWellFoundedOn(Less, Nat)
  BY NatLessThanWellFounded DEF Less, OpToRel
<1>2. PICK n \in T : \A m \in T : ~(<<m, n>> \in Less)
  BY <1>1, WFMin
<1>3. ASSUME NEW m \in T PROVE n <= m
  <2>1. n \in Nat /\ m \in Nat /\ ~(<<m, n>> \in Less)
    BY <1>2
  <2> QED
    BY <2>1 DEF Less
<1> QED
  BY <1>3

\* A set that holds 0 and the successor of each of its members is all of Nat.
LEMMA SetInduction ==
  ASSUME NEW A \in SUBSET Nat, 0 \in A, \A n \in A : n + 1 \in A
  PROVE  A = Nat
<1>1. SUFFICES ASSUME Nat \ A # {} PROVE FALSE
  OBVIOUS
<1>2. PICK n \in Nat \ A : \A m \in Nat \ A : n <= m
  BY <1>1, LeastNat
<1>3. n # 0 /\ n - 1 \in Nat /\ n - 1 \notin Nat \ A
  BY <1>2
<1> QED
  BY <1>2, <1>3

\* The recursive function that iterates a step exists, and satisfies its equation.
LEMMA Iterates ==
  ASSUME NEW S, NEW g \in S, NEW step \in [S -> S],
         NEW at, at = CHOOSE f : f = [n \in Nat |-> IF n = 0 THEN g ELSE step[f[n-1]]]
  PROVE  at \in [Nat -> S] /\ at[0] = g /\ \A n \in Nat : at[n+1] = step[at[n]]
<1>. DEFINE Upto(n) == {f \in [0..n -> S] : f[0] = g /\ \A i \in 1..n : f[i] = step[f[i-1]]}
           A == {n \in Nat : Upto(n) # {}}
<1>1. 0 \in A
  <2>1. [i \in 0..0 |-> g] \in Upto(0)
    OBVIOUS
  <2> QED
    BY <2>1
<1>2. ASSUME NEW n \in A PROVE n + 1 \in A
  <2>1. PICK f \in Upto(n) : TRUE
    BY <1>2
  <2>2. DEFINE h == [i \in 0 .. n+1 |-> IF i = n+1 THEN step[f[n]] ELSE f[i]]
  <2>3. h \in [0..n+1 -> S] /\ h[0] = g
    BY <2>1
  <2>4. ASSUME NEW i \in 1..n+1 PROVE h[i] = step[h[i-1]]
    BY <2>1, <2>4
  <2> QED
    BY <2>3, <2>4
<1>3. A = Nat
  <2> HIDE DEF A
  <2> A \in SUBSET Nat
    BY DEF A
  <2> QED
    BY <1>1, <1>2, SetInduction
<1>4. ASSUME NEW n \in Nat, NEW m \in Nat, m <= n, NEW f \in Upto(n), NEW h \in Upto(m),
             NEW i \in 0..m
      PROVE  f[i] = h[i]
  <2>. DEFINE B == {k \in Nat : k <= m => f[k] = h[k]}
  <2>1. 0 \in B
    BY <1>4
  <2>2. ASSUME NEW k \in B PROVE k + 1 \in B
    <3>1. SUFFICES ASSUME k + 1 <= m PROVE f[k+1] = h[k+1]
      OBVIOUS
    <3>2. f[k] = h[k] /\ k + 1 \in 1 .. m /\ k + 1 \in 1 .. n /\ (k + 1) - 1 = k
      BY <1>4, <3>1, <2>2
    <3> QED
      BY <3>2
  <2>3. B = Nat
    <3> HIDE DEF B
    <3> B \in SUBSET Nat
      BY DEF B
    <3> QED
      BY <2>1, <2>2, SetInduction
  <2>4. i \in B
    <3> HIDE DEF B
    <3> QED
      BY <2>3
  <2> QED
    BY <2>4
<1>. DEFINE Ch(n) == CHOOSE f \in Upto(n) : TRUE
            F == [n \in Nat |-> Ch(n)[n]]
<1>5. ASSUME NEW n \in Nat PROVE Ch(n) \in Upto(n)
  <2> HIDE DEF Upto
  <2> QED
    BY <1>3
<1> HIDE DEF Ch
<1>6. F[0] = g /\ F \in [Nat -> S]
  <2>1. ASSUME NEW n \in Nat PROVE Ch(n)[n] \in S
    BY <1>5
  <2>2. Ch(0)[0] = g
    BY <1>5
  <2> QED
    BY <2>1, <2>2
<1>7. ASSUME NEW n \in Nat PROVE F[n+1] = step[F[n]]
  <2>1. Ch(n+1) \in Upto(n+1) /\ Ch(n) \in Upto(n)
    BY <1>5
  <2>3. Ch(n+1)[n] = Ch(n)[n]
    <3> HIDE DEF Upto
    <3> QED
      BY <1>4, <2>1
  <2>4. n + 1 \in 1 .. n + 1 /\ (n + 1) - 1 = n
    OBVIOUS
  <2>5. Ch(n+1)[n+1] = step[Ch(n+1)[n]]
    BY <2>1, <2>4
  <2> QED
    BY <2>3, <2>5
<1>8. F = [n \in Nat |-> IF n = 0 THEN g ELSE step[F[n-1]]]
  <2>1. ASSUME NEW n \in Nat PROVE F[n] = IF n = 0 THEN g ELSE step[F[n-1]]
    <3>1. CASE n = 0
      BY <3>1, <1>6
    <3>2. CASE n # 0
      <4>1. n - 1 \in Nat /\ (n - 1) + 1 = n
        BY <3>2
      <4> HIDE DEF F
      <4> QED
        BY <4>1, <1>7, <3>2
    <3> QED
      BY <3>1, <3>2
  <2> HIDE DEF F
  <2>2. F \in [Nat -> S]
    BY <1>6
  <2> DEFINE G == [n \in Nat |-> IF n = 0 THEN g ELSE step[F[n-1]]]
  <2>3. \A n \in Nat : F[n] = G[n]
    BY <2>1
  <2>4. F = [n \in Nat |-> F[n]]
    BY <2>2
  <2>5. F = G
    BY <2>3, <2>4
  <2> QED
    BY <2>5
<1> HIDE DEF F
<1>9. at = [n \in Nat |-> IF n = 0 THEN g ELSE step[at[n-1]]]
  BY <1>8
<1> QED
  <2>1. at[0] = g /\ \A n \in Nat : at[n+1] = step[at[n]]
    <3>1. ASSUME NEW n \in Nat PROVE at[n+1] = step[at[n]]
      <4>1. n + 1 \in Nat /\ n + 1 # 0 /\ (n + 1) - 1 = n
        OBVIOUS
      <4> QED
        BY <1>9, <4>1
    <3>2. at[0] = g
      BY <1>9
    <3> QED
      BY <3>1, <3>2
  <2>. DEFINE B == {n \in Nat : at[n] \in S}
  <2>2. 0 \in B /\ \A n \in B : n + 1 \in B
    BY <2>1
  <2>3. B = Nat
    <3> HIDE DEF B
    <3> B \in SUBSET Nat
      BY DEF B
    <3> QED
      BY <2>2, SetInduction
  <2>4. \A n \in Nat : at[n] \in S
    BY <2>3
  <2>5. at \in [Nat -> S]
    BY <1>9, <2>4
  <2> QED
    BY <2>1, <2>5
\* The child the chain continues with is one that a key in force has signed.
LEMMA ChosenFollows ==
  ASSUME NEW S, NEW g, NEW p, NEW obs, NEW t, NEW r \in Chosen(S, g, p, obs, t)
  PROVE  r \in S /\ Follows(r, p) /\ r.identity = g.id
BY DEF Chosen, Lowest, Follows, SigningChildren, RecoveryChildren, Children

\* What the walk's steps preserve holds where it ends.
LEMMA WalkStays ==
  ASSUME NEW S, IsFiniteSet(S), NEW I \in SUBSET S, NEW g \in I, NEW obs, NEW t,
         \A p \in I : Chosen(S, g, p, obs, t) \subseteq I
  PROVE  Walk(S, g, obs, t) \in I
<1>. DEFINE continue == [p \in S |->
              LET C == Chosen(S, g, p, obs, t) IN IF C = {} THEN p ELSE CHOOSE r \in C : TRUE]
            at == CHOOSE f : f = [n \in Nat |-> IF n = 0 THEN g ELSE continue[f[n - 1]]]
<1>1. Walk(S, g, obs, t) = at[Cardinality(S)]
  BY DEF Walk
<1>2. continue \in [S -> S]
  BY ChosenFollows
<1>3. \A p \in I : continue[p] \in I
  OBVIOUS
<1>4. at \in [Nat -> S] /\ at[0] = g /\ \A n \in Nat : at[n+1] = continue[at[n]]
  <2> HIDE DEF continue
  <2> QED
    BY <1>2, Iterates
<1> HIDE DEF continue, at
<1>. DEFINE A == {n \in Nat : at[n] \in I}
<1>5. 0 \in A /\ \A n \in A : n + 1 \in A
  BY <1>3, <1>4
<1>6. A = Nat
  <2> HIDE DEF A
  <2> A \in SUBSET Nat
    BY DEF A
  <2> QED
    BY <1>5, SetInduction
<1>7. Cardinality(S) \in A
  <2> HIDE DEF A
  <2> QED
    BY <1>6, FS_CardinalityType
<1> QED
  BY <1>1, <1>7
USE RotationAssumption

-----------------------------------------------------------------------------
(* The verifier *)

TypeInv ==
  seen \in [Rotation -> {Unseen, Untimed} \cup 0..LastTime] /\ now \in 0..LastTime

LEMMA TypeInvariant == Spec => []TypeInv
<1>1. Init => TypeInv
  BY DEF Init, TypeInv
<1>2. TypeInv /\ [Next]_vars => TypeInv'
  BY DEF TypeInv, Next, Receive, Tick, StepBack, vars
<1> QED
  BY <1>1, <1>2, PTL DEF Spec

\* A verified state is where the walk from the one genesis held ends.
LEMMA VerifiedWalk ==
  ASSUME Verified
  PROVE  \E g \in Held(seen) : /\ Geneses(Held(seen)) = {g}
                               /\ Current = Walk(Held(seen), g, seen, now)
<1>1. Cardinality(Geneses(Held(seen))) = 1
  BY DEF Verified, Current, VerifyChain
<1>2. Geneses(Held(seen)) \subseteq Held(seen) /\ Held(seen) \subseteq Rotation
  BY DEF Geneses, Held
<1>3. IsFiniteSet(Geneses(Held(seen)))
  BY <1>2, FS_Subset
<1>4. PICK g : Geneses(Held(seen)) = {g}
  BY <1>1, <1>3, FS_Singleton
<1>5. (CHOOSE x \in Geneses(Held(seen)) : TRUE) = g
  BY <1>4
<1> QED
  BY <1>1, <1>2, <1>4, <1>5 DEF Current, VerifyChain

\* What holds of the genesis, and passes from every rotation to each one the walk may
\* continue with, holds of the verified state.
LEMMA VerifiedIn ==
  ASSUME Verified, NEW I \in SUBSET Held(seen), Geneses(Held(seen)) \subseteq I,
         \A g \in Geneses(Held(seen)) : \A p \in I : Chosen(Held(seen), g, p, seen, now) \subseteq I
  PROVE  Current \in I
<1>1. PICK g \in Held(seen) : /\ Geneses(Held(seen)) = {g}
                              /\ Current = Walk(Held(seen), g, seen, now)
  BY VerifiedWalk
<1>2. IsFiniteSet(Held(seen))
  BY FS_Subset DEF Held
<1> QED
  BY <1>1, <1>2, WalkStays

LEMMA HeldGeneses == Geneses(Held(seen)) \subseteq Geneses(Rotation)
BY DEF Geneses, Held

-----------------------------------------------------------------------------
(* Theorems *)

\* verify_chain returns a state of which it holds the whole path from genesis, whatever
\* subset of the records has arrived.
THEOREM TypeCorrect == Spec => []TypeOK
<1>1. ASSUME TypeInv, Verified PROVE Path(Current) \subseteq Held(seen)
  <2>. DEFINE Rooted(A) == \A y \in A, z \in Rotation : y.parent = z.id => z \in A
              I == {r \in Held(seen) : \E A \in SUBSET Held(seen) : r \in A /\ Rooted(A)}
  <2>1. ASSUME NEW g \in Geneses(Held(seen)) PROVE g \in I
    <3>1. {g} \in SUBSET Held(seen) /\ Rooted({g}) /\ g \in Held(seen)
      BY DEF Geneses, Held
    <3> QED
      BY <3>1
  <2>2. ASSUME NEW g \in Geneses(Held(seen)), NEW p \in I,
               NEW r \in Chosen(Held(seen), g, p, seen, now)
        PROVE  r \in I
    <3>1. PICK A \in SUBSET Held(seen) : p \in A /\ Rooted(A)
      OBVIOUS
    <3>2. r \in Held(seen) /\ r.parent = p.id
      BY ChosenFollows DEF Follows
    <3>3. \A z \in Rotation : r.parent = z.id => z = p
      BY <3>2 DEF Held
    <3>4. A \cup {r} \in SUBSET Held(seen) /\ r \in A \cup {r} /\ Rooted(A \cup {r})
      BY <3>1, <3>2, <3>3
    <3> QED
      BY <3>2, <3>4
  <2>3. Current \in I
    <3>1. I \in SUBSET Held(seen) /\ Geneses(Held(seen)) \subseteq I
      BY <2>1
    <3> HIDE DEF I
    <3> QED
      BY <1>1, <2>2, <3>1, VerifiedIn
  <2>4. PICK A \in SUBSET Held(seen) : Current \in A /\ Rooted(A)
    BY <2>3
  <2>5. A \in SUBSET Rotation
    BY DEF Held
  <2> QED
    BY <2>4, <2>5 DEF Path
<1>2. TypeInv => TypeOK
  BY <1>1 DEF TypeInv, TypeOK
<1> QED
  BY <1>2, TypeInvariant, PTL

\* Only holders of a key in force move an identity (verify_chain's filters on signer):
\* in any order of arrival the state is authorised, and no outsider's key is in charge.
THEOREM OnlyKeyHolders == Spec => []OnlyKeyHoldersRotate
<1>1. ASSUME Verified PROVE Current \in Authorised
  <2>. DEFINE I == Held(seen) \cap Authorised
  <2>1. Geneses(Held(seen)) \subseteq I
    BY HeldGeneses DEF Geneses, Held, Authorised, Closed
  <2>2. ASSUME NEW g \in Geneses(Held(seen)), NEW p \in I,
               NEW r \in Chosen(Held(seen), g, p, seen, now)
        PROVE  r \in I
    <3>1. r \in Held(seen) /\ r \in Rotation /\ Follows(r, p)
      BY ChosenFollows DEF Held
    <3>2. ASSUME NEW L \in SUBSET Rotation, Closed(L) PROVE r \in L
      BY <3>1, <3>2 DEF Authorised, Closed
    <3> QED
      BY <3>1, <3>2 DEF Authorised
  <2>3. Current \in I
    <3>1. I \in SUBSET Held(seen)
      OBVIOUS
    <3> HIDE DEF I
    <3> QED
      BY <1>1, <2>1, <2>2, <3>1, VerifiedIn
  <2> QED
    BY <2>3
<1>2. OnlyKeyHoldersRotate
  BY <1>1, OutsidersAssumption DEF OnlyKeyHoldersRotate
<1> QED
  BY <1>2, PTL

\* Verifiers converge: when every rotation held has outlived every window, the state is
\* a function of the set of records; when and in which order they came makes no difference.
THEOREM VerifiersConverge == Spec => []Converges
<1>1. ASSUME TypeInv PROVE Converges
  <2>. DEFINE S == Held(seen)
              obs == [r \in Rotation |-> now]
              t == now + LastTime + 1
  <2>1. SUFFICES ASSUME Settled PROVE VerifyChain(S, seen, now) = VerifyChain(S, obs, t)
    BY DEF Converges, Current
  <2>2. ASSUME NEW g, NEW p \in S
        PROVE  Chosen(S, g, p, seen, now) = Chosen(S, g, p, obs, t)
    <3>1. ASSUME NEW r \in SigningChildren(S, g, p)
          PROVE  IsFinal(r, p, seen, now) /\ IsFinal(r, p, obs, t)
      <4>1. r \in S /\ r \in Rotation /\ p \in Rotation /\ r.parent # NoParent
        BY DEF SigningChildren, Children, Held
      <4>2. seen[r] \in 0..LastTime /\ now \in 0..LastTime /\ now - seen[r] > p.window
            /\ p.window \in Nat
        BY <1>1, <2>1, <4>1 DEF Settled, TypeInv, Held
      <4>3. IsFinal(r, p, seen, now)
        BY <4>2 DEF IsFinal
      <4>4. obs[r] = now /\ now # Untimed /\ t - now = LastTime + 1 /\ LastTime + 1 > p.window
        BY <4>1, <4>2
      <4>5. IsFinal(r, p, obs, t)
        BY <4>4 DEF IsFinal
      <4> QED
        BY <4>3, <4>5
    <3> HIDE DEF S, obs, t
    <3>. DEFINE final(o, u) == {r \in SigningChildren(S, g, p) : IsFinal(r, p, o, u)}
                candidates(o, u) ==
                  IF p.window = 0 THEN SigningChildren(S, g, p) \cup RecoveryChildren(S, g, p)
                  ELSE IF final(o, u) # {} THEN final(o, u)
                  ELSE IF RecoveryChildren(S, g, p) # {} THEN RecoveryChildren(S, g, p)
                  ELSE SigningChildren(S, g, p)
    <3>2. final(seen, now) = final(obs, t)
      BY <3>1
    <3>3. candidates(seen, now) = candidates(obs, t)
      <4> HIDE DEF final
      <4> QED
        BY <3>2
    <3>4. \A C : Lowest(C, seen) = Lowest(C, obs)
      BY DEF Lowest
    <3>5. \A o, u : Chosen(S, g, p, o, u) = Lowest(candidates(o, u), o)
      BY DEF Chosen
    <3> HIDE DEF candidates
    <3> QED
      BY <3>3, <3>4, <3>5
  <2>3. ASSUME NEW g PROVE Walk(S, g, seen, now) = Walk(S, g, obs, t)
    <3> HIDE DEF S, obs, t
    <3>. DEFINE child(p, C) == IF C = {} THEN p ELSE CHOOSE r \in C : TRUE
                next(o, u) == [p \in S |-> child(p, Chosen(S, g, p, o, u))]
    <3>1. next(seen, now) = next(obs, t)
      <4> HIDE DEF child
      <4> QED
        BY <2>2
    <3>2. \A o, u : Walk(S, g, o, u)
                      = (CHOOSE f : f = [n \in Nat |-> IF n = 0 THEN g ELSE next(o, u)[f[n - 1]]])
                          [Cardinality(S)]
      BY DEF Walk
    <3> HIDE DEF next
    <3> QED
      BY <3>1, <3>2
  <2> HIDE DEF S, obs, t
  <2> QED
    BY <2>3 DEF VerifyChain
<1> QED
  BY <1>1, TypeInvariant, PTL

\* Theft recovery (step 3 of verify_chain, the contest window): until a rotation signed
\* with the stolen genesis key has outlived the genesis's window, whoever holds the
\* owner's recovery does not accept a key of the thief's, whatever the thief has published.
THEOREM TheftIsRecoverable == Spec => []TheftRecoverable
<1>1. ASSUME TypeInv, Verified, OwnerRecovery \in Held(seen), Fork.window > 0,
             \A r \in Held(seen) : r.parent = Fork.id /\ r.signer = Fork.key =>
               seen[r] = Untimed \/ now - seen[r] <= Fork.window
      PROVE  Current \in WithoutTheft
  <2>. DEFINE S == Held(seen)
              I == S \cap WithoutTheft
  <2>1. Geneses(S) \subseteq I
    BY HeldGeneses DEF Geneses, Held, WithoutTheft, ClosedButForTheft
  <2>2. ASSUME NEW g \in Geneses(S), Geneses(S) = {g}, NEW p \in I,
               NEW r \in Chosen(S, g, p, seen, now)
        PROVE  r \in I
    <3>1. r \in S /\ r \in Rotation /\ Follows(r, p)
      BY ChosenFollows DEF Held
    <3>2. ASSUME p = Fork PROVE r.signer # Fork.key
      <4>1. g = Fork
        BY <2>2, <3>2, TheftAssumption DEF Geneses
      <4>2. OwnerRecovery \in RecoveryChildren(S, g, p)
        BY <1>1, <3>2, <4>1, TheftAssumption DEF RecoveryChildren, Children
      <4>3. {x \in SigningChildren(S, g, p) : IsFinal(x, p, seen, now)} = {}
        <5>1. ASSUME NEW x \in SigningChildren(S, g, p) PROVE ~IsFinal(x, p, seen, now)
          <6>1. seen[x] = Untimed \/ now - seen[x] <= p.window
            BY <1>1, <3>2 DEF SigningChildren, Children
          <6>2. x \in Rotation /\ seen[x] # Unseen /\ p \in Rotation
            BY <3>2, TheftAssumption DEF SigningChildren, Children, Held, Geneses
          <6>3. seen[x] = Untimed \/ (seen[x] \in Int /\ now \in Int /\ p.window \in Int)
            BY <1>1, <6>2 DEF TypeInv
          <6> QED
            BY <6>1, <6>3 DEF IsFinal
        <5> QED
          BY <5>1
      <4>4. r \in RecoveryChildren(S, g, p)
        BY <1>1, <3>2, <4>2, <4>3 DEF Chosen, Lowest
      <4> QED
        BY <3>2, <4>4 DEF RecoveryChildren
    <3>3. ASSUME NEW L \in SUBSET Rotation, ClosedButForTheft(L) PROVE r \in L
      BY <3>1, <3>2, <3>3 DEF WithoutTheft, ClosedButForTheft
    <3> QED
      BY <3>1, <3>3 DEF WithoutTheft
  <2>3. Current \in I
    <3>1. I \in SUBSET S
      OBVIOUS
    <3>2. \E g : Geneses(S) = {g}
      BY <1>1, VerifiedWalk
    <3>3. \A g \in Geneses(S) : \A p \in I : Chosen(S, g, p, seen, now) \subseteq I
      BY <2>2, <3>2
    <3> HIDE DEF I
    <3> QED
      BY <1>1, <2>1, <3>1, <3>3, VerifiedIn
  <2> QED
    BY <2>3
<1>2. TypeInv => TheftRecoverable
  BY <1>1, TheftAssumption DEF TheftRecoverable
<1> QED
  BY <1>2, TypeInvariant, PTL

-----------------------------------------------------------------------------
(* A document stays of its kind, and each kind has an action of its own *)

\* A document has the fields of its kind.
Shaped ==
  \/ /\ doc.of = "blob"
     /\ doc = [of |-> "blob", bytes |-> doc.bytes, cuts |-> doc.cuts, broken |-> doc.broken]
  \/ doc.of = "bundle" /\ doc = BundleDoc(doc.was, doc.is, doc.hurt)
  \/ doc.of = "kind" /\ doc = KindDoc(doc.is, doc.hurt)
  \/ /\ doc.of = "rendition"
     /\ doc = [of |-> "rendition", signed |-> doc.signed, shown |-> doc.shown, hurt |-> doc.hurt]
  \/ doc.of = "feed" /\ doc = [of |-> "feed", entries |-> doc.entries]

\* A step leaves a document of its kind, and is an action of that kind.
LEMMA StepsKeepShape ==
  ASSUME Shaped, [DocNext]_doc
  PROVE  /\ Shaped' /\ doc'.of = doc.of
         /\ UNCHANGED doc \/ (CASE doc.of = "blob" -> ReadMore
                                [] doc.of = "bundle" -> Hurt
                                [] doc.of = "kind" -> Alter
                                [] doc.of = "rendition" -> ShowOther
                                [] doc.of = "feed" -> AppendEntry)
<1>1. CASE UNCHANGED doc
  BY <1>1 DEF Shaped, BundleDoc, KindDoc
<1>2. CASE ReadMore
  BY <1>2 DEF Shaped, BundleDoc, KindDoc, ReadMore
<1>3. CASE Hurt
  BY <1>3 DEF Shaped, BundleDoc, KindDoc, Hurt
<1>4. CASE Alter
  BY <1>4 DEF Shaped, BundleDoc, KindDoc, Alter
<1>5. CASE ShowOther
  <2>1. PICK x : doc' = [doc EXCEPT !.shown = x, !.hurt = @ + 1]
    BY <1>5 DEF ShowOther
  <2> QED
    BY <1>5, <2>1 DEF Shaped, BundleDoc, KindDoc, ShowOther
<1>6. CASE AppendEntry
  BY <1>6 DEF Shaped, BundleDoc, KindDoc, AppendEntry
<1> QED
  BY <1>1, <1>2, <1>3, <1>4, <1>5, <1>6 DEF DocNext

\* Documents have the fields of their kind, whatever is done to them.
LEMMA ShapeInvariant == DocSpec => []Shaped
<1>1. DocInit => Shaped
  BY DEF DocInit, Shaped, BundleDoc, KindDoc
<1>2. Shaped /\ [DocNext]_doc => Shaped'
  BY StepsKeepShape
<1> QED
  BY <1>1, <1>2, PTL DEF DocSpec

-----------------------------------------------------------------------------
(* Renditions *)

\* The signed media are what was given: only what is shown changes.
RenditionInv == doc.of = "rendition" => doc.signed \in Renditions

\* ShowOther changes no signed media.
LEMMA RenditionInvariant == DocSpec => []RenditionInv
<1>1. DocInit => RenditionInv
  BY DEF DocInit, RenditionInv, BundleDoc, KindDoc
<1>2. Shaped /\ RenditionInv /\ [DocNext]_doc => RenditionInv'
  <2>1. SUFFICES ASSUME Shaped, RenditionInv, [DocNext]_doc, doc.of = "rendition"
                 PROVE  doc'.signed = doc.signed
    BY StepsKeepShape DEF RenditionInv
  <2>2. UNCHANGED doc \/ ShowOther
    BY <2>1, StepsKeepShape
  <2>3. doc = [of |-> "rendition", signed |-> doc.signed, shown |-> doc.shown, hurt |-> doc.hurt]
    BY <2>1 DEF Shaped
  <2> QED
    BY <2>2, <2>3 DEF ShowOther
<1> QED
  BY <1>1, <1>2, ShapeInvariant, PTL DEF DocSpec

\* What fits the table of renditions has these keys, and its dimensions are no nulls.
LEMMA RenditionKeys ==
  ASSUME NEW m, Kinds!Fits(Kinds!Submap("Rendition"), Kinds!Map(m))
  PROVE  /\ {"blob", "codec", "bitrate"} \subseteq DOMAIN m
         /\ \A k \in {"width", "height"} \cap DOMAIN m : m[k] # Kinds!Null
<1>. DEFINE table == Kinds!Rendition
<1>1. {"blob", "codec", "bitrate", "width", "height"} \subseteq DOMAIN table
      /\ table["blob"] = Kinds!Required(Kinds!Hash32)
      /\ table["codec"] = Kinds!Required(Kinds!TextOf(1, 256))
      /\ table["bitrate"] = Kinds!Required(Kinds!Unsigned)
      /\ table["width"] = Kinds!Optional(Kinds!Unsigned)
      /\ table["height"] = Kinds!Optional(Kinds!Unsigned)
  BY DEF Kinds!Rendition, Kinds!With, Kinds!Media
<1>2. Kinds!ReadsAs(table, m, {k \in DOMAIN table \cap DOMAIN m : Kinds!FitsFlat(table[k].as, m[k])})
  BY DEF Kinds!Fits, Kinds!FitsItem, Kinds!Submap, Kinds!Map, Kinds!SubTable
<1> HIDE DEF table
<1>3. {"blob", "codec", "bitrate"} \subseteq DOMAIN m
  BY <1>1, <1>2 DEF Kinds!ReadsAs, Kinds!Has, Kinds!Required
<1>4. ASSUME NEW k \in {"width", "height"} \cap DOMAIN m PROVE m[k] # Kinds!Null
  <2>1. table[k] = Kinds!Optional(Kinds!Unsigned) /\ k \in DOMAIN table
    BY <1>1
  <2>2. Kinds!FitsFlat(Kinds!Unsigned, m[k])
    BY <1>2, <2>1 DEF Kinds!ReadsAs, Kinds!Has, Kinds!Optional
  <2> QED
    BY <2>2 DEF Kinds!FitsFlat, Kinds!FitsPlain, Kinds!Unsigned, Kinds!Null
<1> QED
  BY <1>3, <1>4

\* verify_derivation: a signature made for one original and its blob, codec, dimensions and
\* bitrate verifies with no others, and what is absent where it was made is absent where it
\* is shown.
THEOREM DerivationsBind == DocSpec => []DerivationBindsMedia
<1>. DEFINE told == {"blob", "codec", "width", "height", "bitrate"}
<1>1. ASSUME NEW a, NEW b, NEW m, NEW x,
             Kinds!Fits(Kinds!Submap("Rendition"), Kinds!Map(m)),
             Kinds!Fits(Kinds!Submap("Rendition"), Kinds!Map(x)),
             Kinds!Statement(a, m) = Kinds!Statement(b, x)
      PROVE  /\ a = b
             /\ told \cap DOMAIN m = told \cap DOMAIN x
             /\ \A k \in told \cap DOMAIN m : m[k] = x[k]
  <2>1. a = b /\ m["blob"] = x["blob"] /\ m["codec"] = x["codec"] /\ m["bitrate"] = x["bitrate"]
        /\ Kinds!Dimension(m, "width") = Kinds!Dimension(x, "width")
        /\ Kinds!Dimension(m, "height") = Kinds!Dimension(x, "height")
    BY <1>1 DEF Kinds!Statement
  <2>2. ASSUME NEW k \in {"width", "height"}
        PROVE  (k \in DOMAIN m <=> k \in DOMAIN x) /\ (k \in DOMAIN m => m[k] = x[k])
    <3>1. Kinds!Dimension(m, k) = Kinds!Dimension(x, k)
      BY <2>1
    <3> QED
      BY <1>1, <3>1, RenditionKeys DEF Kinds!Dimension, Kinds!Has
  <2>3. {"blob", "codec", "bitrate"} \subseteq DOMAIN m /\ {"blob", "codec", "bitrate"} \subseteq DOMAIN x
    BY <1>1, RenditionKeys
  <2> QED
    BY <2>1, <2>2, <2>3
<1>2. RenditionInv => DerivationBindsMedia
  <2>. DEFINE statement == Kinds!Statement(doc.signed.original, doc.signed.media)
              sig == Kinds!Bytes(Kinds!Signature(doc.signed.media.produced_by.of[2], statement), 64)
              media == Kinds!With(doc.shown.media,
                         [derivation_sig |-> sig, produced_by |-> doc.signed.media.produced_by])
  <2>1. SUFFICES ASSUME doc.of = "rendition", doc.signed \in Renditions,
                        Kinds!Fits(Kinds!Submap("Rendition"), Kinds!Map(media)),
                        Kinds!VerifyDerivation(media, doc.shown.original)
                 PROVE  /\ doc.shown.original = doc.signed.original
                        /\ told \cap DOMAIN media = told \cap DOMAIN doc.signed.media
                        /\ \A k \in told \cap DOMAIN media : media[k] = doc.signed.media[k]
    BY DEF RenditionInv, DerivationBindsMedia
  <2>2. media.derivation_sig = sig
    BY DEF Kinds!With
  <2>3. sig = Kinds!Bytes(Kinds!Signature(media.produced_by.of[2],
                                          Kinds!Statement(doc.shown.original, media)), 64)
    <3> HIDE DEF media, sig
    <3> QED
      BY <2>1, <2>2 DEF Kinds!VerifyDerivation
  <2>4. Kinds!Statement(doc.shown.original, media) = statement
    <3> HIDE DEF media, statement
    <3> QED
      BY <2>3 DEF Kinds!Bytes, Kinds!Signature
  <2>5. Kinds!Fits(Kinds!Submap("Rendition"), Kinds!Map(doc.signed.media))
    BY <2>1, RenditionsAssumption
  <2> HIDE DEF media, told
  <2> QED
    BY <1>1, <2>1, <2>4, <2>5
<1> QED
  BY <1>2, RenditionInvariant, PTL

-----------------------------------------------------------------------------
(* Loops *)

\* What holds at the start of a loop and is kept by each round holds at its end.
LEMMA UpToInduction ==
  ASSUME NEW n \in Nat, NEW A, 0 \in A, \A i \in 1..n : i - 1 \in A => i \in A
  PROVE  \A i \in 0..n : i \in A
<1>. DEFINE B == {i \in Nat : i <= n => i \in A}
<1>1. 0 \in B
  OBVIOUS
<1>2. ASSUME NEW i \in B PROVE i + 1 \in B
  <2>1. SUFFICES ASSUME i + 1 <= n PROVE i + 1 \in A
    OBVIOUS
  <2>2. i + 1 \in 1..n /\ (i + 1) - 1 = i /\ i \in A
    BY <1>2, <2>1
  <2> QED
    BY <2>2
<1>3. B = Nat
  <2> HIDE DEF B
  <2> B \in SUBSET Nat
    BY DEF B
  <2> QED
    BY <1>1, <1>2, SetInduction
<1>4. ASSUME NEW i \in 0..n PROVE i \in A
  <2>1. i \in Nat /\ i <= n
    OBVIOUS
  <2> QED
    BY <1>3, <2>1
<1> QED
  BY <1>4

\* The loop of Import exists.
LEMMA ImportLoop ==
  ASSUME NEW items, NEW n \in Nat
  PROVE  \E f : f = [i \in 0..n |-> IF i = 0 THEN Files!Fresh ELSE Files!ImportItem(f[i-1], items[i])]
<1>. DEFINE A == {k \in Nat : \E f : f = [i \in 0..k |-> IF i = 0 THEN Files!Fresh
              ELSE Files!ImportItem(f[i-1], items[i])]}
<1>1. 0 \in A
  <2>1. [i \in 0..0 |-> Files!Fresh] = [i \in 0..0 |-> IF i = 0 THEN Files!Fresh
          ELSE Files!ImportItem([j \in 0..0 |-> Files!Fresh][i-1], items[i])]
    OBVIOUS
  <2> QED
    BY <2>1
<1>2. ASSUME NEW k \in A PROVE k + 1 \in A
  <2>1. PICK f : f = [i \in 0..k |-> IF i = 0 THEN Files!Fresh ELSE Files!ImportItem(f[i-1], items[i])]
    BY <1>2
  <2>. DEFINE h == [i \in 0..k+1 |-> IF i = k + 1 THEN Files!ImportItem(f[k], items[k+1]) ELSE f[i]]
  <2>2. ASSUME NEW i \in 0..k+1
        PROVE  h[i] = IF i = 0 THEN Files!Fresh ELSE Files!ImportItem(h[i-1], items[i])
    <3>1. CASE i = k + 1
      BY <3>1
    <3>2. CASE i # k + 1
      <4>1. i \in 0..k
        BY <3>2
      <4>2. f[i] = IF i = 0 THEN Files!Fresh ELSE Files!ImportItem(f[i-1], items[i])
        BY <2>1, <4>1
      <4>3. i # 0 => h[i-1] = f[i-1]
        BY <4>1
      <4> QED
        BY <4>1, <4>2, <4>3
    <3> QED
      BY <3>1, <3>2
  <2>3. h = [i \in 0..k+1 |-> IF i = 0 THEN Files!Fresh ELSE Files!ImportItem(h[i-1], items[i])]
    BY <2>2
  <2> HIDE DEF h
  <2> QED
    BY <2>3
<1>3. A = Nat
  <2> HIDE DEF A
  <2> A \in SUBSET Nat
    BY DEF A
  <2> QED
    BY <1>1, <1>2, SetInduction
<1> QED
  BY <1>3

\* f is the state of the importer after each of the items.
Round(items, f) == f = [i \in 0..Len(items) |-> IF i = 0 THEN Files!Fresh
  ELSE Files!ImportItem(f[i-1], items[i])]
\* What import returns of its last state.
Out(s) == [records |-> s.records, blobs |-> s.blobs, reports |-> s.reports, truncated |-> ~s.ended]

\* Import is the last of its rounds, flushed.
LEMMA ImportRounds ==
  ASSUME NEW items, Len(items) \in Nat
  PROVE  \E f : Round(items, f) /\ Files!Import(items) = Out(Files!Flush(f[Len(items)]))
<1>. DEFINE after == CHOOSE f : f = [i \in 0..Len(items) |-> IF i = 0 THEN Files!Fresh
              ELSE Files!ImportItem(f[i-1], items[i])]
<1>1. Round(items, after)
  BY ImportLoop DEF Round
<1>2. Files!Import(items) = Out(Files!Flush(after[Len(items)]))
  BY DEF Files!Import, Out
<1> HIDE DEF after
<1> QED
  BY <1>1, <1>2

-----------------------------------------------------------------------------
(* The importer's state *)

\* A sequence of some members of a set, none twice.
Once(s, S) == s \in Seq(S) /\ \A i, j \in 1..Len(s) : s[i] = s[j] => i = j

\* A member that is not in such a sequence may be appended.
LEMMA OnceMore ==
  ASSUME NEW S, NEW s, Once(s, S), NEW x \in S, x \notin ToSet(s)
  PROVE  Once(Append(s, x), S) /\ ToSet(Append(s, x)) = ToSet(s) \cup {x}
<1>1. /\ Append(s, x) \in Seq(S)
      /\ Len(Append(s, x)) = Len(s) + 1
      /\ Append(s, x)[Len(s) + 1] = x
      /\ \A i \in 1..Len(s) : Append(s, x)[i] = s[i]
  BY AppendProperties DEF Once
<1>2. Len(s) \in Nat /\ DOMAIN s = 1..Len(s) /\ DOMAIN Append(s, x) = 1..(Len(s) + 1)
  BY <1>1, LenProperties DEF Once
<1>3. \A i \in 1..(Len(s) + 1) : i # Len(s) + 1 => i \in 1..Len(s)
  BY <1>2
<1>4. ToSet(Append(s, x)) = ToSet(s) \cup {x}
  BY <1>1, <1>2, <1>3 DEF ToSet
<1>5. \A i \in 1..Len(s) : s[i] # x
  BY <1>2 DEF ToSet
<1>6. ASSUME NEW i \in 1..(Len(s) + 1), NEW j \in 1..(Len(s) + 1), Append(s, x)[i] = Append(s, x)[j]
      PROVE  i = j
  BY <1>1, <1>3, <1>5, <1>6 DEF Once
<1> QED
  BY <1>1, <1>4, <1>6 DEF Once

\* What is exported, by its records and its blobs.
Rs == ToSet(doc.was.records)
\* The blobs of what is exported; a blob is its own id.
Bs == ToSet(doc.was.blobs)
\* The end item the export wrote.
AtEnd == Files!EndItem(Len(doc.was.records), Cardinality(Bs))

\* What can be pending: nothing, or some parts of an exported blob.
InPart(p) == p = Files!NoParts \/ (p.id \in Bs /\ p = Files!Pending(p.id, p.next, p.content))

\* The state of an importer: records and blobs of the export, each at most once; when it
\* has ended without a report it counted as many as the end item says.
Sane(s) ==
  /\ s = [records |-> s.records, blobs |-> s.blobs, pending |-> s.pending, first |-> s.first,
          ended |-> s.ended, stopped |-> s.stopped, reports |-> s.reports]
  /\ Once(s.records, Rs) /\ Once(s.blobs, Bs) /\ InPart(s.pending)
  /\ {s.first, s.ended, s.stopped} \subseteq BOOLEAN /\ s.reports \in Nat
  /\ s.ended => /\ s.pending = Files!NoParts
                /\ \/ s.reports > 0
                   \/ /\ Len(s.records) = Len(doc.was.records)
                      /\ Len(s.blobs) = Cardinality(Bs)

\* What an item of a bundle can be after it was spoiled.
Item(it) ==
  \/ it \in {Files!Unusable, Files!Unreadable, [tag |-> "other"], Files!Hdr, AtEnd}
  \/ it = Files!Malformed(it.of)
  \/ it = Files!RItem(it.record) /\ it.record \in Rs
  \/ it = Files!BItem(it.id, it.content) /\ it.id \in Bs
  \/ it = Files!BpItem(it.id, it.index, it.part) /\ it.id \in Bs /\ it.index \in Nat

\* Nothing but pending, blobs and reports differs, and nothing handed on is lost.
Grown(s, t) ==
  /\ t.first = s.first /\ t.ended = s.ended /\ t.stopped = s.stopped /\ t.records = s.records
  /\ t.reports >= s.reports /\ ToSet(s.blobs) \subseteq ToSet(t.blobs)

\* A report changes nothing else.
LEMMA Reported ==
  ASSUME NEW s, Sane(s)
  PROVE  Sane(Files!Report(s)) /\ Grown(s, Files!Report(s)) /\ Files!Report(s).pending = s.pending
         /\ Files!Report(s).reports > 0 /\ Files!Report(s).blobs = s.blobs
BY DEF Sane, Grown, Files!Report

\* A blob is handed on once, and with a report if it was before.
LEMMA HandedBlob ==
  ASSUME NEW s, Sane(s), ~s.ended, NEW b \in Bs
  PROVE  /\ Sane(Files!HandBlob(s, b)) /\ Grown(s, Files!HandBlob(s, b))
         /\ ToSet(Files!HandBlob(s, b).blobs) = ToSet(s.blobs) \cup {b}
         /\ Files!HandBlob(s, b).pending = s.pending
<1>1. CASE b \in ToSet(s.blobs)
  BY <1>1 DEF Files!HandBlob, Files!ToSet, ToSet, Sane, Grown
<1>2. CASE b \notin ToSet(s.blobs)
  <2>1. Once(Append(s.blobs, b), Bs) /\ ToSet(Append(s.blobs, b)) = ToSet(s.blobs) \cup {b}
    BY <1>2, OnceMore DEF Sane
  <2>2. Files!HandBlob(s, b) = [s EXCEPT !.blobs = Append(s.blobs, b)]
    BY <1>2 DEF Files!HandBlob, Files!ToSet, ToSet
  <2>. DEFINE more == Append(s.blobs, b)
  <2> HIDE DEF more
  <2>3. Files!HandBlob(s, b) =
          [records |-> s.records, blobs |-> more, pending |-> s.pending, first |-> s.first,
            ended |-> s.ended, stopped |-> s.stopped, reports |-> s.reports]
    BY <2>2 DEF Sane, more
  <2> QED
    BY <2>1, <2>3 DEF Sane, Grown, more
<1> QED
  BY <1>1, <1>2

\* A record is handed on once, and with a report if it was before.
LEMMA HandedRecord ==
  ASSUME NEW s, Sane(s), ~s.ended, NEW r \in Rs
  PROVE  /\ Sane(Files!HandRecord(s, r))
         /\ Grown([s EXCEPT !.records = Files!HandRecord(s, r).records], Files!HandRecord(s, r))
         /\ ToSet(Files!HandRecord(s, r).records) = ToSet(s.records) \cup {r}
         /\ Files!HandRecord(s, r).pending = s.pending /\ Files!HandRecord(s, r).blobs = s.blobs
<1>1. CASE r \in ToSet(s.records)
  BY <1>1 DEF Files!HandRecord, Files!ToSet, ToSet, Sane, Grown
<1>2. CASE r \notin ToSet(s.records)
  <2>1. Once(Append(s.records, r), Rs) /\ ToSet(Append(s.records, r)) = ToSet(s.records) \cup {r}
    BY <1>2, OnceMore DEF Sane
  <2>2. Files!HandRecord(s, r) = [s EXCEPT !.records = Append(s.records, r)]
    BY <1>2 DEF Files!HandRecord, Files!ToSet, ToSet
  <2>. DEFINE more == Append(s.records, r)
  <2> HIDE DEF more
  <2>3. Files!HandRecord(s, r) =
          [records |-> more, blobs |-> s.blobs, pending |-> s.pending, first |-> s.first,
            ended |-> s.ended, stopped |-> s.stopped, reports |-> s.reports]
    BY <2>2 DEF Sane, more
  <2> QED
    BY <2>1, <2>3 DEF Sane, Grown, more
<1> QED
  BY <1>1, <1>2

\* A pending blob is closed: it is handed on when it is whole.
LEMMA Flushed ==
  ASSUME NEW s, Sane(s)
  PROVE  /\ Sane(Files!Flush(s)) /\ Grown(s, Files!Flush(s))
         /\ Files!Flush(s).pending = Files!NoParts
         /\ s.pending # Files!NoParts /\ s.pending.content = s.pending.id
              => s.pending.id \in ToSet(Files!Flush(s).blobs)
<1>1. CASE s.pending = Files!NoParts
  BY <1>1 DEF Files!Flush, Grown, Sane
<1>2. CASE s.pending # Files!NoParts
  <2>. DEFINE t == [s EXCEPT !.pending = Files!NoParts]
  <2>1. Sane(t) /\ Grown(s, t) /\ t.pending = Files!NoParts /\ t.ended = s.ended /\ t.blobs = s.blobs
    BY DEF Sane, Grown, InPart
  <2>2. s.pending.id \in Bs
    BY <1>2 DEF Sane, InPart
  <2>3. Files!Flush(s) = IF s.pending.content = s.pending.id THEN Files!HandBlob(t, s.pending.id)
          ELSE Files!Report(t)
    BY <1>2 DEF Files!Flush
  <2> HIDE DEF t
  <2>4. CASE s.pending.content = s.pending.id /\ ~s.ended
    <3>1. Files!Flush(s) = Files!HandBlob(t, s.pending.id)
      BY <2>3, <2>4
    <3>. DEFINE u == Files!HandBlob(t, s.pending.id)
    <3>2. Sane(u) /\ Grown(t, u) /\ ToSet(u.blobs) = ToSet(t.blobs) \cup {s.pending.id} /\ u.pending = t.pending
      BY <2>1, <2>2, <2>4, HandedBlob
    <3> HIDE DEF u
    <3>3. {u.reports, t.reports, s.reports} \subseteq Nat
      BY <2>1, <3>2 DEF Sane
    <3> QED
      BY <2>1, <3>1, <3>2, <3>3 DEF Grown, u
  <2>5. CASE s.pending.content # s.pending.id
    <3>1. Files!Flush(s) = Files!Report(t)
      BY <2>3, <2>5
    <3> QED
      BY <2>1, <2>5, <3>1, Reported DEF Grown, Sane
  <2>6. CASE s.ended
    BY <1>2, <2>6 DEF Sane
  <2> QED
    BY <2>4, <2>5, <2>6
<1> QED
  BY <1>1, <1>2

\* What neither of two steps loses both do not lose.
LEMMA GrownTwice ==
  ASSUME NEW s, NEW t, NEW u, Sane(s), Sane(t), Sane(u), Grown(s, t), Grown(t, u)
  PROVE  Grown(s, u)
<1>1. {s.reports, t.reports, u.reports} \subseteq Nat
  BY DEF Sane
<1> QED
  BY <1>1 DEF Grown

\* A blob is handed on, or it is pending and whole.
Delivered(s, b) == b \in ToSet(s.blobs) \/ s.pending = Files!Pending(b, s.pending.next, b)

\* Nothing pending is not some parts.
LEMMA NoPartsIsNoBlob == \A b, n, c : Files!NoParts # Files!Pending(b, n, c)
BY DEF Files!NoParts, Files!Pending

\* The fields of what is pending.
LEMMA PendingParts ==
  \A b, n, c : Files!Pending(b, n, c).id = b /\ Files!Pending(b, n, c).next = n
    /\ Files!Pending(b, n, c).content = c
BY DEF Files!Pending

\* The flush at the end hands on what is pending and whole.
LEMMA FlushDelivers ==
  ASSUME NEW s, Sane(s), NEW b, Delivered(s, b)
  PROVE  b \in ToSet(Files!Flush(s).blobs)
<1>1. CASE b \in ToSet(s.blobs)
  BY <1>1, Flushed DEF Grown
<1>2. CASE s.pending = Files!Pending(b, s.pending.next, b)
  BY <1>2, Flushed, NoPartsIsNoBlob, PendingParts
<1> QED
  BY <1>1, <1>2 DEF Delivered

\* The content a part makes with what is pending, when it continues it.
Continues(s, it) ==
  IF s.pending = Files!NoParts THEN it.index = 0 ELSE s.pending.id = it.id /\ s.pending.next = it.index
\* The content when the part is joined to what is pending.
Joined(s, it) == IF s.pending = Files!NoParts THEN it.part ELSE s.pending.content \o it.part

\* A part of an exported blob.
BpOk(it) == it = Files!BpItem(it.id, it.index, it.part) /\ it.id \in Bs /\ it.index \in Nat

\* A short part closes its blob, which is handed on if it is whole; another is pending.
LEMMA PartTaken ==
  ASSUME NEW s, Sane(s), ~s.ended, NEW it, BpOk(it), NEW content
  PROVE  LET u == Files!Take(s, it, content) IN
         /\ Sane(u) /\ Grown(s, u)
         /\ IF Len(it.part) < PartSize
              THEN u.pending = Files!NoParts /\ (content = it.id => it.id \in ToSet(u.blobs))
              ELSE u.pending = Files!Pending(it.id, it.index + 1, content)
<1>. DEFINE p == Files!Pending(it.id, it.index + 1, content)
            t == [s EXCEPT !.pending = p]
<1>1. p = Files!Pending(p.id, p.next, p.content) /\ p.id = it.id /\ p.content = content /\ p # Files!NoParts
  BY PendingParts, NoPartsIsNoBlob
<1>2. InPart(p)
  BY <1>1 DEF InPart, BpOk
<1>3. Files!Take(s, it, content) = IF Len(it.part) < PartSize THEN Files!Flush(t) ELSE t
  BY DEF Files!Take
<1> HIDE DEF p
<1>4. t = [records |-> s.records, blobs |-> s.blobs, pending |-> p, first |-> s.first,
           ended |-> s.ended, stopped |-> s.stopped, reports |-> s.reports]
  BY DEF Sane
<1> HIDE DEF t
<1>5. Sane(t) /\ Grown(s, t) /\ t.pending = p
  BY <1>2, <1>4 DEF Sane, Grown
<1>6. CASE Len(it.part) < PartSize
  <2>1. Sane(Files!Flush(t)) /\ Grown(s, Files!Flush(t)) /\ Files!Flush(t).pending = Files!NoParts
    BY <1>5, Flushed, GrownTwice
  <2>2. content = it.id => it.id \in ToSet(Files!Flush(t).blobs)
    BY <1>1, <1>5, Flushed
  <2> QED
    BY <1>3, <1>6, <2>1, <2>2
<1>7. CASE ~(Len(it.part) < PartSize)
  BY <1>3, <1>5, <1>7 DEF p
<1> QED
  BY <1>6, <1>7

\* A part that does not continue what is pending closes it, and leaves nothing pending.
LEMMA PartAdded ==
  ASSUME NEW s, Sane(s), ~s.ended, NEW it, BpOk(it)
  PROVE  LET u == Files!AddPart(s, it) IN
         /\ Sane(u) /\ Grown(s, u)
         /\ IF Continues(s, it)
              THEN IF Len(it.part) < PartSize
                     THEN u.pending = Files!NoParts /\ (Joined(s, it) = it.id => it.id \in ToSet(u.blobs))
                     ELSE u.pending = Files!Pending(it.id, it.index + 1, Joined(s, it))
              ELSE u.pending = Files!NoParts
         /\ \A b : Delivered(s, b) /\ b # it.id => Delivered(u, b)
<1>. DEFINE u == Files!AddPart(s, it)
<1>1. ASSUME Continues(s, it) PROVE u = Files!Take(s, it, Joined(s, it))
  BY <1>1 DEF Files!AddPart, Continues, Joined
<1>2. CASE Continues(s, it)
  <2>1. \A b : Delivered(s, b) /\ b # it.id => b \in ToSet(s.blobs)
    BY <1>2, NoPartsIsNoBlob, PendingParts DEF Continues, Delivered
  <2> HIDE DEF u
  <2>2. Grown(s, u)
    BY <1>1, <1>2, PartTaken
  <2>3. \A b : Delivered(s, b) /\ b # it.id => Delivered(u, b)
    BY <2>1, <2>2 DEF Grown, Delivered
  <2> QED
    BY <1>1, <1>2, <2>3, PartTaken DEF u
<1>3. CASE ~Continues(s, it) /\ s.pending = Files!NoParts
  <2>1. u = Files!Report(s)
    BY <1>3 DEF Files!AddPart, Continues
  <2>2. \A b : Delivered(s, b) => Delivered(u, b)
    <3> HIDE DEF u
    <3> QED
      BY <2>1, <1>3, Reported, NoPartsIsNoBlob DEF Delivered
  <2> QED
    BY <1>3, <2>1, <2>2, Reported
<1>4. CASE ~Continues(s, it) /\ s.pending # Files!NoParts
  <2>. DEFINE t == Files!Report(s)
  <2>1. u = Files!Flush(t)
    BY <1>4 DEF Files!AddPart, Continues
  <2>2. Sane(t) /\ Grown(s, t) /\ t.pending = s.pending /\ t.blobs = s.blobs
    BY Reported
  <2> HIDE DEF t, u
  <2>3. Sane(u) /\ Grown(s, u) /\ u.pending = Files!NoParts
    BY <2>1, <2>2, Flushed, GrownTwice
  <2>4. \A b : Delivered(s, b) => Delivered(u, b)
    <3>1. \A b : Delivered(s, b) => Delivered(t, b)
      BY <2>2 DEF Delivered
    <3> QED
      BY <2>1, <2>2, <3>1, FlushDelivers DEF Delivered
  <2> QED
    BY <1>4, <2>3, <2>4 DEF u
<1> QED
  BY <1>2, <1>3, <1>4

\* The items after which an import reads no other: the end, or one that is malformed.
Ends(it) == it.tag = "end" \/ it = Files!Malformed("end")

\* What one item does to an import that goes on.
Does(s, it, u) ==
  /\ Sane(u) /\ ToSet(s.blobs) \subseteq ToSet(u.blobs)
  /\ u.ended <=> Ends(it)
  /\ ~s.stopped /\ it # Files!Unreadable => ~u.stopped
  /\ ToSet(u.records) = ToSet(s.records) \cup (IF it.tag = "r" THEN {it.record} \cap Valid ELSE {})
  /\ it.tag \in {"r", "b"} => u.pending = Files!NoParts
  /\ it.tag = "b" /\ it.content = it.id => it.id \in ToSet(u.blobs)
  /\ it.tag = "bp" =>
       IF ~Continues(s, it) THEN u.pending = Files!NoParts
       ELSE IF Len(it.part) < PartSize
         THEN u.pending = Files!NoParts /\ (Joined(s, it) = it.id => it.id \in ToSet(u.blobs))
       ELSE u.pending = Files!Pending(it.id, it.index + 1, Joined(s, it))
  /\ \A b : Delivered(s, b) /\ ~(it.tag = "bp" /\ it.id = b) => Delivered(u, b)

\* The tags of the items.
LEMMA Tags ==
  /\ Files!Hdr.tag = "hdr" /\ Files!Unusable.tag = "unusable" /\ Files!Unreadable.tag = "unreadable"
  /\ AtEnd.tag = "end" /\ \A t : Files!Malformed(t).tag = "malformed" /\ Files!Malformed(t).of = t
  /\ \A r : Files!RItem(r).tag = "r" /\ \A b, c : Files!BItem(b, c).tag = "b"
  /\ \A b, i, c : Files!BpItem(b, i, c).tag = "bp"
BY DEF Files!Hdr, Files!Unusable, Files!Unreadable, AtEnd, Files!EndItem, Files!Malformed,
       Files!RItem, Files!BItem, Files!BpItem

\* A tag tells what an item is.
LEMMA ItemTags ==
  ASSUME NEW it, Item(it)
  PROVE  /\ it.tag = "r" <=> (it = Files!RItem(it.record) /\ it.record \in Rs)
         /\ it.tag = "b" <=> (it = Files!BItem(it.id, it.content) /\ it.id \in Bs)
         /\ it.tag = "bp" <=> BpOk(it)
         /\ it.tag = "end" <=> it = AtEnd
         /\ it.tag = "malformed" <=> it = Files!Malformed(it.of)
         /\ it.tag = "hdr" <=> it = Files!Hdr
         /\ it.tag = "unreadable" <=> it = Files!Unreadable
         /\ it.tag = "unusable" <=> it = Files!Unusable
         /\ it.tag \in {"r", "b", "bp", "end", "malformed", "hdr", "unreadable", "unusable", "other"}
BY Tags DEF Item, BpOk

\* A report alone.
LEMMA ReportDoes ==
  ASSUME NEW s, Sane(s), ~s.ended, NEW it, it.tag \notin {"r", "b", "bp", "end"}, ~Ends(it)
  PROVE  Does(s, it, Files!Report(s))
<1>. DEFINE u == Files!Report(s)
<1>1. Sane(u) /\ Grown(s, u) /\ u.pending = s.pending /\ u.blobs = s.blobs
  BY Reported
<1> HIDE DEF u
<1>2. \A b : Delivered(s, b) => Delivered(u, b)
  BY <1>1 DEF Delivered
<1>3. Does(s, it, u)
  BY <1>1, <1>2 DEF Does, Grown
<1> QED
  BY <1>3 DEF u

\* The same, after what was pending is closed.
LEMMA FlushReportDoes ==
  ASSUME NEW s, Sane(s), ~s.ended, NEW it, it.tag # "bp", ~Ends(it),
         it.tag = "b" => it.content # it.id, it.tag = "r" => it.record \notin Valid
  PROVE  Does(s, it, Files!Report(Files!Flush(s)))
<1>. DEFINE t == Files!Flush(s)
            u == Files!Report(t)
<1>1. Sane(t) /\ Grown(s, t) /\ t.pending = Files!NoParts
  BY Flushed
<1>2. \A b : Delivered(s, b) => b \in ToSet(t.blobs)
  BY FlushDelivers
<1> HIDE DEF t
<1>3. Sane(u) /\ Grown(t, u) /\ u.pending = t.pending /\ u.blobs = t.blobs
  BY <1>1, Reported
<1> HIDE DEF u
<1>4. Grown(s, u)
  BY <1>1, <1>3, GrownTwice
<1>5. Does(s, it, u)
  BY <1>1, <1>2, <1>3, <1>4 DEF Does, Grown, Delivered
<1> QED
  BY <1>5 DEF t, u

\* A record: it closes what is pending and is handed on if it is valid.
LEMMA RecordDoes ==
  ASSUME NEW s, Sane(s), ~s.ended, NEW it, it.tag = "r", it.record \in Rs
  PROVE  Does(s, it, Files!AddRecord(Files!Flush(s), it))
<1>1. ~Ends(it)
  BY Tags DEF Ends
<1>2. CASE it.record \notin Valid
  BY <1>1, <1>2, FlushReportDoes DEF Files!AddRecord
<1>3. CASE it.record \in Valid
  <2>. DEFINE t == Files!Flush(s)
              u == Files!HandRecord(t, it.record)
  <2>1. Sane(t) /\ Grown(s, t) /\ t.pending = Files!NoParts
    BY Flushed
  <2>2. \A b : Delivered(s, b) => b \in ToSet(t.blobs)
    BY FlushDelivers
  <2>3. Files!AddRecord(Files!Flush(s), it) = u
    BY <1>3 DEF Files!AddRecord
  <2> HIDE DEF t
  <2>4. ~t.ended
    BY <2>1 DEF Grown
  <2>5. /\ Sane(u) /\ ToSet(u.records) = ToSet(t.records) \cup {it.record}
        /\ u.pending = t.pending /\ u.blobs = t.blobs
        /\ Grown([t EXCEPT !.records = u.records], u)
    BY <2>1, <2>4, HandedRecord
  <2>6. ~u.ended /\ u.stopped = s.stopped
    BY <2>1, <2>4, <2>5 DEF Grown, Sane
  <2> HIDE DEF u
  <2>7. ToSet(u.records) = ToSet(s.records) \cup ({it.record} \cap Valid)
    BY <1>3, <2>1, <2>5 DEF Grown
  <2> QED
    BY <1>1, <2>1, <2>2, <2>3, <2>5, <2>6, <2>7 DEF Does, Grown, Delivered
<1> QED
  BY <1>2, <1>3

\* A blob in one item: it closes what is pending and is handed on if it has its id.
LEMMA BlobDoes ==
  ASSUME NEW s, Sane(s), ~s.ended, NEW it, it.tag = "b", it.id \in Bs
  PROVE  Does(s, it, Files!AddBlob(Files!Flush(s), it))
<1>1. ~Ends(it)
  BY Tags DEF Ends
<1>2. CASE it.content # it.id
  BY <1>1, <1>2, FlushReportDoes DEF Files!AddBlob
<1>3. CASE it.content = it.id
  <2>. DEFINE t == Files!Flush(s)
              u == Files!HandBlob(t, it.id)
  <2>1. Sane(t) /\ Grown(s, t) /\ t.pending = Files!NoParts
    BY Flushed
  <2>2. \A b : Delivered(s, b) => b \in ToSet(t.blobs)
    BY FlushDelivers
  <2>3. Files!AddBlob(Files!Flush(s), it) = u
    BY <1>3 DEF Files!AddBlob
  <2> HIDE DEF t
  <2>4. ~t.ended
    BY <2>1 DEF Grown
  <2>5. /\ Sane(u) /\ ToSet(u.blobs) = ToSet(t.blobs) \cup {it.id}
        /\ u.pending = t.pending /\ Grown(t, u)
    BY <2>1, <2>4, HandedBlob
  <2> HIDE DEF u
  <2>6. Grown(s, u)
    BY <2>1, <2>5, GrownTwice
  <2> QED
    BY <1>1, <2>1, <2>2, <2>3, <2>5, <2>6 DEF Does, Grown, Delivered
<1> QED
  BY <1>2, <1>3

\* A part of a blob.
LEMMA PartDoes ==
  ASSUME NEW s, Sane(s), ~s.ended, NEW it, BpOk(it)
  PROVE  Does(s, it, Files!AddPart(s, it))
<1>1. it.tag = "bp" /\ ~Ends(it)
  BY Tags DEF Ends, BpOk
<1>. DEFINE u == Files!AddPart(s, it)
<1>2. /\ Sane(u) /\ Grown(s, u)
      /\ IF Continues(s, it)
           THEN IF Len(it.part) < PartSize
                  THEN u.pending = Files!NoParts /\ (Joined(s, it) = it.id => it.id \in ToSet(u.blobs))
                  ELSE u.pending = Files!Pending(it.id, it.index + 1, Joined(s, it))
           ELSE u.pending = Files!NoParts
      /\ \A b : Delivered(s, b) /\ b # it.id => Delivered(u, b)
  BY PartAdded
<1> HIDE DEF u
<1>3. Does(s, it, u)
  BY <1>1, <1>2 DEF Does, Grown
<1> QED
  BY <1>3 DEF u

\* The end closes the import, with a report unless as much was handed on as it says.
LEMMA EndDoes ==
  ASSUME NEW s, Sane(s), ~s.ended
  PROVE  /\ Does(s, AtEnd, Files!Count(Files!Flush(s), AtEnd))
         /\ Does(s, Files!Malformed("end"), Files!Report([Files!Flush(s) EXCEPT !.ended = TRUE]))
<1>. DEFINE t == Files!Flush(s)
            n == IF Len(t.records) = Len(doc.was.records) /\ Len(t.blobs) = Cardinality(Bs)
                   THEN t.reports ELSE t.reports + 1
            U(k) == [records |-> t.records, blobs |-> t.blobs, pending |-> Files!NoParts, first |-> t.first,
                     ended |-> TRUE, stopped |-> t.stopped, reports |-> k]
<1>1. Sane(t) /\ Grown(s, t) /\ t.pending = Files!NoParts
  BY Flushed
<1>2. \A b : Delivered(s, b) => b \in ToSet(t.blobs)
  BY FlushDelivers
<1> HIDE DEF t
<1>3. Files!Count(t, AtEnd) = U(n)
  BY <1>1 DEF Files!Count, AtEnd, Files!EndItem, Files!Report, Sane
<1>4. Files!Report([t EXCEPT !.ended = TRUE]) = U(t.reports + 1)
  <2>1. \A e \in BOOLEAN : Files!Report([t EXCEPT !.ended = e]) =
          [records |-> t.records, blobs |-> t.blobs, pending |-> t.pending, first |-> t.first,
           ended |-> e, stopped |-> t.stopped, reports |-> t.reports + 1]
    <3>1. TAKE e \in BOOLEAN
    <3>. DEFINE v == [t EXCEPT !.ended = e]
    <3>2. v = [records |-> t.records, blobs |-> t.blobs, pending |-> t.pending, first |-> t.first,
               ended |-> e, stopped |-> t.stopped, reports |-> t.reports]
      BY <1>1 DEF Sane
    <3> HIDE DEF v
    <3>3. Files!Report(v) =
            [records |-> t.records, blobs |-> t.blobs, pending |-> t.pending, first |-> t.first,
             ended |-> e, stopped |-> t.stopped, reports |-> t.reports + 1]
      BY <3>2 DEF Files!Report
    <3> QED
      BY <3>3 DEF v
  <2> QED
    BY <1>1, <2>1
<1>5. ASSUME NEW k \in Nat, k > 0 \/ (Len(t.records) = Len(doc.was.records) /\ Len(t.blobs) = Cardinality(Bs))
      PROVE  Sane(U(k)) /\ U(k).records = t.records /\ U(k).blobs = t.blobs /\ U(k).ended
        /\ U(k).stopped = t.stopped
  BY <1>1, <1>5 DEF Sane, InPart
<1>6. t.reports \in Nat /\ n \in Nat /\ t.reports + 1 > 0 /\ t.reports + 1 \in Nat
  BY <1>1 DEF Sane
<1>7. n > 0 \/ (Len(t.records) = Len(doc.was.records) /\ Len(t.blobs) = Cardinality(Bs))
  BY <1>6
<1> HIDE DEF n, U
<1>8. ASSUME NEW u, Sane(u), u.records = t.records, u.blobs = t.blobs, u.ended, u.stopped =
        t.stopped, NEW it, Ends(it),
             it.tag \in {"end", "malformed"}
      PROVE  Does(s, it, u)
  BY <1>1, <1>2, <1>8 DEF Does, Grown, Delivered
<1>9. Ends(AtEnd) /\ Ends(Files!Malformed("end"))
  BY Tags DEF Ends
<1> QED
  BY <1>3, <1>4, <1>5, <1>6, <1>7, <1>8, <1>9, Tags DEF t
\* Each item by its tag.
LEMMA TagDoes ==
  ASSUME NEW s, Sane(s), ~s.ended, NEW it, Item(it), it # Files!Unreadable
  PROVE  Does(s, it, Files!ByTag(s, it))
<1>1. CASE it.tag = "r"
  BY <1>1, ItemTags, RecordDoes DEF Files!ByTag
<1>2. CASE it.tag = "b"
  BY <1>2, ItemTags, BlobDoes DEF Files!ByTag
<1>3. CASE it.tag = "bp"
  BY <1>3, ItemTags, PartDoes DEF Files!ByTag
<1>4. CASE it.tag = "end"
  BY <1>4, ItemTags, EndDoes DEF Files!ByTag
<1>5. CASE it.tag = "malformed" /\ it.of = "end"
  <2>1. it = Files!Malformed("end")
    BY <1>5, ItemTags
  <2> QED
    BY <1>5, <2>1, EndDoes DEF Files!ByTag, Files!AddMalformed
<1>6. CASE it.tag = "malformed" /\ it.of \in {"r", "b"}
  <2>1. ~Ends(it)
    BY <1>6, Tags DEF Ends
  <2>2. Files!ByTag(s, it) = Files!Report(Files!Flush(s))
    BY <1>6 DEF Files!ByTag, Files!AddMalformed
  <2> QED
    BY <1>6, <2>1, <2>2, FlushReportDoes
<1>7. CASE it.tag = "malformed" /\ it.of \notin {"r", "b", "end"}
  <2>1. ~Ends(it)
    BY <1>7, Tags DEF Ends
  <2>2. Files!ByTag(s, it) = Files!Report(s)
    BY <1>7 DEF Files!ByTag, Files!AddMalformed
  <2> QED
    BY <1>7, <2>1, <2>2, ReportDoes
<1>8. CASE it.tag \notin {"r", "b", "bp", "end", "malformed"}
  <2>1. ~Ends(it)
    BY <1>8, Tags DEF Ends
  <2>2. Files!ByTag(s, it) = Files!Report(s)
    BY <1>8 DEF Files!ByTag
  <2> QED
    BY <1>8, <2>1, <2>2, ReportDoes
<1> QED
  BY <1>1, <1>2, <1>3, <1>4, <1>5, <1>6, <1>7, <1>8

\* One item of an import that goes on.
LEMMA ItemDoes ==
  ASSUME NEW s, Sane(s), ~s.ended, ~s.stopped, NEW it, Item(it)
  PROVE  Does(s, it, Files!ImportItem(s, it))
<1>. DEFINE t == [s EXCEPT !.first = FALSE]
<1>1. t = [records |-> s.records, blobs |-> s.blobs, pending |-> s.pending, first |-> FALSE,
           ended |-> s.ended, stopped |-> s.stopped, reports |-> s.reports]
  <2>1. \A e \in BOOLEAN : [s EXCEPT !.first = e] =
          [records |-> s.records, blobs |-> s.blobs, pending |-> s.pending, first |-> e,
           ended |-> s.ended, stopped |-> s.stopped, reports |-> s.reports]
    BY DEF Sane
  <2> QED
    BY <2>1
<1> HIDE DEF t
<1>2. Sane(t) /\ t.records = s.records /\ t.blobs = s.blobs /\ t.pending = s.pending /\ ~t.stopped /\ ~t.ended
  BY <1>1 DEF Sane
<1>3. ASSUME NEW v, v.records = s.records, v.blobs = s.blobs, v.pending = s.pending, ~v.stopped,
             NEW u, Does(v, it, u)
      PROVE  Does(s, it, u)
  BY <1>3 DEF Does, Delivered, Continues, Joined
<1>4. CASE it = Files!Unreadable
  <2>. DEFINE r == Files!Report(s)
              u == [r EXCEPT !.stopped = TRUE]
  <2>1. Sane(r) /\ r.blobs = s.blobs /\ r.pending = s.pending /\ r.records = s.records /\ ~r.ended
    BY Reported DEF Grown
  <2>2. Files!ImportItem(s, it) = u
    BY <1>4 DEF Files!ImportItem
  <2> HIDE DEF r
  <2>3. \A e \in BOOLEAN : [r EXCEPT !.stopped = e] =
          [records |-> r.records, blobs |-> r.blobs, pending |-> r.pending, first |-> r.first,
           ended |-> r.ended, stopped |-> e, reports |-> r.reports]
    BY <2>1 DEF Sane
  <2>4. \A e \in BOOLEAN : LET v == [r EXCEPT !.stopped = e] IN
          Sane(v) /\ v.blobs = s.blobs /\ v.pending = s.pending /\ v.records = s.records /\ ~v.ended
    BY <2>1, <2>3 DEF Sane
  <2>5. Sane(u) /\ u.blobs = s.blobs /\ u.pending = s.pending /\ u.records = s.records /\ ~u.ended
    BY <2>4
  <2> HIDE DEF u
  <2> QED
    BY <1>4, <2>2, <2>5, Tags DEF Does, Ends, Delivered
<1>5. CASE it = Files!Unusable
  <2>1. Files!ImportItem(s, it) = Files!Report(s)
    BY <1>5, Tags DEF Files!ImportItem
  <2> QED
    BY <1>5, <2>1, ReportDoes, Tags DEF Ends
<1>6. CASE it \notin {Files!Unreadable, Files!Unusable} /\ ~s.first
  <2>1. Files!ImportItem(s, it) = Files!ByTag(s, it)
    BY <1>6 DEF Files!ImportItem
  <2> QED
    BY <1>6, <2>1, TagDoes
<1>7. CASE it \notin {Files!Unreadable, Files!Unusable} /\ s.first /\ it.tag = "hdr"
  <2>1. Files!ImportItem(s, it) = t
    BY <1>7 DEF Files!ImportItem, t
  <2> QED
    BY <1>2, <1>7, <2>1, Tags DEF Does, Ends, Delivered
<1>8. CASE it \notin {Files!Unreadable, Files!Unusable} /\ s.first /\ it.tag # "hdr"
  <2>. DEFINE v == Files!Report(t)
  <2>1. Files!ImportItem(s, it) = Files!ByTag(v, it)
    BY <1>8 DEF Files!ImportItem, t
  <2>2. Sane(v) /\ v.blobs = s.blobs /\ v.pending = s.pending /\ v.records = s.records /\ ~v.ended /\ ~v.stopped
    BY <1>2, Reported DEF Grown
  <2> HIDE DEF v
  <2>3. Does(v, it, Files!ByTag(v, it))
    BY <1>8, <2>2, TagDoes
  <2> QED
    BY <1>3, <2>1, <2>2, <2>3
<1> QED
  BY <1>4, <1>5, <1>6, <1>7, <1>8

\* One item of an import that does not go on.
LEMMA ItemIgnored ==
  ASSUME NEW s, Sane(s), s.ended \/ s.stopped, NEW it
  PROVE  LET u == Files!ImportItem(s, it) IN
         Sane(u) /\ u.records = s.records /\ u.blobs = s.blobs /\ u.pending = s.pending
           /\ (u.ended \/ u.stopped)
<1>. DEFINE r == Files!Report(s)
<1>1. Sane(r) /\ r.blobs = s.blobs /\ r.pending = s.pending /\ r.records = s.records
      /\ r.ended = s.ended /\ r.stopped = s.stopped /\ r.reports > 0
  BY Reported DEF Grown
<1>2. Files!ImportItem(s, it) \in {s, r} \/ (Files!ImportItem(s, it) = [r EXCEPT !.stopped = TRUE]
        /\ ~s.stopped)
  BY DEF Files!ImportItem
<1> HIDE DEF r
<1>3. \A e \in BOOLEAN : [r EXCEPT !.stopped = e] =
        [records |-> r.records, blobs |-> r.blobs, pending |-> r.pending, first |-> r.first,
         ended |-> r.ended, stopped |-> e, reports |-> r.reports]
  BY <1>1 DEF Sane
<1>4. \A e \in BOOLEAN : LET v == [r EXCEPT !.stopped = e] IN
        Sane(v) /\ v.blobs = s.blobs /\ v.pending = s.pending /\ v.records = s.records /\ v.ended = r.ended
  BY <1>1, <1>3 DEF Sane
<1> QED
  BY <1>1, <1>2, <1>4

-----------------------------------------------------------------------------
(* What is exported, and what becomes of it *)

\* A quotient, rounded down.
LEMMA Divided ==
  ASSUME NEW a \in Nat, NEW d \in Nat \ {0}
  PROVE  a \div d \in Nat /\ d * (a \div d) <= a /\ a < d * (a \div d) + d
OBVIOUS

\* How many parts a blob is written in.
PartCount(b) == (Len(b) + PartSize - 1) \div PartSize

\* The parts of a blob are as many as cover it.
LEMMA PartsCounted ==
  ASSUME NEW b, Len(b) \in Nat
  PROVE  /\ PartCount(b) \in Nat
         /\ PartSize * PartCount(b) < Len(b) + PartSize /\ Len(b) <= PartSize * PartCount(b)
         /\ DOMAIN Files!Parts(b) = 1..PartCount(b)
<1>1. PartSize \in Nat \ {0}
  BY SizeAssumption
<1>2. Len(b) + PartSize - 1 \in Nat
  BY <1>1
<1>3. PartCount(b) \in Nat /\ PartSize * PartCount(b) <= Len(b) + PartSize - 1
      /\ Len(b) + PartSize - 1 < PartSize * PartCount(b) + PartSize
  BY <1>1, <1>2, Divided DEF PartCount
<1>4. PartSize * PartCount(b) \in Nat
  BY <1>1, <1>3
<1> QED
  BY <1>1, <1>3, <1>4 DEF Files!Parts, PartCount

\* The fields of a part.
LEMMA BpFields ==
  \A b, i, c : LET it == Files!BpItem(b, i, c) IN
     it.tag = "bp" /\ it.id = b /\ it.index = i /\ it.part = c
BY DEF Files!BpItem

\* The items of a blob, and those of blobs one after the other: a blob's parts are numbered
\* from 0 on.
Piece(it, B) ==
  \/ it = Files!BItem(it.id, it.content) /\ it.id \in B
  \/ it = Files!BpItem(it.id, it.index, it.part) /\ it.id \in B /\ it.index \in 0..PartCount(it.id) - 1

\* Of two parts of a blob the earlier has the lower number.
Follow(x, y) == x.tag = "bp" /\ y.tag = "bp" /\ x.id = y.id => x.index < y.index

\* Items of blobs of B, the parts of each in their order.
Pieces(s, B) ==
  /\ \E S : s \in Seq(S)
  /\ \A i \in 1..Len(s) : Piece(s[i], B)
  /\ \A i, j \in 1..Len(s) : i < j => Follow(s[i], s[j])

\* The items of one blob are such a sequence.
LEMMA PiecesOfOne ==
  ASSUME NEW b, Len(b) \in Nat
  PROVE  Pieces(Files!BlobItems(b), {b})
<1>1. CASE Len(b) > Threshold
  <2>. DEFINE n == PartCount(b)
              p == Files!Parts(b)
              s == Files!BlobItems(b)
  <2>1. n \in Nat /\ DOMAIN p = 1..n
    BY PartsCounted
  <2>2. s = [i \in 1..n |-> Files!BpItem(b, i - 1, p[i])]
    BY <1>1, <2>1 DEF Files!BlobItems
  <2>3. \A i \in 1..n : s[i] = Files!BpItem(b, i - 1, p[i])
    BY <2>2
  <2>. DEFINE S == {s[i] : i \in 1..n}
  <2>4. s \in [1..n -> S]
    BY <2>2
  <2> HIDE DEF p, s, S
  <2>5. s \in Seq(S) /\ Len(s) = n
    BY <2>1, <2>4
  <2>6. \A i \in 1..n : Piece(s[i], {b})
    <3>1. TAKE i \in 1..n
    <3>2. s[i].id = b /\ s[i].index = i - 1 /\ s[i] = Files!BpItem(s[i].id, s[i].index, s[i].part)
      BY <2>3, BpFields
    <3>3. i - 1 \in 0..PartCount(s[i].id) - 1
      BY <2>1, <3>2
    <3> QED
      BY <3>2, <3>3 DEF Piece
  <2>7. \A i, j \in 1..n : i < j => Follow(s[i], s[j])
    <3>1. \A i \in 1..n : s[i].index = i - 1
      BY <2>3, BpFields
    <3> HIDE DEF n
    <3> QED
      BY <2>1, <3>1 DEF Follow
  <2> HIDE DEF n
  <2>8. Pieces(s, {b})
    BY <2>5, <2>6, <2>7 DEF Pieces
  <2> QED
    BY <2>8 DEF s
<1>2. CASE ~(Len(b) > Threshold)
  <2>1. Files!BlobItems(b) = <<Files!BItem(b, b)>>
    BY <1>2 DEF Files!BlobItems
  <2>2. <<Files!BItem(b, b)>> \in Seq({Files!BItem(b, b)})
    OBVIOUS
  <2>3. Piece(Files!BItem(b, b), {b})
    BY DEF Piece, Files!BItem
  <2>. DEFINE s == <<Files!BItem(b, b)>>
  <2>4. Len(s) = 1 /\ s[1] = Files!BItem(b, b) /\ s \in Seq({Files!BItem(b, b)})
    OBVIOUS
  <2> HIDE DEF s
  <2>5. \A i, j \in 1..Len(s) : i = 1 /\ ~(i < j)
    BY <2>4
  <2>6. Pieces(s, {b})
    BY <2>3, <2>4, <2>5 DEF Pieces
  <2> QED
    BY <2>1, <2>6 DEF s
<1> QED
  BY <1>1, <1>2

\* So are those of other blobs after them.
LEMMA PiecesJoined ==
  ASSUME NEW A, NEW B, A \cap B = {}, NEW s, Pieces(s, A), NEW t, Pieces(t, B)
  PROVE  Pieces(s \o t, A \cup B)
<1>1. PICK S, T : s \in Seq(S) /\ t \in Seq(T)
  BY DEF Pieces
<1>2. s \in Seq(S \cup T) /\ t \in Seq(S \cup T)
  BY <1>1, SeqMonotonic
<1>. DEFINE u == s \o t
<1>3. u \in Seq(S \cup T) /\ Len(u) = Len(s) + Len(t)
      /\ \A i \in 1..Len(s) + Len(t) : u[i] = IF i <= Len(s) THEN s[i] ELSE t[i - Len(s)]
  BY <1>2, ConcatProperties
<1>4. Len(s) \in Nat /\ Len(t) \in Nat
  BY <1>2, LenProperties
<1> HIDE DEF u
<1>5. ASSUME NEW i \in 1..Len(u)
      PROVE  \/ i \in 1..Len(s) /\ u[i] = s[i] /\ Piece(u[i], A)
             \/ i - Len(s) \in 1..Len(t) /\ u[i] = t[i - Len(s)] /\ Piece(u[i], B)
  <2>1. CASE i <= Len(s)
    BY <1>3, <1>4, <2>1 DEF Pieces
  <2>2. CASE ~(i <= Len(s))
    <3>1. i - Len(s) \in 1..Len(t) /\ u[i] = t[i - Len(s)]
      BY <1>3, <1>4, <2>2
    <3> QED
      BY <3>1 DEF Pieces
  <2> QED
    BY <2>1, <2>2
<1>6. ASSUME NEW x, NEW y, Piece(x, A), Piece(y, B) PROVE Follow(x, y)
  BY <1>6, Tags DEF Piece, Follow
<1>7. \A i, j \in 1..Len(u) : i < j => Follow(u[i], u[j])
  <2>1. SUFFICES ASSUME NEW i \in 1..Len(u), NEW j \in 1..Len(u), i < j PROVE Follow(u[i], u[j])
    OBVIOUS
  <2>2. i \in Int /\ j \in Int
    BY <1>3, <1>4
  <2>3. CASE i <= Len(s) /\ j <= Len(s)
    BY <1>3, <1>4, <2>1, <2>3 DEF Pieces
  <2>4. CASE i <= Len(s) /\ ~(j <= Len(s))
    BY <1>4, <1>5, <1>6, <2>4
  <2>5. CASE ~(i <= Len(s))
    <3>1. i \in 1..Len(s) + Len(t) /\ j \in 1..Len(s) + Len(t) /\ i \in Int /\ j \in Int /\ i < j
      BY <1>3, <2>1, <2>2
    <3>2. i - Len(s) \in 1..Len(t) /\ j - Len(s) \in 1..Len(t) /\ i - Len(s) < j - Len(s)
      BY <1>4, <2>5, <3>1
    <3>3. u[i] = t[i - Len(s)] /\ u[j] = t[j - Len(s)]
      BY <1>3, <1>4, <2>5, <3>1
    <3> QED
      BY <3>2, <3>3 DEF Pieces
  <2> QED
    BY <2>3, <2>4, <2>5
<1>8. \A i \in 1..Len(u) : Piece(u[i], A \cup B)
  BY <1>5 DEF Piece
<1> QED
  BY <1>3, <1>7, <1>8 DEF Pieces, u

\* One round of the loop of Export: a blob that was written is passed over.
WriteStep(blobs, w, i) ==
  IF \E j \in 1..i-1 : blobs[j] = blobs[i] THEN w ELSE w \o Files!BlobItems(blobs[i])

\* The loop of Export exists.
LEMMA ExportLoop ==
  ASSUME NEW blobs, NEW n \in Nat
  PROVE  \E f : f = [i \in 0..n |-> IF i = 0 THEN <<>> ELSE WriteStep(blobs, f[i-1], i)]
<1>. DEFINE A == {k \in Nat : \E f : f = [i \in 0..k |-> IF i = 0 THEN <<>> ELSE WriteStep(blobs, f[i-1], i)]}
<1>1. 0 \in A
  <2>1. [i \in 0..0 |-> <<>>] = [i \in 0..0 |-> IF i = 0 THEN <<>>
          ELSE WriteStep(blobs, [j \in 0..0 |-> <<>>][i-1], i)]
    OBVIOUS
  <2> QED
    BY <2>1
<1>2. ASSUME NEW k \in A PROVE k + 1 \in A
  <2>1. PICK f : f = [i \in 0..k |-> IF i = 0 THEN <<>> ELSE WriteStep(blobs, f[i-1], i)]
    BY <1>2
  <2>. DEFINE h == [i \in 0..k+1 |-> IF i = k + 1 THEN WriteStep(blobs, f[k], k + 1) ELSE f[i]]
  <2>2. ASSUME NEW i \in 0..k+1
        PROVE  h[i] = IF i = 0 THEN <<>> ELSE WriteStep(blobs, h[i-1], i)
    <3>1. CASE i = k + 1
      BY <3>1
    <3>2. CASE i # k + 1
      <4>1. i \in 0..k
        BY <3>2
      <4>2. f[i] = IF i = 0 THEN <<>> ELSE WriteStep(blobs, f[i-1], i)
        BY <2>1, <4>1
      <4>3. i # 0 => h[i-1] = f[i-1]
        BY <4>1
      <4> QED
        BY <4>1, <4>2, <4>3
    <3> QED
      BY <3>1, <3>2
  <2>3. h = [i \in 0..k+1 |-> IF i = 0 THEN <<>> ELSE WriteStep(blobs, h[i-1], i)]
    BY <2>2
  <2> HIDE DEF h
  <2> QED
    BY <2>3
<1>3. A = Nat
  <2> HIDE DEF A
  <2> A \in SUBSET Nat
    BY DEF A
  <2> QED
    BY <1>1, <1>2, SetInduction
<1> QED
  BY <1>3

\* An export has a header, its records, the items of its blobs, and the end.
LEMMA WrittenPieces ==
  ASSUME NEW S, NEW blobs \in Seq(S), \A b \in ToSet(blobs) : Len(b) \in Nat, NEW records
  PROVE  \E w : /\ Pieces(w, ToSet(blobs))
                /\ Files!Export(records, blobs) =
                     <<Files!Hdr>> \o [i \in DOMAIN records |-> Files!RItem(records[i])] \o w
                       \o <<Files!EndItem(Len(records), Cardinality(ToSet(blobs)))>>
<1>. DEFINE n == Len(blobs)
            W(f) == f = [i \in 0..n |-> IF i = 0 THEN <<>> ELSE WriteStep(blobs, f[i-1], i)]
            written == CHOOSE f : f = [i \in 0..Len(blobs) |->
                         IF i = 0 THEN <<>>
                         ELSE IF \E j \in 1..i-1 : blobs[j] = blobs[i] THEN f[i-1]
                         ELSE f[i-1] \o Files!BlobItems(blobs[i])]
            Before(i) == {blobs[j] : j \in 1..i}
            A == {i \in 0..n : Pieces(written[i], Before(i))}
<1>1. n \in Nat /\ DOMAIN blobs = 1..n
  BY LenProperties
<1>2. W(written)
  BY <1>1, ExportLoop DEF WriteStep
<1>3. Files!Written(blobs) = written[n]
  BY DEF Files!Written
<1>4. Files!Export(records, blobs) =
        <<Files!Hdr>> \o [i \in DOMAIN records |-> Files!RItem(records[i])] \o Files!Written(blobs)
          \o <<Files!EndItem(Len(records), Cardinality(ToSet(blobs)))>>
  BY DEF Files!Export, Files!ToSet, ToSet, Files!Cardinality, Cardinality
<1> HIDE DEF written, n
<1>5. 0 \in A
  <2>1. written[0] = <<>> /\ <<>> \in Seq({}) /\ Len(<<>>) = 0
    BY <1>1, <1>2
  <2> HIDE DEF Before
  <2>2. Pieces(<<>>, Before(0))
    BY <2>1 DEF Pieces
  <2> QED
    BY <1>1, <2>1, <2>2
<1>6. ASSUME NEW i \in 1..n, i - 1 \in A PROVE i \in A
  <2>1. Pieces(written[i-1], Before(i-1)) /\ written[i] = WriteStep(blobs, written[i-1], i)
    BY <1>1, <1>2, <1>6
  <2>2. Before(i) = Before(i-1) \cup {blobs[i]} /\ Len(blobs[i]) \in Nat
    BY <1>1, <1>6 DEF ToSet
  <2>3. CASE blobs[i] \in Before(i-1)
    <3>1. written[i] = written[i-1] /\ Before(i) = Before(i-1)
      BY <2>1, <2>2, <2>3 DEF WriteStep
    <3> HIDE DEF Before
    <3>2. Pieces(written[i], Before(i)) /\ i \in 0..n
      BY <1>1, <2>1, <3>1
    <3> QED
      BY <3>2
  <2>4. CASE blobs[i] \notin Before(i-1)
    <3>1. written[i] = written[i-1] \o Files!BlobItems(blobs[i])
      BY <2>1, <2>4 DEF WriteStep
    <3>2. Pieces(Files!BlobItems(blobs[i]), {blobs[i]}) /\ Before(i-1) \cap {blobs[i]} = {}
      BY <2>2, <2>4, PiecesOfOne
    <3> HIDE DEF Before
    <3>3. Pieces(written[i], Before(i))
      BY <2>1, <2>2, <3>1, <3>2, PiecesJoined
    <3> QED
      BY <1>1, <3>3
  <2> QED
    BY <2>3, <2>4
<1>7. n \in A
  <2> HIDE DEF A
  <2>1. \A i \in 0..n : i \in A
    BY <1>1, <1>5, <1>6, UpToInduction
  <2> QED
    BY <1>1, <2>1
<1>8. Before(n) = ToSet(blobs)
  BY <1>1 DEF ToSet
<1> QED
  BY <1>3, <1>4, <1>7, <1>8

-----------------------------------------------------------------------------

\* What an item of a bundle can be, when x was exported.
ItemOf(it, x) ==
  \/ it \in {Files!Unusable, Files!Unreadable, [tag |-> "other"], Files!Hdr,
             Files!EndItem(Len(x.records), Cardinality(ToSet(x.blobs)))}
  \/ it = Files!Malformed(it.of)
  \/ it = Files!RItem(it.record) /\ it.record \in ToSet(x.records)
  \/ it = Files!BItem(it.id, it.content) /\ it.id \in ToSet(x.blobs)
  \/ it = Files!BpItem(it.id, it.index, it.part) /\ it.id \in ToSet(x.blobs) /\ it.index \in Nat

\* The part an item was made of has a number in its blob, from zero; these go up.
Numbers(g, s) ==
  /\ g \in [1..Len(s) -> Nat]
  /\ \A i \in 1..Len(s) : s[i].tag = "bp" => g[i] <= s[i].index /\ g[i] < PartCount(s[i].id)
  /\ \A i, j \in 1..Len(s) :
       i < j /\ s[i].tag = "bp" /\ s[j].tag = "bp" /\ s[i].id = s[j].id => g[i] < g[j]

\* What the items of a bundle keep of what was exported.
Kept(s, x) ==
  /\ \E S : s \in Seq(S)
  /\ \A i \in 1..Len(s) : /\ ItemOf(s[i], x)
                          /\ s[i].tag = "hdr" => i = 1
                          /\ Ends(s[i]) => i = Len(s)
  /\ \E g : Numbers(g, s)

\* An export has all of it.
LEMMA ExportKept ==
  ASSUME NEW x \in Exports
  PROVE  Kept(Files!Export(x.records, x.blobs), x)
<1>1. /\ x.records \in Seq(ToSet(x.records)) /\ x.blobs \in Seq(ToSet(x.blobs))
      /\ \A b \in ToSet(x.blobs) : Len(b) \in Nat
  BY ExportsAssumption, LenProperties DEF IsSeq
<1>. DEFINE n == Len(x.records)
            r == [i \in DOMAIN x.records |-> Files!RItem(x.records[i])]
            end == Files!EndItem(n, Cardinality(ToSet(x.blobs)))
<1>2. PICK w : Pieces(w, ToSet(x.blobs))
        /\ Files!Export(x.records, x.blobs) = <<Files!Hdr>> \o r \o w \o <<end>>
  BY <1>1, WrittenPieces
<1>. DEFINE m == Len(w)
            R == {r[i] : i \in 1..n}
<1>3. n \in Nat /\ DOMAIN x.records = 1..n /\ \A i \in 1..n : x.records[i] \in ToSet(x.records)
  BY <1>1, LenProperties DEF ToSet
<1>4. r \in [1..n -> R] /\ \A i \in 1..n : r[i] = Files!RItem(x.records[i])
  BY <1>3
<1> HIDE DEF r, R, end
<1>5. r \in Seq(R) /\ Len(r) = n
  BY <1>3, <1>4
<1>6. PICK S : w \in Seq(S)
  BY <1>2 DEF Pieces
<1>. DEFINE T == {Files!Hdr, end} \cup R \cup S
            h == <<Files!Hdr>>
            e == <<end>>
<1>7. /\ h \in Seq(T) /\ Len(h) = 1 /\ h[1] = Files!Hdr
      /\ e \in Seq(T) /\ Len(e) = 1 /\ e[1] = end
  OBVIOUS
<1>8. r \in Seq(T) /\ w \in Seq(T) /\ m \in Nat
  BY <1>5, <1>6, SeqMonotonic, LenProperties
<1> HIDE DEF T, h, e
<1>. DEFINE hr == h \o r
            hrw == hr \o w
            s == hrw \o e
<1>9. hr \in Seq(T) /\ Len(hr) = 1 + n /\ \A i \in 1..1+n : hr[i] = IF i <= 1 THEN h[i] ELSE r[i-1]
  <2>1. /\ hr \in Seq(T) /\ Len(hr) = Len(h) + Len(r)
        /\ \A i \in 1..Len(h)+Len(r) : hr[i] = IF i <= Len(h) THEN h[i] ELSE r[i-Len(h)]
    BY <1>7, <1>8, ConcatProperties
  <2> HIDE DEF hr, n
  <2> QED
    BY <1>5, <1>7, <2>1
<1> HIDE DEF hr
<1>10. hrw \in Seq(T) /\ Len(hrw) = 1 + n + m
       /\ \A i \in 1..1+n+m : hrw[i] = IF i <= 1 + n THEN hr[i] ELSE w[i-(1+n)]
  <2>1. /\ hrw \in Seq(T) /\ Len(hrw) = Len(hr) + Len(w)
        /\ \A i \in 1..Len(hr)+Len(w) : hrw[i] = IF i <= Len(hr) THEN hr[i] ELSE w[i-Len(hr)]
    BY <1>8, <1>9, ConcatProperties
  <2> HIDE DEF hrw, n
  <2> QED
    BY <1>9, <2>1
<1> HIDE DEF hrw
<1>11. s \in Seq(T) /\ Len(s) = n + m + 2
       /\ \A i \in 1..n+m+2 : s[i] = IF i <= n + 1 + m THEN hrw[i] ELSE e[i-(n+1+m)]
  <2>1. /\ s \in Seq(T) /\ Len(s) = Len(hrw) + Len(e)
        /\ \A i \in 1..Len(hrw)+Len(e) : s[i] = IF i <= Len(hrw) THEN hrw[i] ELSE e[i-Len(hrw)]
    BY <1>7, <1>10, ConcatProperties
  <2> HIDE DEF s, n, m
  <2>2. n \in Nat /\ m \in Nat
    BY <1>3, <1>8 DEF n, m
  <2>3. Len(hrw) = n + 1 + m /\ Len(hrw) + Len(e) = n + m + 2
    BY <1>7, <1>10, <2>2 DEF m
  <2> QED
    BY <2>1, <2>3
<1> HIDE DEF s
<1>12. ASSUME NEW i \in 1..n+m+2
       PROVE  \/ i = 1 /\ s[i] = Files!Hdr
              \/ i > 1 /\ i < n + m + 2 /\ s[i] = Files!RItem(x.records[i-1])
                   /\ x.records[i-1] \in ToSet(x.records)
              \/ i < n + m + 2 /\ i-(n+1) \in 1..m /\ s[i] = w[i-(n+1)] /\ Piece(s[i], ToSet(x.blobs))
              \/ i = n + m + 2 /\ s[i] = end
  <2> HIDE DEF n, m
  <2>1. n \in Nat /\ m \in Nat /\ i \in Nat
    BY <1>3, <1>8 DEF m
  <2>2. CASE i = 1
    BY <1>7, <1>9, <1>10, <1>11, <2>1, <2>2
  <2>3. CASE i > 1 /\ i <= n + 1
    <3>1. i - 1 \in 1..n /\ s[i] = hrw[i] /\ hrw[i] = hr[i] /\ hr[i] = r[i-1] /\ i < n + m + 2
      BY <1>9, <1>10, <1>11, <2>1, <2>3
    <3> QED
      BY <1>3, <1>4, <2>3, <3>1
  <2>4. CASE i > n + 1 /\ i <= n + 1 + m
    <3>1. i - (n + 1) \in 1..m /\ s[i] = hrw[i] /\ hrw[i] = w[i-(n+1)] /\ i < n + m + 2
      BY <1>10, <1>11, <2>1, <2>4
    <3>2. Piece(w[i-(n+1)], ToSet(x.blobs))
      BY <1>2, <3>1 DEF Pieces, m
    <3> QED
      BY <3>1, <3>2
  <2>5. CASE i = n + m + 2
    BY <1>7, <1>11, <2>1, <2>5
  <2>6. i = 1 \/ (i > 1 /\ i <= n + 1) \/ (i > n + 1 /\ i <= n + 1 + m) \/ i = n + m + 2
    BY <2>1
  <2> QED
    BY <2>2, <2>3, <2>4, <2>5, <2>6
<1>13. ASSUME NEW it, Piece(it, ToSet(x.blobs))
       PROVE  /\ ItemOf(it, x) /\ it.tag \in {"b", "bp"}
              /\ it.tag = "bp" => it.index \in 0..PartCount(it.id) - 1 /\ it.id \in ToSet(x.blobs)
  <2>1. CASE it = Files!BItem(it.id, it.content) /\ it.id \in ToSet(x.blobs)
    BY <2>1, Tags DEF ItemOf
  <2>2. CASE it = Files!BpItem(it.id, it.index, it.part) /\ it.id \in ToSet(x.blobs)
             /\ it.index \in 0..PartCount(it.id) - 1
    <3>1. PartCount(it.id) \in Nat
      BY <1>1, <2>2, PartsCounted
    <3> QED
      BY <2>2, <3>1, Tags DEF ItemOf
  <2> QED
    BY <1>13, <2>1, <2>2 DEF Piece
<1>14. end.tag = "end" /\ ItemOf(end, x) /\ ItemOf(Files!Hdr, x)
       /\ \A v \in ToSet(x.records) : ItemOf(Files!RItem(v), x)
  BY DEF ItemOf, end, Files!EndItem, Files!RItem
<1>15. ASSUME NEW i \in 1..Len(s)
       PROVE  /\ ItemOf(s[i], x) /\ (s[i].tag = "hdr" => i = 1) /\ (Ends(s[i]) => i = Len(s))
              /\ s[i].tag = "bp" =>
                   /\ s[i].index \in 0..PartCount(s[i].id) - 1 /\ s[i].id \in ToSet(x.blobs)
                   /\ i - (n + 1) \in 1..m /\ s[i] = w[i-(n+1)]
  <2> HIDE DEF n, m
  <2> QED
    BY <1>11, <1>12, <1>13, <1>14, Tags DEF Ends
<1>. DEFINE g == [i \in 1..Len(s) |-> IF s[i].tag = "bp" THEN s[i].index ELSE 0]
<1>16. Numbers(g, s)
  <2>1. \A i \in 1..Len(s) : s[i].tag = "bp" => s[i].index \in Nat /\ s[i].index < PartCount(s[i].id)
    <3>1. \A i \in 1..Len(s) : s[i].tag = "bp" => PartCount(s[i].id) \in Nat
      BY <1>1, <1>15, PartsCounted
    <3> QED
      BY <1>15, <3>1
  <2>2. \A i, j \in 1..Len(s) :
          i < j /\ s[i].tag = "bp" /\ s[j].tag = "bp" /\ s[i].id = s[j].id => s[i].index < s[j].index
    <3>1. SUFFICES ASSUME NEW i \in 1..Len(s), NEW j \in 1..Len(s), i < j, s[i].tag = "bp", s[j].tag = "bp",
                          s[i].id = s[j].id
                   PROVE  s[i].index < s[j].index
      OBVIOUS
    <3>. DEFINE a == i - (n + 1)
                b == j - (n + 1)
    <3>2. a \in 1..m /\ b \in 1..m /\ s[i] = w[a] /\ s[j] = w[b]
      BY <1>15, <3>1
    <3>3. a < b
      BY <1>3, <1>11, <3>1
    <3> HIDE DEF a, b
    <3> QED
      BY <1>2, <3>1, <3>2, <3>3 DEF Pieces, Follow
  <2>3. \A i \in 1..Len(s) : g[i] = IF s[i].tag = "bp" THEN s[i].index ELSE 0
    OBVIOUS
  <2>4. g \in [1..Len(s) -> Nat]
    BY <2>1
  <2>5. \A i \in 1..Len(s) : s[i].tag = "bp" => g[i] <= s[i].index
    BY <2>1, <2>3
  <2> HIDE DEF g
  <2> QED
    BY <2>1, <2>2, <2>3, <2>4, <2>5 DEF Numbers
<1>17. Kept(s, x)
  BY <1>11, <1>15, <1>16 DEF Kept
<1> QED
  BY <1>2, <1>17 DEF s, hrw, hr, h, e

\* A spoiled item is none of another blob, ends nothing that did not end there, and its
\* part has no lower number.
LEMMA SpoiledItem ==
  ASSUME NEW x, NEW o, ItemOf(o, x), NEW it \in Spoiled(o)
  PROVE  /\ ItemOf(it, x) /\ it.tag # "hdr" /\ (Ends(it) => Ends(o))
         /\ it.tag = "bp" => o.tag = "bp" /\ it.id = o.id /\ o.index \in Nat /\ it.index \in Nat
              /\ o.index <= it.index
<1>1. CASE it \in {Files!Unusable, Files!Unreadable, [tag |-> "other"]}
  BY <1>1, Tags DEF ItemOf, Ends
<1>2. CASE it = Files!Malformed(o.tag)
  <2>1. it.tag = "malformed" /\ it.of = o.tag
    BY <1>2, Tags
  <2>2. Ends(it) => Ends(o)
    BY <1>2, <2>1, Tags DEF Ends
  <2>3. ItemOf(it, x)
    BY <1>2, <2>1 DEF ItemOf
  <2> QED
    BY <2>1, <2>2, <2>3
<1>3. CASE o.tag = "b" /\ it = [o EXCEPT !.content = Append(@, 0)]
  <2>1. o = Files!BItem(o.id, o.content) /\ o.id \in ToSet(x.blobs)
    BY <1>3, Tags DEF ItemOf, Files!EndItem
  <2>. DEFINE c == Append(o.content, 0)
  <2> HIDE DEF c
  <2>2. it = [o EXCEPT !.content = c]
    BY <1>3 DEF c
  <2>3. it = Files!BItem(o.id, c) /\ it.id = o.id /\ it.content = c
    BY <2>1, <2>2 DEF Files!BItem
  <2>4. it.tag = "b"
    BY <2>3, Tags
  <2> QED
    BY <2>1, <2>3, <2>4, Tags DEF ItemOf, Ends
<1>4. CASE o.tag = "bp" /\ it \in {[o EXCEPT !.part = Front(@)], [o EXCEPT !.index = @ + 1]}
  <2>1. o = Files!BpItem(o.id, o.index, o.part) /\ o.id \in ToSet(x.blobs) /\ o.index \in Nat
    BY <1>4, Tags DEF ItemOf, Files!EndItem
  <2>2. \E k \in Nat, p \in {it.part} : it = Files!BpItem(o.id, k, p) /\ o.index <= k
    <3>. DEFINE f == Front(o.part)
                k == o.index + 1
    <3>1. it = [o EXCEPT !.part = f] \/ it = [o EXCEPT !.index = k]
      BY <1>4
    <3>2. k \in Nat /\ o.index <= k
      BY <2>1
    <3> HIDE DEF f, k
    <3>3. [o EXCEPT !.part = f] = Files!BpItem(o.id, o.index, f)
            /\ [o EXCEPT !.index = k] = Files!BpItem(o.id, k, o.part)
      BY <2>1 DEF Files!BpItem
    <3>4. o.index <= o.index
      BY <2>1
    <3>5. CASE it = [o EXCEPT !.part = f]
      BY <2>1, <3>3, <3>4, <3>5, BpFields
    <3>6. CASE it = [o EXCEPT !.index = k]
      BY <3>2, <3>3, <3>6, BpFields
    <3> QED
      BY <3>1, <3>5, <3>6
  <2>3. PICK k \in Nat, p \in {it.part} : it = Files!BpItem(o.id, k, p) /\ o.index <= k
    BY <2>2
  <2>4. it.tag = "bp" /\ it.id = o.id /\ it.index = k /\ it.part = p
    BY <2>3, BpFields
  <2>5. ItemOf(it, x)
    BY <2>1, <2>3, <2>4 DEF ItemOf
  <2> QED
    BY <1>4, <2>1, <2>3, <2>4, <2>5, Tags DEF Ends
<1> QED
  BY <1>1, <1>2, <1>3, <1>4 DEF Spoiled

\* A spoiled item leaves the others where they were.
LEMMA KeptSpoiled ==
  ASSUME NEW x, NEW s, Kept(s, x), NEW i \in 1..Len(s), NEW it \in Spoiled(s[i])
  PROVE  Kept(ReplaceAt(s, i, it), x)
<1>1. PICK S : s \in Seq(S)
  BY DEF Kept
<1>2. PICK g : Numbers(g, s)
  BY DEF Kept
<1>3. s \in Seq(S \cup {it})
  BY <1>1, SeqMonotonic
<1>. DEFINE t == ReplaceAt(s, i, it)
<1>4. t \in Seq(S \cup {it}) /\ Len(t) = Len(s) /\ \A j \in 1..Len(s) : t[j] = IF j = i THEN it ELSE s[j]
  BY <1>3, ExceptSeq DEF ReplaceAt
<1> HIDE DEF t
<1>5. /\ ItemOf(it, x) /\ it.tag # "hdr" /\ (Ends(it) => Ends(s[i]))
      /\ it.tag = "bp" => s[i].tag = "bp" /\ it.id = s[i].id /\ s[i].index \in Nat /\ it.index \in Nat
                          /\ s[i].index <= it.index
  BY SpoiledItem DEF Kept
<1>6. \A j \in 1..Len(t) : /\ ItemOf(t[j], x) /\ (t[j].tag = "hdr" => j = 1) /\ (Ends(t[j]) => j = Len(t))
  BY <1>4, <1>5 DEF Kept
<1>7. Numbers(g, t)
  <2>1. \A j \in 1..Len(t) : t[j].tag = "bp" =>
          s[j].tag = "bp" /\ s[j].id = t[j].id /\ (g[j] <= s[j].index => g[j] <= t[j].index)
    <3>1. \A j \in 1..Len(s) : g[j] \in Nat
      BY <1>2 DEF Numbers
    <3> QED
      BY <1>4, <1>5, <3>1
  <2> QED
    BY <1>2, <1>4, <2>1 DEF Numbers
<1> QED
  BY <1>4, <1>6, <1>7 DEF Kept, t

\* What is left of a bundle is a part of it in the same order.
LEMMA KeptLess ==
  ASSUME NEW x, NEW s, Kept(s, x), NEW T, NEW t \in Seq(T), NEW m \in [1..Len(t) -> 1..Len(s)],
         \A j \in 1..Len(t) : t[j] = s[m[j]],
         \A j, k \in 1..Len(t) : j < k => m[j] < m[k],
         \A j \in 1..Len(t) : j <= m[j],
         \A j \in 1..Len(t) : m[j] = Len(s) => j = Len(t)
  PROVE  Kept(t, x)
<1>1. PICK g : Numbers(g, s)
  BY DEF Kept
<1>2. Len(t) \in Nat
  BY LenProperties
<1>3. \A j \in 1..Len(t) : m[j] \in 1..Len(s)
  OBVIOUS
<1>4. \A j \in 1..Len(t) : /\ ItemOf(t[j], x) /\ (t[j].tag = "hdr" => j = 1) /\ (Ends(t[j]) => j = Len(t))
  <2>1. SUFFICES ASSUME NEW j \in 1..Len(t)
                 PROVE  ItemOf(t[j], x) /\ (t[j].tag = "hdr" => j = 1) /\ (Ends(t[j]) => j = Len(t))
    OBVIOUS
  <2>2. m[j] \in 1..Len(s) /\ t[j] = s[m[j]] /\ j <= m[j]
    BY <1>3
  <2>3. ItemOf(t[j], x) /\ (t[j].tag = "hdr" => m[j] = 1) /\ (Ends(t[j]) => m[j] = Len(s))
    BY <2>2 DEF Kept
  <2>4. m[j] = 1 => j = 1
    BY <2>2
  <2> QED
    BY <2>3, <2>4
<1>. DEFINE h == [j \in 1..Len(t) |-> g[m[j]]]
<1>5. \A j \in 1..Len(t) : h[j] = g[m[j]]
  OBVIOUS
<1>6. h \in [1..Len(t) -> Nat]
  BY <1>1, <1>3 DEF Numbers
<1> HIDE DEF h
<1>7. \A j \in 1..Len(t) : t[j].tag = "bp" => h[j] <= t[j].index /\ h[j] < PartCount(t[j].id)
  BY <1>1, <1>3, <1>5 DEF Numbers
<1>8. \A j, k \in 1..Len(t) :
        j < k /\ t[j].tag = "bp" /\ t[k].tag = "bp" /\ t[j].id = t[k].id => h[j] < h[k]
  <2>1. SUFFICES ASSUME NEW j \in 1..Len(t), NEW k \in 1..Len(t), j < k, t[j].tag = "bp", t[k].tag = "bp",
                        t[j].id = t[k].id
                 PROVE  h[j] < h[k]
    OBVIOUS
  <2>2. m[j] \in 1..Len(s) /\ m[k] \in 1..Len(s) /\ m[j] < m[k] /\ t[j] = s[m[j]] /\ t[k] = s[m[k]]
        /\ h[j] = g[m[j]] /\ h[k] = g[m[k]]
    BY <1>3, <1>5, <2>1
  <2> QED
    BY <1>1, <2>1, <2>2 DEF Numbers
<1>9. Numbers(h, t)
  BY <1>6, <1>7, <1>8 DEF Numbers
<1> QED
  BY <1>4, <1>9 DEF Kept

\* So does a lost one, and the end of the file.
LEMMA KeptLost ==
  ASSUME NEW x, NEW s, Kept(s, x), NEW i \in 1..Len(s)
  PROVE  Kept(RemoveAt(s, i), x) /\ Kept(SubSeq(s, 1, i - 1), x)
<1>1. PICK S : s \in Seq(S)
  BY DEF Kept
<1>. DEFINE n == Len(s)
            a == SubSeq(s, 1, i - 1)
            b == SubSeq(s, i + 1, n)
<1>2. n \in Nat /\ i \in 1..n /\ \A j \in 1..n : s[j] \in S
  BY <1>1, LenProperties
<1>3. a \in Seq(S) /\ Len(a) = i - 1 /\ \A j \in 1..i-1 : a[j] = s[j]
  <2>1. \A j \in 1..i-1 : s[j] \in S
    BY <1>2
  <2>2. /\ a \in Seq(S) /\ Len(a) = (IF 1 <= i - 1 THEN i - 1 - 1 + 1 ELSE 0)
        /\ \A j \in 1..(i - 1) - 1 + 1 : a[j] = s[1 + j - 1]
    BY <1>2, <2>1, SubSeqProperties
  <2> HIDE DEF a
  <2> QED
    BY <1>2, <2>2
<1>4. b \in Seq(S) /\ Len(b) = n - i /\ \A j \in 1..n-i : b[j] = s[i+j]
  <2>1. \A j \in i+1..n : s[j] \in S
    BY <1>2
  <2>2. /\ b \in Seq(S) /\ Len(b) = (IF i + 1 <= n THEN n - (i + 1) + 1 ELSE 0)
        /\ \A j \in 1..n - (i + 1) + 1 : b[j] = s[(i + 1) + j - 1]
    BY <1>2, <2>1, SubSeqProperties
  <2> HIDE DEF b, n
  <2> QED
    BY <1>2, <2>2
<1> HIDE DEF a, b
<1>5. Kept(a, x)
  <2>. DEFINE m == [j \in 1..Len(a) |-> j]
  <2>1. m \in [1..Len(a) -> 1..Len(s)] /\ \A j \in 1..Len(a) : m[j] = j /\ a[j] = s[m[j]] /\ j # Len(s)
    BY <1>2, <1>3
  <2> HIDE DEF m
  <2>2. \A j \in 1..Len(a) : j <= j
    BY <1>3
  <2>3. /\ \A j \in 1..Len(a) : a[j] = s[m[j]]
        /\ \A j, k \in 1..Len(a) : j < k => m[j] < m[k]
        /\ \A j \in 1..Len(a) : j <= m[j]
        /\ \A j \in 1..Len(a) : m[j] = Len(s) => j = Len(a)
    BY <2>1, <2>2
  <2>4. a \in Seq(S) /\ m \in [1..Len(a) -> 1..Len(s)]
    BY <1>3, <2>1
  <2> QED
    BY <2>3, <2>4, KeptLess
<1>6. Kept(a \o b, x)
  <2>. DEFINE t == a \o b
              m == [j \in 1..n-1 |-> IF j < i THEN j ELSE j + 1]
  <2>1. t \in Seq(S) /\ Len(t) = n - 1
        /\ \A j \in 1..n-1 : t[j] = IF j <= i - 1 THEN a[j] ELSE b[j - (i - 1)]
    <3>1. t \in Seq(S) /\ Len(t) = Len(a) + Len(b)
          /\ \A j \in 1..Len(a)+Len(b) : t[j] = IF j <= Len(a) THEN a[j] ELSE b[j - Len(a)]
      BY <1>3, <1>4, ConcatProperties
    <3>2. Len(a) + Len(b) = n - 1
      BY <1>2, <1>3, <1>4
    <3> HIDE DEF t, n
    <3> QED
      BY <1>3, <3>1, <3>2
  <2> HIDE DEF t
  <2>2. \A j \in 1..n-1 : m[j] = (IF j < i THEN j ELSE j + 1) /\ m[j] \in 1..n
    BY <1>2
  <2>3. m \in [1..n-1 -> 1..n]
    BY <2>2
  <2> HIDE DEF m, n
  <2>4. \A j \in 1..n-1 : t[j] = s[m[j]]
    <3>1. SUFFICES ASSUME NEW j \in 1..n-1 PROVE t[j] = s[m[j]]
      OBVIOUS
    <3>2. CASE j < i
      <4>1. j <= i - 1 /\ j \in 1..i-1
        BY <1>2, <3>2
      <4> QED
        BY <1>3, <2>1, <2>2, <3>2, <4>1
    <3>3. CASE ~(j < i)
      <4>1. ~(j <= i - 1) /\ j - (i - 1) \in 1..n-i /\ i + (j - (i - 1)) = j + 1
        BY <1>2, <3>3
      <4>2. t[j] = b[j - (i - 1)]
        BY <2>1, <4>1
      <4> QED
        BY <1>4, <2>2, <3>3, <4>1, <4>2
    <3> QED
      BY <3>2, <3>3
  <2>5. \A j, k \in 1..n-1 : j < k => m[j] < m[k]
    BY <1>2, <2>2
  <2>6. \A j \in 1..n-1 : j <= m[j] /\ (m[j] = n => j = n - 1)
    BY <1>2, <2>2
  <2> QED
    <3>1. t \in Seq(S) /\ m \in [1..Len(t) -> 1..Len(s)]
      BY <2>1, <2>3 DEF n
    <3>2. /\ \A j \in 1..Len(t) : t[j] = s[m[j]]
          /\ \A j, k \in 1..Len(t) : j < k => m[j] < m[k]
          /\ \A j \in 1..Len(t) : j <= m[j]
          /\ \A j \in 1..Len(t) : m[j] = Len(s) => j = Len(t)
      BY <2>1, <2>4, <2>5, <2>6 DEF n
    <3>3. Kept(t, x)
      BY <3>1, <3>2, KeptLess
    <3> QED
      BY <3>3 DEF t
<1>7. RemoveAt(s, i) = a \o b
  BY DEF RemoveAt, a, b
<1> QED
  BY <1>5, <1>6, <1>7 DEF a
-----------------------------------------------------------------------------

\* The invariant of bundles.
BundleInv == doc.of = "bundle" => doc.was \in Exports /\ Kept(doc.is, doc.was)

\* What is known of a bundle's items, however often it is hurt.
LEMMA BundleInvariant == DocSpec => []BundleInv
<1>1. DocInit => BundleInv
  <2>1. SUFFICES ASSUME DocInit, doc.of = "bundle" PROVE doc.was \in Exports /\ Kept(doc.is, doc.was)
    BY DEF BundleInv
  <2>2. PICK x \in Exports : doc = BundleDoc(x, Files!Export(x.records, x.blobs), 0)
    BY <2>1 DEF DocInit, KindDoc
  <2>3. doc.was = x /\ doc.is = Files!Export(x.records, x.blobs)
    BY <2>2 DEF BundleDoc
  <2> QED
    BY <2>3, ExportKept
<1>2. Shaped /\ BundleInv /\ [DocNext]_doc => BundleInv'
  <2>1. SUFFICES ASSUME Shaped, BundleInv, [DocNext]_doc, doc'.of = "bundle"
                 PROVE  doc'.was \in Exports /\ Kept(doc'.is, doc'.was)
    BY DEF BundleInv
  <2>2. doc.of = "bundle" /\ (UNCHANGED doc \/ Hurt)
    BY <2>1, StepsKeepShape
  <2>3. doc.was \in Exports /\ Kept(doc.is, doc.was)
    BY <2>1, <2>2 DEF BundleInv
  <2>4. CASE UNCHANGED doc
    BY <2>3, <2>4
  <2>5. CASE Hurt
    <3>1. PICK i \in DOMAIN doc.is :
            \/ \E it \in Spoiled(doc.is[i]) : doc' = BundleDoc(doc.was, ReplaceAt(doc.is, i, it), doc.hurt + 1)
            \/ doc' = BundleDoc(doc.was, RemoveAt(doc.is, i), doc.hurt + 1)
            \/ doc' = BundleDoc(doc.was, SubSeq(doc.is, 1, i - 1), doc.hurt + 1)
      BY <2>5 DEF Hurt
    <3>2. i \in 1..Len(doc.is)
      BY <2>3, <3>1, LenProperties DEF Kept
    <3>3. PICK t : doc' = BundleDoc(doc.was, t, doc.hurt + 1) /\ Kept(t, doc.was)
      BY <2>3, <3>1, <3>2, KeptSpoiled, KeptLost
    <3>4. doc'.was = doc.was /\ doc'.is = t
      BY <3>3 DEF BundleDoc
    <3> QED
      BY <2>3, <3>3, <3>4
  <2> QED
    BY <2>2, <2>4, <2>5
<1> QED
  BY <1>1, <1>2, ShapeInvariant, PTL DEF DocSpec

-----------------------------------------------------------------------------
(* A whole import *)

\* f is what an import of the bundle has done after each item.
Imported(f) ==
  doc.was \in Exports /\ Kept(doc.is, doc.was) /\ Round(doc.is, f)

\* What cannot be read stops an import.
LEMMA UnreadableStops ==
  ASSUME NEW s, Sane(s), ~s.stopped
  PROVE  Files!ImportItem(s, Files!Unreadable).stopped
<1>. DEFINE r == Files!Report(s)
<1>1. Sane(r) /\ Files!ImportItem(s, Files!Unreadable) = [r EXCEPT !.stopped = TRUE]
  BY Reported DEF Files!ImportItem
<1> HIDE DEF r
<1>2. \A e \in BOOLEAN : [r EXCEPT !.stopped = e].stopped = e
  BY <1>1 DEF Sane
<1> QED
  BY <1>1, <1>2

\* Every state of an import of a hurt bundle is sane, and every item one of the export.
LEMMA ImportSane ==
  ASSUME NEW f, Imported(f)
  PROVE  LET n == Len(doc.is) IN
         /\ n \in Nat /\ DOMAIN doc.is = 1..n /\ f[0] = Files!Fresh
         /\ \A i \in 1..n : Item(doc.is[i]) /\ f[i] = Files!ImportItem(f[i-1], doc.is[i])
         /\ \A i \in 0..n : Sane(f[i])
         /\ f[0].records = <<>> /\ f[0].pending = Files!NoParts /\ ~f[0].ended /\ ~f[0].stopped
<1>. DEFINE n == Len(doc.is)
            A == {i \in 0..n : Sane(f[i])}
<1>1. n \in Nat /\ DOMAIN doc.is = 1..n
  BY LenProperties DEF Imported, Kept
<1>2. f[0] = Files!Fresh /\ \A i \in 1..n : f[i] = Files!ImportItem(f[i-1], doc.is[i])
  <2>1. f = [i \in 0..n |-> IF i = 0 THEN Files!Fresh ELSE Files!ImportItem(f[i-1], doc.is[i])]
    BY DEF Imported, Round
  <2>2. 0 \in 0..n /\ \A i \in 1..n : i \in 0..n /\ i # 0
    BY <1>1
  <2> HIDE DEF n
  <2> QED
    BY <2>1, <2>2
<1>3. \A i \in 1..n : Item(doc.is[i])
  BY DEF Imported, Kept, ItemOf, Item, AtEnd, Rs, Bs
<1> HIDE DEF n
<1>4. Sane(Files!Fresh)
  <2>1. <<>> \in Seq(Rs) /\ <<>> \in Seq(Bs) /\ Len(<<>>) = 0
    OBVIOUS
  <2>2. Once(<<>>, Rs) /\ Once(<<>>, Bs)
    BY <2>1 DEF Once
  <2> QED
    BY <2>2 DEF Sane, Files!Fresh, InPart
<1>5. 0 \in A
  BY <1>1, <1>2, <1>4
<1>6. ASSUME NEW i \in 1..n, i - 1 \in A PROVE i \in A
  <2>1. Sane(f[i-1]) /\ Item(doc.is[i]) /\ f[i] = Files!ImportItem(f[i-1], doc.is[i])
    BY <1>2, <1>3, <1>6
  <2>2. Sane(f[i])
    BY <2>1, ItemDoes, ItemIgnored DEF Does
  <2> QED
    BY <1>1, <2>2
<1>7. \A i \in 0..n : i \in A
  <2> HIDE DEF A
  <2> QED
    BY <1>1, <1>5, <1>6, UpToInduction
<1>8. f[0].records = <<>> /\ f[0].pending = Files!NoParts /\ ~f[0].ended /\ ~f[0].stopped
  BY <1>2 DEF Files!Fresh
<1> QED
  BY <1>1, <1>2, <1>3, <1>7, <1>8 DEF n

\* The items reached: all up to the first that ends the import or cannot be read.
LEMMA Reached ==
  ASSUME NEW f, Imported(f)
  PROVE  LET n == Len(doc.is)
             c == Len(ReachedItems)
         IN /\ c \in 0..n /\ DOMAIN ReachedItems = 1..c /\ \A i \in 1..c : ReachedItems[i] = doc.is[i]
            /\ \A i \in 1..c : doc.is[i].tag \notin {"end", "unreadable"}
            /\ c < n => doc.is[c+1].tag \in {"end", "unreadable"}
<1>. DEFINE n == Len(doc.is)
            stops == {i \in DOMAIN doc.is : doc.is[i].tag \in {"end", Files!Unreadable.tag}}
            k == IF stops = {} THEN n ELSE Min(stops) - 1
<1>1. n \in Nat /\ DOMAIN doc.is = 1..n
  BY ImportSane
<1>2. stops = {i \in 1..n : doc.is[i].tag \in {"end", "unreadable"}}
  BY <1>1, Tags
<1>3. ReachedItems = SubSeq(doc.is, 1, k)
  BY DEF ReachedItems
<1> HIDE DEF n
<1>4. stops # {} => Min(stops) \in stops /\ \A i \in stops : Min(stops) <= i
  <2> HIDE DEF stops
  <2>1. stops \subseteq Nat
    BY <1>1 DEF stops
  <2>2. stops # {} => \E i \in stops : \A j \in stops : i <= j
    BY <2>1, LeastNat
  <2> QED
    BY <2>2 DEF Min
<1>5. /\ k \in 0..n
      /\ \A i \in 1..k : doc.is[i].tag \notin {"end", "unreadable"}
      /\ k < n => doc.is[k+1].tag \in {"end", "unreadable"}
  <2>1. CASE stops = {}
    BY <1>1, <1>2, <2>1
  <2>2. CASE stops # {}
    <3>1. k = Min(stops) - 1 /\ Min(stops) \in 1..n /\ doc.is[Min(stops)].tag \in {"end", "unreadable"}
      BY <1>2, <1>4, <2>2
    <3>. DEFINE q == Min(stops)
    <3>2. k = q - 1 /\ q \in 1..n /\ doc.is[q].tag \in {"end", "unreadable"} /\ \A i \in stops : q <= i
      BY <1>4, <2>2, <3>1
    <3> HIDE DEF k, q, stops
    <3>3. \A i \in 1..k : i \notin stops /\ i \in 1..n
      BY <1>1, <3>2
    <3>4. k \in 0..n /\ k + 1 = q
      BY <1>1, <3>2
    <3> QED
      BY <1>2, <3>2, <3>3, <3>4
  <2> QED
    BY <2>1, <2>2
<1> HIDE DEF k, stops
<1>6. PICK S : doc.is \in Seq(S)
  BY DEF Imported, Kept
<1>7. \A i \in 1..k : doc.is[i] \in S
  BY <1>1, <1>5, <1>6, LenProperties DEF n
<1>8. /\ ReachedItems \in Seq(S) /\ Len(ReachedItems) = k
      /\ \A i \in 1..k : ReachedItems[i] = doc.is[i]
  <2>1. /\ ReachedItems \in Seq(S) /\ Len(ReachedItems) = IF 1 <= k THEN k - 1 + 1 ELSE 0
        /\ \A i \in 1..k - 1 + 1 : ReachedItems[i] = doc.is[1+i-1]
    BY <1>3, <1>5, <1>7, SubSeqProperties
  <2> QED
    BY <1>1, <1>5, <2>1
<1>9. DOMAIN ReachedItems = 1..k
  BY <1>8, LenProperties
<1> QED
  BY <1>5, <1>8, <1>9 DEF n

\* The records among the first i items.
RecordsIn(i) == {doc.is[j].record : j \in {x \in 1..i : doc.is[x].tag = "r"}}

\* Up to there every valid record is handed on; nothing is afterwards.
LEMMA RecordsReached ==
  ASSUME NEW f, Imported(f)
  PROVE  LET n == Len(doc.is)
             c == Len(ReachedItems)
         IN /\ \A i \in 0..c : ~f[i].stopped /\ (f[i].ended => i = n)
            /\ \A i \in 1..c : Does(f[i-1], doc.is[i], f[i])
            /\ ToSet(f[n].records) = RecordsIn(c) \cap Valid
<1>. DEFINE n == Len(doc.is)
            c == Len(ReachedItems)
            A == {i \in 0..c : /\ ~f[i].stopped /\ (f[i].ended => i = n)
                               /\ ToSet(f[i].records) = RecordsIn(i) \cap Valid}
<1>1. /\ n \in Nat /\ \A i \in 1..n : Item(doc.is[i]) /\ f[i] = Files!ImportItem(f[i-1], doc.is[i])
      /\ \A i \in 0..n : Sane(f[i])
      /\ f[0].records = <<>> /\ ~f[0].ended /\ ~f[0].stopped
  BY ImportSane
<1>2. /\ c \in 0..n /\ \A i \in 1..c : doc.is[i].tag \notin {"end", "unreadable"}
      /\ c < n => doc.is[c+1].tag \in {"end", "unreadable"}
  BY Reached
<1>3. \A i \in 1..n : Ends(doc.is[i]) => i = n
  BY DEF Imported, Kept
<1> HIDE DEF n, c
<1>4. ASSUME NEW i \in 1..c, ~f[i-1].stopped, f[i-1].ended => i - 1 = n
      PROVE  Does(f[i-1], doc.is[i], f[i]) /\ ~f[i].stopped /\ (f[i].ended => i = n)
  <2>1. i \in 1..n /\ i - 1 \in 0..n /\ i - 1 # n
    BY <1>1, <1>2
  <2>2. Does(f[i-1], doc.is[i], f[i])
    BY <1>1, <1>4, <2>1, ItemDoes
  <2>3. doc.is[i] # Files!Unreadable
    BY <1>2, Tags
  <2> QED
    BY <1>3, <1>4, <2>1, <2>2, <2>3 DEF Does
<1>5. 0 \in A
  <2>1. ToSet(<<>>) = {} /\ RecordsIn(0) = {}
    BY DEF ToSet, RecordsIn
  <2> QED
    BY <1>1, <1>2, <2>1
<1>6. ASSUME NEW i \in 1..c, i - 1 \in A PROVE i \in A
  <2>1. Does(f[i-1], doc.is[i], f[i]) /\ ~f[i].stopped /\ (f[i].ended => i = n)
    BY <1>4, <1>6
  <2>2. RecordsIn(i) = RecordsIn(i-1) \cup (IF doc.is[i].tag = "r" THEN {doc.is[i].record} ELSE {})
    <3>1. 1..i = (1..i-1) \cup {i}
      BY <1>2
    <3> QED
      BY <3>1 DEF RecordsIn
  <2>3. ToSet(f[i].records) = RecordsIn(i) \cap Valid
    BY <1>6, <2>1, <2>2 DEF Does
  <2>4. i \in 0..c
    BY <1>2
  <2> QED
    BY <2>1, <2>3, <2>4
<1>7. \A i \in 0..c : i \in A
  <2> HIDE DEF A
  <2>1. c \in Nat
    BY <1>1, <1>2
  <2> QED
    BY <1>5, <1>6, <2>1, UpToInduction
<1>8. \A i \in 1..c : Does(f[i-1], doc.is[i], f[i])
  <2>1. \A i \in 1..c : i - 1 \in A
    <3>1. \A i \in 1..c : i - 1 \in 0..c
      BY <1>1, <1>2
    <3> HIDE DEF A
    <3> QED
      BY <1>7, <3>1
  <2> QED
    BY <1>4, <2>1
<1>. DEFINE B == {i \in 0..n : i > c => (f[i].ended \/ f[i].stopped)
              /\ ToSet(f[i].records) = RecordsIn(c) \cap Valid}
<1>9. 0 \in B
  BY <1>1, <1>2
<1>10. ASSUME NEW i \in 1..n, i - 1 \in B PROVE i \in B
  <2>1. SUFFICES ASSUME i > c
                 PROVE  (f[i].ended \/ f[i].stopped) /\ ToSet(f[i].records) = RecordsIn(c) \cap Valid
    BY <1>1
  <2>2. i - 1 \in 0..n /\ Sane(f[i-1]) /\ Item(doc.is[i]) /\ f[i] = Files!ImportItem(f[i-1], doc.is[i])
    BY <1>1
  <2>3. CASE i - 1 > c
    BY <1>10, <2>2, <2>3, ItemIgnored
  <2>4. CASE ~(i - 1 > c)
    <3>1. i - 1 = c /\ c < n /\ i = c + 1
      BY <1>1, <1>2, <2>1, <2>4
    <3>2. doc.is[i].tag \in {"end", "unreadable"}
      BY <1>2, <3>1
    <3>3. ~f[i-1].stopped /\ ~f[i-1].ended /\ ToSet(f[i-1].records) = RecordsIn(c) \cap Valid
      BY <1>2, <1>7, <3>1
    <3>4. Does(f[i-1], doc.is[i], f[i])
      BY <2>2, <3>3, ItemDoes
    <3>5. f[i].ended \/ f[i].stopped
      <4>1. CASE doc.is[i].tag = "end"
        BY <3>4, <4>1 DEF Does, Ends
      <4>2. CASE doc.is[i].tag = "unreadable"
        <5>1. doc.is[i] = Files!Unreadable
          BY <2>2, <4>2, ItemTags
        <5> QED
          BY <2>2, <3>3, <5>1, UnreadableStops
      <4> QED
        BY <3>2, <4>1, <4>2
    <3>6. ToSet(f[i].records) = ToSet(f[i-1].records)
      BY <3>2, <3>4 DEF Does
    <3> QED
      BY <3>3, <3>5, <3>6
  <2> QED
    BY <2>3, <2>4
<1>11. \A i \in 0..n : i \in B
  <2> HIDE DEF B
  <2> QED
    BY <1>1, <1>9, <1>10, UpToInduction
<1>12. ToSet(f[n].records) = RecordsIn(c) \cap Valid
  <2>1. n \in B /\ (n = c => n \in A)
    <3> HIDE DEF A, B
    <3> QED
      BY <1>1, <1>2, <1>7, <1>11
  <2> QED
    BY <1>1, <1>2, <2>1
<1> QED
  BY <1>7, <1>8, <1>12 DEF n, c

\* A blob that is handed on, or pending and whole, is handed on at the end, when no
\* further part of it comes.
LEMMA DeliveredStays ==
  ASSUME NEW f, Imported(f), NEW b, NEW i \in 0..Len(doc.is), Delivered(f[i], b),
         \A j \in 1..Len(doc.is) : j > i => ~(doc.is[j].tag = "bp" /\ doc.is[j].id = b)
  PROVE  b \in ToSet(Files!Flush(f[Len(doc.is)]).blobs)
<1>. DEFINE n == Len(doc.is)
            A == {j \in 0..n : j >= i => Delivered(f[j], b)}
<1>1. /\ n \in Nat /\ \A j \in 1..n : Item(doc.is[j]) /\ f[j] = Files!ImportItem(f[j-1], doc.is[j])
      /\ \A j \in 0..n : Sane(f[j])
  BY ImportSane
<1>2. i \in 0..n /\ \A j \in 1..n : j > i => ~(doc.is[j].tag = "bp" /\ doc.is[j].id = b)
  OBVIOUS
<1> HIDE DEF n
<1>3. 0 \in A
  <2>1. 0 >= i => i = 0
    BY <1>1, <1>2
  <2> QED
    BY <1>1, <2>1
<1>4. ASSUME NEW j \in 1..n, j - 1 \in A PROVE j \in A
  <2>1. SUFFICES ASSUME j >= i, j # i PROVE Delivered(f[j], b)
    BY <1>1
  <2>2. j - 1 >= i /\ j > i /\ j - 1 \in 0..n
    BY <1>1, <1>2, <2>1
  <2>3. Delivered(f[j-1], b) /\ Sane(f[j-1]) /\ Item(doc.is[j]) /\ f[j] = Files!ImportItem(f[j-1], doc.is[j])
        /\ ~(doc.is[j].tag = "bp" /\ doc.is[j].id = b)
    BY <1>1, <1>2, <1>4, <2>2
  <2>4. CASE f[j-1].ended \/ f[j-1].stopped
    <3>1. f[j].blobs = f[j-1].blobs /\ f[j].pending = f[j-1].pending
      BY <2>3, <2>4, ItemIgnored
    <3> QED
      BY <2>3, <3>1 DEF Delivered
  <2>5. CASE ~f[j-1].ended /\ ~f[j-1].stopped
    BY <2>3, <2>5, ItemDoes DEF Does
  <2> QED
    BY <2>4, <2>5
<1>5. \A j \in 0..n : j \in A
  <2> HIDE DEF A
  <2> QED
    BY <1>1, <1>3, <1>4, UpToInduction
<1>6. n \in A
  <2> HIDE DEF A
  <2> QED
    BY <1>1, <1>5
<1>7. Delivered(f[n], b) /\ Sane(f[n])
  BY <1>1, <1>2, <1>6
<1> QED
  BY <1>7, FlushDelivers DEF n

\* What the first k parts of a blob make.
PrefixOf(b, k) == SubSeq(b, 1, IF k * PartSize < Len(b) THEN k * PartSize ELSE Len(b))

\* Each part lengthens what the parts before it make, up to all of the blob.
JoinFacts(b) ==
  /\ PartCount(b) \in Nat /\ PartCount(b) >= 1
  /\ PrefixOf(b, 1) = Files!Parts(b)[1] /\ PrefixOf(b, PartCount(b)) = b
  /\ \A k \in 1..PartCount(b) : k < PartCount(b) =>
       /\ PrefixOf(b, k + 1) = PrefixOf(b, k) \o Files!Parts(b)[k + 1]
       /\ Len(Files!Parts(b)[k]) = PartSize

\* The parts of a blob, one after the other, are the blob.
LEMMA PartsJoin ==
  ASSUME NEW S, NEW b \in Seq(S), Len(b) > 0
  PROVE  JoinFacts(b)
<1>. DEFINE n == PartCount(b)
            l == Len(b)
            End(k) == IF k * PartSize < l THEN k * PartSize ELSE l
<1>1. PartSize \in Nat /\ PartSize > 0 /\ l \in Nat /\ l > 0
  BY SizeAssumption, LenProperties
<1>2. n \in Nat /\ PartSize * n < l + PartSize /\ l <= PartSize * n /\ DOMAIN Files!Parts(b) = 1..n
  BY <1>1, PartsCounted
<1>3. n >= 1
  <2>1. CASE n = 0
    <3>1. PartSize * n = 0
      BY <1>1, <2>1
    <3> QED
      BY <1>1, <1>2, <3>1
  <2> QED
    BY <1>2, <2>1
<1>4. \A k \in 1..n : Files!Parts(b)[k] = SubSeq(b, (k - 1) * PartSize + 1, End(k))
  BY <1>2 DEF Files!Parts, PartCount
<1>5. \A k : PrefixOf(b, k) = SubSeq(b, 1, End(k))
  BY DEF PrefixOf
<1> HIDE DEF n, l
<1>6. ASSUME NEW k \in 1..n, k < n
      PROVE  /\ k * PartSize \in Nat /\ k * PartSize < l
             /\ (k - 1) * PartSize \in Nat /\ (k - 1) * PartSize + PartSize = k * PartSize
             /\ (k + 1) * PartSize \in Nat /\ (k + 1) * PartSize = k * PartSize + PartSize
  <2>1. k \in Nat /\ k - 1 \in Nat /\ k + 1 \in Nat /\ n - k - 1 \in Nat
    BY <1>2, <1>6
  <2>2. k * PartSize \in Nat /\ (k - 1) * PartSize \in Nat /\ (k + 1) * PartSize \in Nat
        /\ (n - k - 1) * PartSize \in Nat
    BY <1>1, <2>1
  <2>3. (k - 1) * PartSize = k * PartSize - PartSize /\ (k + 1) * PartSize = k * PartSize + PartSize
        /\ (n - k - 1) * PartSize = PartSize * n - k * PartSize - PartSize
    BY <1>1, <1>2, <2>1
  <2>4. PartSize * n \in Nat
    BY <1>1, <1>2
  <2> QED
    BY <1>1, <1>2, <2>2, <2>3, <2>4
<1>7. PrefixOf(b, 1) = Files!Parts(b)[1]
  <2>1. 1 \in 1..n /\ (1 - 1) * PartSize + 1 = 1
    BY <1>1, <1>2, <1>3
  <2> HIDE DEF End
  <2> QED
    BY <1>4, <1>5, <2>1
<1>8. PrefixOf(b, n) = b
  <2>1. End(n) = l
    <3>1. PartSize * n = n * PartSize /\ n * PartSize \in Nat
      BY <1>1, <1>2
    <3> QED
      BY <1>1, <1>2, <3>1
  <2>2. SubSeq(b, 1, l) = b
    BY SubSeqFull DEF l
  <2> QED
    BY <1>5, <2>1, <2>2
<1>9. ASSUME NEW k \in 1..n, k < n
      PROVE  /\ PrefixOf(b, k + 1) = PrefixOf(b, k) \o Files!Parts(b)[k + 1]
             /\ Len(Files!Parts(b)[k]) = PartSize
  <2>1. End(k) = k * PartSize /\ End(k) \in 0..l /\ End(k+1) \in End(k)..l
    BY <1>1, <1>6, <1>9
  <2>2. k + 1 \in 1..n /\ ((k + 1) - 1) * PartSize + 1 = End(k) + 1
    BY <1>1, <1>2, <1>6, <1>9, <2>1
  <2>3. PrefixOf(b, k) = SubSeq(b, 1, End(k)) /\ PrefixOf(b, k+1) = SubSeq(b, 1, End(k+1))
        /\ Files!Parts(b)[k+1] = SubSeq(b, End(k) + 1, End(k+1))
    <3> HIDE DEF End
    <3> QED
      BY <1>4, <1>5, <2>2
  <2>4. Len(Files!Parts(b)[k]) = PartSize
    <3>. DEFINE m == (k - 1) * PartSize
    <3>1. Files!Parts(b)[k] = SubSeq(b, m + 1, End(k))
      BY <1>4
    <3>2. m \in Nat /\ m + PartSize = End(k)
      BY <1>6, <1>9, <2>1
    <3> HIDE DEF m, End
    <3>3. \A i \in (m + 1)..End(k) : b[i] \in S
      BY <2>1, <3>2, LenProperties DEF l
    <3>4. Len(SubSeq(b, m + 1, End(k))) = IF m + 1 <= End(k) THEN End(k) - (m + 1) + 1 ELSE 0
      BY <1>1, <3>2, <3>3, SubSeqProperties
    <3> QED
      BY <1>1, <3>1, <3>2, <3>4
  <2>5. SubSeq(b, 1, End(k)) \o SubSeq(b, End(k) + 1, End(k+1)) = SubSeq(b, 1, End(k+1))
    <3> HIDE DEF End
    <3>1. 1 \in 1..l+1 /\ End(k) \in 1 - 1 .. l
      BY <1>1, <2>1
    <3> QED
      BY <2>1, <3>1, ConcatAdjacentSubSeq DEF l
  <2> QED
    BY <2>3, <2>4, <2>5
<1>10. \A k \in 1..n : k < n => /\ PrefixOf(b, k + 1) = PrefixOf(b, k) \o Files!Parts(b)[k + 1]
                                 /\ Len(Files!Parts(b)[k]) = PartSize
  <2>1. TAKE k \in 1..n
  <2>2. HAVE k < n
  <2> QED
    BY <1>9, <2>2
<1> HIDE DEF End
<1>11. n \in Nat
  BY <1>2
<1> QED
  BY <1>3, <1>7, <1>8, <1>10, <1>11 DEF n, JoinFacts

\* The parts of a blob, where a run of them begins.
LEMMA RunItems ==
  ASSUME NEW f, Imported(f), NEW b \in Bs, Len(b) > Threshold,
         NEW i \in 1..Len(ReachedItems), WholeRun(ReachedItems, i, b)
  PROVE  /\ PartCount(b) \in Nat /\ PartCount(b) >= 1 /\ i + PartCount(b) - 1 <= Len(ReachedItems)
         /\ \A k \in 1..PartCount(b) : doc.is[i + k - 1] = Files!BpItem(b, k - 1, Files!Parts(b)[k])
         /\ JoinFacts(b) /\ f[i-1].pending = Files!NoParts
<1>. DEFINE n == Len(doc.is)
            c == Len(ReachedItems)
            l == PartCount(b)
            run == Files!BlobItems(b)
<1>1. b \in Seq(ToSet(b)) /\ Len(b) \in Nat /\ Len(b) > 0
  <2>1. IsSeq(b)
    BY ExportsAssumption DEF Imported, Bs
  <2>2. Threshold \in Nat
    BY SizeAssumption
  <2> QED
    BY <2>1, <2>2, LenProperties DEF IsSeq
<1>2. JoinFacts(b) /\ l \in Nat /\ l >= 1 /\ DOMAIN Files!Parts(b) = 1..l
  BY <1>1, PartsJoin, PartsCounted DEF JoinFacts
<1>3. run = [k \in 1..l |-> Files!BpItem(b, k - 1, Files!Parts(b)[k])]
  BY <1>2 DEF Files!BlobItems
<1>4. Len(run) = l
  <2>. DEFINE S == {run[k] : k \in 1..l}
  <2>1. run \in [1..l -> S]
    BY <1>3
  <2> HIDE DEF run, S, l
  <2> QED
    BY <1>2, <2>1
<1>5. /\ n \in Nat /\ c \in 0..n /\ DOMAIN ReachedItems = 1..c /\ \A j \in 1..c : ReachedItems[j] = doc.is[j]
  BY ImportSane, Reached
<1>6. i + l - 1 <= c /\ SubSeq(ReachedItems, i, i + l - 1) = run
  BY <1>4 DEF WholeRun
<1> HIDE DEF l, run, c, n
<1>7. \A k \in 1..l : doc.is[i + k - 1] = Files!BpItem(b, k - 1, Files!Parts(b)[k])
  <2>. DEFINE S == {ReachedItems[j] : j \in 1..c}
  <2>1. \A j \in i..(i + l - 1) : j \in 1..c /\ ReachedItems[j] \in S
    BY <1>2, <1>5, <1>6 DEF c
  <2>2. i \in Nat /\ i + l - 1 \in Nat /\ i <= i + l - 1 /\ (i + l - 1) - i + 1 = l
    BY <1>2, <1>5 DEF c
  <2> HIDE DEF S
  <2>3. \A k \in 1..((i + l - 1) - i + 1) : SubSeq(ReachedItems, i, i + l - 1)[k] = ReachedItems[i + k - 1]
    BY <2>1, <2>2, SubSeqProperties
  <2>4. \A k \in 1..l : i + k - 1 \in i..(i + l - 1)
    BY <1>2, <2>2
  <2> QED
    BY <1>3, <1>5, <1>6, <2>1, <2>2, <2>3, <2>4
<1>8. f[i-1].pending = Files!NoParts
  <2>1. CASE i = 1
    BY <2>1, ImportSane
  <2>2. CASE i # 1
    <3>. DEFINE it == doc.is[i-1]
    <3>1. i - 1 \in 1..c /\ i - 1 \in 1..n /\ it = ReachedItems[i-1]
      BY <1>5, <2>2 DEF c
    <3>2. Does(f[i-1-1], it, f[i-1])
      BY <3>1, RecordsReached DEF c
    <3>3. it.tag \in {"hdr", "r", "b"} \/ (it.tag = "bp" /\ Len(it.part) < PartSize)
      BY <2>2, <3>1 DEF WholeRun
    <3>4. CASE it.tag = "hdr"
      <4>1. i - 1 = 1 /\ Item(it)
        BY <3>1, <3>4, ImportSane DEF Imported, Kept, n
      <4>2. it = Files!Hdr
        BY <3>4, <4>1, ItemTags
      <4>3. f[1] = Files!ImportItem(Files!Fresh, Files!Hdr)
        BY <3>1, <4>1, <4>2, ImportSane DEF n
      <4>4. f[1] = [Files!Fresh EXCEPT !.first = FALSE]
        BY <4>3 DEF Files!ImportItem, Files!Fresh, Files!Hdr, Files!Unreadable, Files!Unusable
      <4>5. f[1].pending = Files!NoParts
        BY <4>4 DEF Files!Fresh
      <4> QED
        BY <4>1, <4>5
    <3>5. CASE it.tag # "hdr"
      BY <3>2, <3>3, <3>5 DEF Does
    <3> QED
      BY <3>4, <3>5
  <2> QED
    BY <2>1, <2>2
<1> QED
  BY <1>2, <1>6, <1>7, <1>8 DEF l, c

\* After each part of the run what is pending is what the parts make; after the last
\* one the blob is handed on, or it is pending and whole.
LEMMA RunJoins ==
  ASSUME NEW f, Imported(f), NEW b \in Bs, Len(b) > Threshold,
         NEW i \in 1..Len(ReachedItems), WholeRun(ReachedItems, i, b)
  PROVE  Delivered(f[i + PartCount(b) - 1], b)
<1>. DEFINE c == Len(ReachedItems)
            l == PartCount(b)
            is(k) == doc.is[i + k - 1]
            at(k) == f[i + k - 1]
            Handed(k) == IF k = 0 THEN at(k).pending = Files!NoParts
                       ELSE IF k < l THEN at(k).pending = Files!Pending(b, k, PrefixOf(b, k))
                       ELSE Delivered(at(k), b)
            A == {k \in 0..l : Handed(k)}
<1>1. /\ l \in Nat /\ l >= 1 /\ i + l - 1 <= c /\ c \in Nat
      /\ \A k \in 1..l : is(k) = Files!BpItem(b, k - 1, Files!Parts(b)[k])
      /\ f[i-1].pending = Files!NoParts
  BY RunItems, Reached, ImportSane
<1>2. /\ PrefixOf(b, 1) = Files!Parts(b)[1] /\ PrefixOf(b, l) = b
      /\ \A k \in 1..l : k < l => /\ PrefixOf(b, k + 1) = PrefixOf(b, k) \o Files!Parts(b)[k + 1]
                                  /\ Len(Files!Parts(b)[k]) = PartSize
  BY RunItems DEF JoinFacts
<1>3. PartSize \in Nat
  BY SizeAssumption
<1>4. \A k \in 1..l : Does(at(k-1), is(k), at(k))
  <2>1. \A k \in 1..l : i + k - 1 \in 1..c /\ i + (k - 1) - 1 = (i + k - 1) - 1
    BY <1>1
  <2>2. \A j \in 1..c : Does(f[j-1], doc.is[j], f[j])
    BY RecordsReached
  <2> QED
    BY <2>1, <2>2
<1> HIDE DEF l
<1>5. l \in Nat /\ l >= 1
  BY <1>1
<1>6. 0 \in A
  <2>1. i + 0 - 1 = i - 1
    OBVIOUS
  <2> QED
    BY <1>1, <2>1
<1>7. ASSUME NEW k \in 1..l, k - 1 \in A PROVE k \in A
  <2>. DEFINE s == at(k-1)
              u == at(k)
              it == is(k)
              p == Files!Parts(b)[k]
  <2>1. it.tag = "bp" /\ it.id = b /\ it.index = k - 1 /\ it.part = p
    BY <1>1, BpFields
  <2>2. Continues(s, it) /\ Joined(s, it) = PrefixOf(b, k)
    <3>1. CASE k = 1
      <4>1. s.pending = Files!NoParts
        BY <1>7, <3>1
      <4> QED
        BY <1>2, <2>1, <3>1, <4>1 DEF Continues, Joined
    <3>2. CASE k # 1
      <4>1. k - 1 \in 1..l /\ k - 1 < l /\ k - 1 + 1 = k /\ k - 1 # 0
        BY <1>5, <3>2
      <4>2. s.pending = Files!Pending(b, k - 1, PrefixOf(b, k - 1))
        BY <1>7, <4>1
      <4>3. PrefixOf(b, k) = PrefixOf(b, k - 1) \o p
        BY <1>2, <4>1
      <4>4. s.pending # Files!NoParts /\ s.pending.id = b /\ s.pending.next = k - 1
            /\ s.pending.content = PrefixOf(b, k - 1)
        BY <4>2, NoPartsIsNoBlob, PendingParts
      <4> QED
        BY <2>1, <4>3, <4>4 DEF Continues, Joined
    <3> QED
      BY <3>1, <3>2
  <2>3. Does(s, it, u)
    BY <1>4
  <2> HIDE DEF s, u, it, p
  <2>4. IF Len(p) < PartSize
          THEN PrefixOf(b, k) = b => b \in ToSet(u.blobs)
          ELSE u.pending = Files!Pending(b, k, PrefixOf(b, k))
    <3>1. k - 1 + 1 = k
      BY <1>1
    <3> QED
      BY <2>1, <2>2, <2>3, <3>1 DEF Does
  <2>5. CASE k < l
    <3>1. Len(p) = PartSize /\ ~(Len(p) < PartSize) /\ k # 0
      BY <1>2, <1>3, <2>5 DEF p
    <3> QED
      BY <1>1, <2>4, <2>5, <3>1 DEF u
  <2>6. CASE ~(k < l)
    <3>1. k = l /\ k # 0
      BY <1>1, <2>6
    <3>2. Delivered(u, b)
      BY <1>2, <2>4, <3>1, PendingParts DEF Delivered
    <3> QED
      BY <1>1, <3>1, <3>2 DEF u
  <2> QED
    BY <2>5, <2>6
<1>8. \A k \in 0..l : k \in A
  <2> HIDE DEF A
  <2> QED
    BY <1>1, <1>6, <1>7, UpToInduction
<1>9. l \in A
  <2> HIDE DEF A
  <2> QED
    BY <1>1, <1>8
<1>10. l # 0 /\ ~(l < l)
  BY <1>1
<1>11. Delivered(at(l), b)
  BY <1>9, <1>10
<1> QED
  BY <1>11 DEF l

\* No part of a blob comes after all of them.
LEMMA RunIsLast ==
  ASSUME NEW f, Imported(f), NEW b \in Bs, Len(b) > Threshold,
         NEW i \in 1..Len(ReachedItems), WholeRun(ReachedItems, i, b),
         NEW j \in 1..Len(doc.is), j > i + PartCount(b) - 1
  PROVE  ~(doc.is[j].tag = "bp" /\ doc.is[j].id = b)
<1>. DEFINE n == Len(doc.is)
            l == PartCount(b)
<1>1. SUFFICES ASSUME doc.is[j].tag = "bp", doc.is[j].id = b PROVE FALSE
  OBVIOUS
<1>2. PICK g : Numbers(g, doc.is)
  BY DEF Imported, Kept
<1>3. /\ l \in Nat /\ l >= 1 /\ n \in Nat /\ i + l - 1 < j
      /\ \A k \in 1..l : doc.is[i + k - 1] = Files!BpItem(b, k - 1, Files!Parts(b)[k])
  BY RunItems, ImportSane
<1>4. /\ g \in [1..n -> Nat] /\ g[j] < l
      /\ \A p, q \in 1..n : p < q /\ doc.is[p].tag = "bp" /\ doc.is[q].tag = "bp" /\ doc.is[p].id = doc.is[q].id
                              => g[p] < g[q]
  BY <1>1, <1>2 DEF Numbers
<1> HIDE DEF n, l
<1>5. \A k \in 1..l : i + k - 1 \in 1..n /\ i + k - 1 < j
                      /\ doc.is[i + k - 1].tag = "bp" /\ doc.is[i + k - 1].id = b
  <2>1. \A k \in 1..l : i + k - 1 \in 1..n /\ i + k - 1 < j
    <3>1. l \in Nat /\ n \in Nat /\ i + l - 1 < j /\ j \in 1..n /\ i \in Nat /\ i >= 1
      <4>1. Len(ReachedItems) \in 0..Len(doc.is)
        BY Reached
      <4> QED
        BY <1>3, <4>1 DEF n
    <3> QED
      BY <3>1
  <2>2. ASSUME NEW k \in 1..l PROVE doc.is[i + k - 1].tag = "bp" /\ doc.is[i + k - 1].id = b
    <3>1. doc.is[i + k - 1] = Files!BpItem(b, k - 1, Files!Parts(b)[k])
      BY <1>3
    <3> QED
      BY <3>1, BpFields
  <2> QED
    BY <2>1, <2>2
<1>. DEFINE A == {k \in 0..l : k >= 1 => g[i + k - 1] >= k - 1}
<1>6. 0 \in A
  BY <1>3
<1>7. ASSUME NEW k \in 1..l, k - 1 \in A PROVE k \in A
  <2>1. g[i + k - 1] \in Nat
    BY <1>4, <1>5
  <2>2. CASE k = 1
    BY <1>3, <2>1, <2>2
  <2>3. CASE k # 1
    <3>1. k - 1 \in 1..l /\ i + (k - 1) - 1 < i + k - 1 /\ k - 1 >= 1
      BY <1>3, <2>3
    <3>2. g[i + (k - 1) - 1] < g[i + k - 1] /\ g[i + (k - 1) - 1] \in Nat
      BY <1>4, <1>5, <3>1
    <3>3. g[i + (k - 1) - 1] >= k - 1 - 1
      BY <1>7, <3>1
    <3> QED
      BY <1>3, <2>1, <3>2, <3>3
  <2> QED
    BY <2>2, <2>3
<1>8. \A k \in 0..l : k \in A
  <2> HIDE DEF A
  <2> QED
    BY <1>3, <1>6, <1>7, UpToInduction
<1>9. l \in A /\ l \in 1..l
  <2> HIDE DEF A
  <2> QED
    BY <1>3, <1>8
<1>10. g[i + l - 1] >= l - 1 /\ g[i + l - 1] < g[j] /\ g[i + l - 1] \in Nat /\ g[j] \in Nat
  <2>1. g[i + l - 1] >= l - 1
    BY <1>3, <1>9
  <2>2. j \in 1..n
    BY DEF n
  <2> QED
    BY <1>1, <1>4, <1>5, <1>9, <2>1, <2>2
<1>11. l \in Nat /\ g[j] < l
  BY <1>3, <1>4
<1> QED
  BY <1>10, <1>11

\* A blob all of whose parts are reached, one after the other, is handed on.
LEMMA RunDelivers ==
  ASSUME NEW f, Imported(f), NEW b \in Bs, Len(b) > Threshold,
         NEW i \in 1..Len(ReachedItems), WholeRun(ReachedItems, i, b)
  PROVE  b \in ToSet(Files!Flush(f[Len(doc.is)]).blobs)
<1>1. /\ PartCount(b) \in Nat /\ PartCount(b) >= 1 /\ i + PartCount(b) - 1 <= Len(ReachedItems)
      /\ Len(ReachedItems) \in 0..Len(doc.is) /\ Len(doc.is) \in Nat
  BY RunItems, Reached, ImportSane
<1>2. i + PartCount(b) - 1 \in 0..Len(doc.is)
  BY <1>1
<1> QED
  BY <1>2, RunJoins, RunIsLast, DeliveredStays

\* What was handed on stays so.
LEMMA BlobsStay ==
  ASSUME NEW f, Imported(f), NEW b, NEW i \in 0..Len(doc.is), b \in ToSet(f[i].blobs)
  PROVE  b \in ToSet(Files!Flush(f[Len(doc.is)]).blobs)
<1>. DEFINE n == Len(doc.is)
            A == {j \in 0..n : j >= i => b \in ToSet(f[j].blobs)}
<1>1. /\ n \in Nat /\ \A j \in 1..n : Item(doc.is[j]) /\ f[j] = Files!ImportItem(f[j-1], doc.is[j])
      /\ \A j \in 0..n : Sane(f[j])
  BY ImportSane
<1>2. i \in 0..n
  OBVIOUS
<1> HIDE DEF n
<1>3. 0 \in A
  <2>1. 0 >= i => i = 0
    BY <1>1, <1>2
  <2> QED
    BY <1>1, <2>1
<1>4. ASSUME NEW j \in 1..n, j - 1 \in A PROVE j \in A
  <2>1. SUFFICES ASSUME j >= i, j # i PROVE b \in ToSet(f[j].blobs)
    BY <1>1
  <2>2. j - 1 >= i /\ j - 1 \in 0..n
    BY <1>1, <1>2, <2>1
  <2>3. b \in ToSet(f[j-1].blobs) /\ Sane(f[j-1]) /\ Item(doc.is[j])
          /\ f[j] = Files!ImportItem(f[j-1], doc.is[j])
    BY <1>1, <1>4, <2>2
  <2>4. CASE f[j-1].ended \/ f[j-1].stopped
    <3>1. f[j].blobs = f[j-1].blobs
      BY <2>3, <2>4, ItemIgnored
    <3> QED
      BY <2>3, <3>1
  <2>5. CASE ~f[j-1].ended /\ ~f[j-1].stopped
    <3>1. Does(f[j-1], doc.is[j], f[j])
      BY <2>3, <2>5, ItemDoes
    <3>2. ToSet(f[j-1].blobs) \subseteq ToSet(f[j].blobs)
      BY <3>1 DEF Does
    <3> QED
      BY <2>3, <3>2
  <2> QED
    BY <2>4, <2>5
<1>5. \A j \in 0..n : j \in A
  <2> HIDE DEF A
  <2> QED
    BY <1>1, <1>3, <1>4, UpToInduction
<1>6. n \in A
  <2> HIDE DEF A
  <2> QED
    BY <1>1, <1>5
<1>7. b \in ToSet(f[n].blobs) /\ Sane(f[n])
  BY <1>1, <1>2, <1>6
<1> QED
  BY <1>7, Flushed DEF n, Grown

\* So is one in a single item.
LEMMA ItemDelivers ==
  ASSUME NEW f, Imported(f), NEW b, NEW i \in 1..Len(ReachedItems), doc.is[i] = Files!BItem(b, b)
  PROVE  b \in ToSet(Files!Flush(f[Len(doc.is)]).blobs)
<1>1. Does(f[i-1], doc.is[i], f[i]) /\ i \in 0..Len(doc.is)
  BY RecordsReached, Reached, ImportSane
<1>2. doc.is[i].tag = "b" /\ doc.is[i].id = b /\ doc.is[i].content = b
  BY DEF Files!BItem
<1>3. b \in ToSet(f[i].blobs)
  BY <1>1, <1>2 DEF Does
<1> QED
  BY <1>1, <1>3, BlobsStay

\* As many as a sequence without repetition has.
LEMMA OnceCounted ==
  ASSUME NEW S, NEW s, Once(s, S)
  PROVE  /\ IsInjective(s) /\ IsFiniteSet(ToSet(s)) /\ Cardinality(ToSet(s)) = Len(s) /\ ToSet(s) \subseteq S
<1>1. Len(s) \in Nat /\ DOMAIN s = 1..Len(s) /\ s \in [1..Len(s) -> S]
  BY LenProperties DEF Once
<1>2. ToSet(s) = {s[i] : i \in 1..Len(s)}
  BY <1>1 DEF ToSet
<1>3. IsInjective(s)
  BY <1>1 DEF Once, IsInjective
<1>4. s \in Bijection(1..Len(s), ToSet(s))
  BY <1>1, <1>2, <1>3 DEF Bijection, Injection, Surjection
<1>5. IsFiniteSet(1..Len(s)) /\ Cardinality(1..Len(s)) = Len(s)
  <2>. DEFINE n == Len(s)
  <2> HIDE DEF n
  <2>1. n \in Int /\ 1 \in Int /\ n \in Nat
    BY <1>1 DEF n
  <2>2. IsFiniteSet(1..n) /\ Cardinality(1..n) = IF 1 > n THEN 0 ELSE n - 1 + 1
    BY <2>1, FS_Interval
  <2>3. IsFiniteSet(1..n) /\ Cardinality(1..n) = n
    BY <2>1, <2>2
  <2> QED
    BY <2>3 DEF n
<1>6. IsFiniteSet(ToSet(s)) /\ Cardinality(ToSet(s)) = Cardinality(1..Len(s))
  BY <1>4, <1>5, FS_Bijection DEF ExistsBijection
<1>7. ToSet(s) \subseteq S
  BY <1>1, <1>2
<1> QED
  BY <1>3, <1>5, <1>6, <1>7

\* At most as many as a sequence has.
LEMMA SeqCounted ==
  ASSUME NEW s, s \in Seq(ToSet(s))
  PROVE  Len(s) \in Nat /\ IsFiniteSet(ToSet(s)) /\ Cardinality(ToSet(s)) \in Nat
    /\ Cardinality(ToSet(s)) <= Len(s)
<1>1. Len(s) \in Nat /\ DOMAIN s = 1..Len(s) /\ s \in [1..Len(s) -> ToSet(s)]
  BY LenProperties
<1>2. \A x \in ToSet(s) : \E i \in 1..Len(s) : s[i] = x
  BY <1>1 DEF ToSet
<1>3. s \in Surjection(1..Len(s), ToSet(s))
  BY <1>1, <1>2 DEF Surjection
<1>. DEFINE n == Len(s)
            T == ToSet(s)
<1>4. n \in Nat /\ s \in Surjection(1..n, T)
  BY <1>1, <1>3
<1> HIDE DEF n, T
<1>5. IsFiniteSet(1..n) /\ Cardinality(1..n) = n
  <2>1. n \in Int /\ 1 \in Int
    BY <1>4
  <2>2. IsFiniteSet(1..n) /\ Cardinality(1..n) = IF 1 > n THEN 0 ELSE n - 1 + 1
    BY <2>1, FS_Interval
  <2> QED
    BY <1>4, <2>2
<1>6. IsFiniteSet(T) /\ Cardinality(T) <= Cardinality(1..n)
  BY <1>4, <1>5, FS_Surjection
<1>7. Cardinality(T) \in Nat
  BY <1>6, FS_CardinalityType
<1> QED
  BY <1>4, <1>5, <1>6, <1>7 DEF n, T

\* An import that counts as many as were exported, and reports nothing, has all of them.
LEMMA AllCounted ==
  ASSUME NEW s, Sane(s), doc.was \in Exports, s.ended, ~(s.reports > 0)
  PROVE  ToSet(s.records) = Rs /\ ToSet(s.blobs) = Bs
<1>1. doc.was.records \in Seq(Rs) /\ doc.was.blobs \in Seq(Bs)
  BY ExportsAssumption DEF IsSeq, Rs, Bs
<1>2. /\ Len(s.records) = Len(doc.was.records) /\ Len(s.blobs) = Cardinality(Bs)
      /\ Once(s.records, Rs) /\ Once(s.blobs, Bs)
  BY DEF Sane
<1>3. /\ Cardinality(ToSet(s.records)) = Len(s.records) /\ ToSet(s.records) \subseteq Rs
      /\ Cardinality(ToSet(s.blobs)) = Len(s.blobs) /\ ToSet(s.blobs) \subseteq Bs
  BY <1>2, OnceCounted
<1>4. /\ IsFiniteSet(Rs) /\ Cardinality(Rs) <= Len(doc.was.records) /\ Cardinality(Rs) \in Nat
      /\ Len(doc.was.records) \in Nat /\ IsFiniteSet(Bs)
  BY <1>1, SeqCounted DEF Rs, Bs
<1>5. ToSet(s.blobs) = Bs
  BY <1>2, <1>3, <1>4, FS_Subset
<1>6. ToSet(s.records) = Rs
  <2>1. Cardinality(ToSet(s.records)) <= Cardinality(Rs)
    BY <1>3, <1>4, FS_Subset
  <2>2. Cardinality(ToSet(s.records)) = Cardinality(Rs)
    BY <1>2, <1>3, <1>4, <2>1
  <2> QED
    BY <1>3, <1>4, <2>2, FS_Subset
<1> QED
  BY <1>5, <1>6

\* The property, of any bundle that keeps what the invariant says.
LEMMA Salvaged ==
  ASSUME doc.was \in Exports, Kept(doc.is, doc.was), doc.of = "bundle"
  PROVE  SalvageIsComplete
<1>. DEFINE n == Len(doc.is)
            items == ReachedItems
            c == Len(items)
<1>1. n \in Nat
  BY LenProperties DEF Kept
<1>2. PICK f : Round(doc.is, f) /\ Files!Import(doc.is) = Out(Files!Flush(f[n]))
  BY <1>1, ImportRounds
<1>3. Imported(f)
  BY <1>2 DEF Imported
<1>. DEFINE s == Files!Flush(f[n])
            out == Files!Import(doc.is)
<1>4. out.records = s.records /\ out.blobs = s.blobs /\ out.reports = s.reports /\ out.truncated = ~s.ended
  BY <1>2 DEF Out
<1>5. Sane(f[n]) /\ Sane(s) /\ Grown(f[n], s)
  <2>1. Sane(f[n])
    BY <1>1, <1>3, ImportSane
  <2> QED
    BY <2>1, Flushed
<1>6. c \in 0..n /\ DOMAIN items = 1..c /\ \A i \in 1..c : items[i] = doc.is[i]
  BY <1>3, Reached
<1>7. ToSet(out.records) = {it.record : it \in {x \in ToSet(items) : x.tag = "r"}} \cap Valid
  <2>1. RecordsIn(c) = {it.record : it \in {x \in ToSet(items) : x.tag = "r"}}
    <3> HIDE DEF items
    <3>1. ToSet(items) = {doc.is[i] : i \in 1..c}
      BY <1>6 DEF ToSet
    <3> HIDE DEF c
    <3> QED
      BY <3>1 DEF RecordsIn
  <2>2. ToSet(f[n].records) = RecordsIn(c) \cap Valid
    BY <1>3, RecordsReached
  <2>3. s.records = f[n].records
    BY <1>5 DEF Grown
  <2> QED
    BY <1>4, <2>1, <2>2, <2>3
<1>8. ASSUME NEW b \in Bs,
             IF Len(b) > Threshold THEN \E i \in DOMAIN items : WholeRun(items, i, b)
             ELSE Files!BItem(b, b) \in ToSet(items)
      PROVE  b \in ToSet(out.blobs)
  <2>1. CASE Len(b) > Threshold
    <3>1. PICK i \in 1..c : WholeRun(items, i, b)
      BY <1>6, <1>8, <2>1
    <3> QED
      BY <1>3, <1>4, <2>1, <3>1, RunDelivers
  <2>2. CASE ~(Len(b) > Threshold)
    <3>1. PICK i \in 1..c : doc.is[i] = Files!BItem(b, b)
      BY <1>6, <1>8, <2>2 DEF ToSet
    <3> QED
      BY <1>3, <1>4, <3>1, ItemDelivers
  <2> QED
    BY <2>1, <2>2
<1>9. /\ IsInjective(out.records) /\ IsInjective(out.blobs) /\ ToSet(out.blobs) \subseteq Bs
  <2> HIDE DEF s, out
  <2>1. Once(s.records, Rs) /\ Once(s.blobs, Bs)
    BY <1>5 DEF Sane
  <2> QED
    BY <1>4, <2>1, OnceCounted
<1>10. ToSet(out.records) # Rs \/ ToSet(out.blobs) # Bs => out.reports > 0 \/ out.truncated
  <2> HIDE DEF s, out
  <2> QED
    BY <1>4, <1>5, AllCounted
<1> HIDE DEF out
<1> QED
  BY <1>7, <1>8, <1>9, <1>10 DEF SalvageIsComplete, out, Rs, Bs

\* Import, of an export that is spoiled, cut and shortened in any way: every valid record
\* and every whole blob reached is handed on, once, nothing else is, and what is missing is
\* reported or truncated.
THEOREM SalvageComplete == DocSpec => []SalvageIsComplete
<1>1. BundleInv => SalvageIsComplete
  BY Salvaged DEF BundleInv, SalvageIsComplete
<1> QED
  BY <1>1, BundleInvariant, PTL

-----------------------------------------------------------------------------
(* Feeds *)

\* Each entry has its place, and names the one before.
Chained(s) ==
  /\ \E S : s \in Seq(S)
  /\ Len(s) >= 1 /\ s[1].prev = Pub!NotDone
  /\ \A i \in 1..Len(s) : s[i].seq = i - 1
  /\ \A i \in 1..Len(s) : i # 1 => s[i].prev = Pub!Done(Pub!EntryId(s[i-1]))

\* The number and the predecessor of an entry.
LEMMA EntryFields ==
  \A n, a, p, t : Pub!FeedEntry(n, a, p, t).seq = n /\ Pub!FeedEntry(n, a, p, t).prev = p
BY DEF Pub!FeedEntry

\* feed_append numbers the entry and names its predecessor.
LEMMA ChainGrows ==
  ASSUME NEW s, Chained(s), NEW a
  PROVE  Chained(Append(s, Pub!FeedAppend(Last(s), a, Len(s))))
<1>1. PICK S : s \in Seq(S)
  BY DEF Chained
<1>. DEFINE n == Len(s)
            e == Pub!FeedAppend(Last(s), a, n)
            t == Append(s, e)
<1>2. s \in Seq(S \cup {e})
  BY <1>1, SeqMonotonic
<1>3. /\ n \in Nat /\ n >= 1 /\ Last(s) = s[n] /\ s[n].seq = n - 1
  BY <1>1, LenProperties DEF Chained, Last
<1>4. e.seq = n /\ e.prev = Pub!Done(Pub!EntryId(s[n]))
  <2>1. e = Pub!FeedEntry(Last(s).seq + 1, Pub!AnnounceId(a), Pub!Done(Pub!EntryId(Last(s))), n)
    BY DEF Pub!FeedAppend
  <2>2. Last(s).seq + 1 = n
    BY <1>3
  <2> HIDE DEF e, n
  <2> QED
    BY <1>3, <2>1, <2>2, EntryFields
<1> HIDE DEF e
<1>5. t \in Seq(S \cup {e}) /\ Len(t) = n + 1 /\ t[n+1] = e /\ \A i \in 1..n : t[i] = s[i]
  BY <1>2, AppendProperties
<1>6. /\ s[1].prev = Pub!NotDone /\ \A i \in 1..n : s[i].seq = i - 1
      /\ \A i \in 1..n : i # 1 => s[i].prev = Pub!Done(Pub!EntryId(s[i-1]))
  BY DEF Chained
<1> HIDE DEF n, t
<1>7. \A i \in 1..(n + 1) : i = n + 1 \/ i \in 1..n
  BY <1>3
<1>8. \A i \in 1..(n + 1) : t[i].seq = i - 1
  BY <1>3, <1>4, <1>5, <1>6, <1>7
<1>9. ASSUME NEW i \in 1..(n + 1), i # 1 PROVE t[i].prev = Pub!Done(Pub!EntryId(t[i-1]))
  <2>1. i - 1 \in 1..n /\ t[i-1] = s[i-1]
    BY <1>3, <1>5, <1>9
  <2> QED
    BY <1>3, <1>4, <1>5, <1>6, <1>7, <1>9, <2>1
<1>10. Len(t) >= 1 /\ t[1].prev = Pub!NotDone
  BY <1>3, <1>5, <1>6
<1> QED
  BY <1>5, <1>8, <1>9, <1>10 DEF Chained, t, n, e

\* The invariant of feeds.
FeedInv == doc.of = "feed" => Chained(doc.entries)

\* Whatever is announced, the entries of a feed are a chain.
LEMMA FeedInvariant == DocSpec => []FeedInv
<1>1. DocInit => FeedInv
  <2>1. SUFFICES ASSUME DocInit, doc.of = "feed" PROVE Chained(doc.entries)
    BY DEF FeedInv
  <2>2. PICK a \in Announces : doc = [of |-> "feed", entries |-> <<Pub!FeedGenesis(a, 0)>>]
    BY <2>1 DEF DocInit, BundleDoc, KindDoc
  <2>. DEFINE e == Pub!FeedGenesis(a, 0)
  <2>3. e.seq = 0 /\ e.prev = Pub!NotDone
    BY EntryFields DEF Pub!FeedGenesis
  <2>4. doc.entries = <<e>>
    BY <2>2
  <2> HIDE DEF e
  <2>5. <<e>> \in Seq({e}) /\ Len(<<e>>) = 1 /\ <<e>>[1] = e
    OBVIOUS
  <2>. DEFINE s == <<e>>
  <2>6. s \in Seq({e}) /\ Len(s) = 1 /\ s[1] = e
    BY <2>5
  <2> HIDE DEF s
  <2>7. \A i \in 1..Len(s) : i = 1
    BY <2>6
  <2>8. s[1].seq = 1 - 1 /\ s[1].prev = Pub!NotDone
    BY <2>3, <2>6
  <2>9. Chained(s)
    BY <2>6, <2>7, <2>8 DEF Chained
  <2> QED
    BY <2>4, <2>9 DEF s
<1>2. Shaped /\ FeedInv /\ [DocNext]_doc => FeedInv'
  <2>1. SUFFICES ASSUME Shaped, FeedInv, [DocNext]_doc, doc'.of = "feed" PROVE Chained(doc'.entries)
    BY DEF FeedInv
  <2>2. CASE UNCHANGED doc
    BY <2>1, <2>2 DEF FeedInv
  <2>3. CASE ~UNCHANGED doc
    <3>1. doc.of = "feed" /\ AppendEntry /\ doc = [of |-> "feed", entries |-> doc.entries]
      BY <2>1, <2>3, StepsKeepShape DEF Shaped, Shaped, BundleDoc, KindDoc
    <3>2. PICK a \in Announces :
            doc' = [doc EXCEPT !.entries = Append(doc.entries, Pub!FeedAppend(Last(doc.entries), a, Len(doc.entries)))]
      BY <3>1 DEF AppendEntry
    <3>3. doc'.entries = Append(doc.entries, Pub!FeedAppend(Last(doc.entries), a, Len(doc.entries)))
      <4>. DEFINE more == Append(doc.entries, Pub!FeedAppend(Last(doc.entries), a, Len(doc.entries)))
      <4> HIDE DEF more
      <4>1. doc' = [doc EXCEPT !.entries = more]
        BY <3>2 DEF more
      <4>2. doc'.entries = more
        BY <3>1, <4>1
      <4> QED
        BY <4>2 DEF more
    <3> QED
      BY <2>1, <3>1, <3>3, ChainGrows DEF FeedInv
  <2> QED
    BY <2>2, <2>3
<1> QED
  BY <1>1, <1>2, ShapeInvariant, PTL DEF DocSpec

\* A result is one or an error.
LEMMA DoneOrNot == \A v : Pub!Done(v) # Pub!NotDone /\ Pub!Done(v).ok /\ ~Pub!NotDone.ok /\ Pub!Done(v).is = v
BY DEF Pub!Done, Pub!NotDone

\* A feed from the genesis on verifies, and no other part of one.
LEMMA FeedParts ==
  ASSUME NEW s, Chained(s), NEW i \in 1..Len(s)
  PROVE  /\ Pub!VerifyFeedChainToHead(SubSeq(s, 1, i), Pub!BuildFeedHead("author", Last(s), 0)) <=> i = Len(s)
         /\ Pub!VerifyFeedChain(SubSeq(s, i, Len(s))) <=> i = 1
<1>1. PICK S : s \in Seq(S)
  BY DEF Chained
<1>. DEFINE n == Len(s)
            p == SubSeq(s, 1, i)
            q == SubSeq(s, i, n)
            head == Pub!BuildFeedHead("author", Last(s), 0)
<1>2. n \in Nat /\ i \in 1..n /\ DOMAIN s = 1..n /\ Last(s) = s[n] /\ \A j \in 1..n : s[j] \in S
  BY <1>1, LenProperties, ElementOfSeq DEF Last
<1>3. /\ s[1].prev = Pub!NotDone /\ \A j \in 1..n : s[j].seq = j - 1
      /\ \A j \in 1..n : j # 1 => s[j].prev = Pub!Done(Pub!EntryId(s[j-1]))
  BY DEF Chained
<1> HIDE DEF n
<1>4. /\ p \in Seq(S) /\ Len(p) = i /\ DOMAIN p = 1..i /\ (\A j \in 1..i : p[j] = s[j])
  <2>1. 1 <= i /\ \A j \in 1..i : j \in 1..n
    BY <1>2
  <2>2. p \in Seq(S) /\ Len(p) = IF 1 <= i THEN i - 1 + 1 ELSE 0
    BY <1>2, <2>1, SubSeqProperties
  <2>3. \A j \in 1..(i - 1 + 1) : p[j] = s[1 + j - 1]
    BY <1>2, <2>1, SubSeqProperties
  <2> HIDE DEF p
  <2>4. Len(p) = i /\ \A j \in 1..i : p[j] = s[j]
    BY <1>2, <2>1, <2>2, <2>3
  <2> QED
    BY <2>2, <2>4, LenProperties
<1>5. /\ q \in Seq(S) /\ Len(q) = n - i + 1 /\ DOMAIN q = 1..(n - i + 1) /\ q[1] = s[i]
  <2>1. i <= n /\ \A j \in i..n : j \in 1..n
    BY <1>2
  <2>2. q \in Seq(S) /\ Len(q) = IF i <= n THEN n - i + 1 ELSE 0
    BY <1>2, <2>1, SubSeqProperties
  <2>3. \A j \in 1..(n - i + 1) : q[j] = s[i + j - 1]
    BY <1>2, <2>1, SubSeqProperties
  <2> HIDE DEF q
  <2>4. Len(q) = n - i + 1 /\ q[1] = s[i]
    <3>1. 1 \in 1..(n - i + 1) /\ i + 1 - 1 = i
      BY <1>2
    <3> QED
      BY <2>1, <2>2, <2>3, <3>1
  <2> QED
    BY <2>2, <2>4, LenProperties
<1>6. head.by = "author" /\ head.is.publisher = "author" /\ head.is.seq = s[n].seq
        /\ head.is.tip = Pub!EntryId(s[n])
  BY <1>2 DEF Pub!BuildFeedHead, Pub!Signed
<1> HIDE DEF p, q, head
<1>7. Pub!VerifyFeedChain(p)
  <2>1. p # <<>> /\ p[1].prev = Pub!NotDone
    BY <1>2, <1>3, <1>4
  <2>2. \A j \in 1..i : p[j].seq = j - 1
    BY <1>2, <1>3, <1>4
  <2>3. ASSUME NEW j \in 1..i, j # 1 PROVE p[j].prev = Pub!Done(Pub!EntryId(p[j-1]))
    <3>1. j \in 1..n /\ j - 1 \in 1..i
      BY <1>2, <2>3
    <3> QED
      BY <1>3, <1>4, <2>3, <3>1
  <2> QED
    BY <1>4, <2>1, <2>2, <2>3 DEF Pub!VerifyFeedChain
<1>8. Pub!VerifyFeedChainToHead(p, head) <=> i = n
  <2>1. Pub!Last(p) = s[i]
    <3>1. Pub!Last(p) = p[i]
      BY <1>4 DEF Pub!Last
    <3>2. i \in 1..i
      BY <1>2
    <3> QED
      BY <1>4, <3>1, <3>2
  <2>2. s[i].seq = i - 1 /\ s[n].seq = n - 1
    BY <1>2, <1>3
  <2>3. s[n].seq = s[i].seq <=> i = n
    BY <1>2, <2>2
  <2> QED
    BY <1>6, <1>7, <2>1, <2>3 DEF Pub!VerifyFeedChainToHead
<1>9. Pub!VerifyFeedChain(q) <=> i = 1
  <2>1. CASE i = 1
    <3>1. q = s
      BY <1>1, <2>1, SubSeqFull DEF q, n
    <3>2. s # <<>>
      BY <1>2, <1>5, <3>1
    <3>3. \A j \in DOMAIN s \ {1} : s[j].prev = Pub!Done(Pub!EntryId(s[j - 1]))
      BY <1>2, <1>3
    <3> QED
      BY <1>2, <1>3, <2>1, <3>1, <3>2, <3>3 DEF Pub!VerifyFeedChain
  <2>2. CASE i # 1
    <3>1. q[1].prev # Pub!NotDone
      BY <1>2, <1>3, <1>5, <2>2, DoneOrNot
    <3> QED
      BY <2>2, <3>1 DEF Pub!VerifyFeedChain
  <2> QED
    BY <2>1, <2>2
<1> QED
  BY <1>8, <1>9 DEF p, q, head, n

-----------------------------------------------------------------------------
(* The levels of a tree *)

\* A number of pairs, rounded up.
LEMMA Halved ==
  ASSUME NEW m \in Nat
  PROVE  LET h == Pub!CeilDiv(m, 2) IN h \in Nat /\ m <= 2 * h /\ 2 * h <= m + 1
<1>1. Pub!CeilDiv(m, 2) = (m + 2 - 1) \div 2
  BY DEF Pub!CeilDiv
<1> QED
  BY <1>1

\* A level has a node for each pair of the one below; the last one may be alone.
LEMMA Reduced ==
  ASSUME NEW level, Len(level) \in Nat
  PROVE  LET next == Pub!ReduceLevel(level)
             m == Len(level)
         IN /\ Len(next) = Pub!CeilDiv(m, 2)
            /\ \A i \in 1..Pub!CeilDiv(m, 2) :
                 next[i] = IF 2 * i <= m THEN Pub!Node(level[2 * i - 1], level[2 * i]) ELSE level[2 * i - 1]
<1>. DEFINE next == Pub!ReduceLevel(level)
            h == Pub!CeilDiv(Len(level), 2)
            S == {next[i] : i \in 1..h}
<1>1. next = [i \in 1..h |-> IF 2 * i <= Len(level) THEN Pub!Node(level[2 * i - 1], level[2 * i])
        ELSE level[2 * i - 1]]
  BY DEF Pub!ReduceLevel
<1>2. next \in [1..h -> S]
  BY <1>1
<1>3. h \in Nat
  BY Halved
<1>4. Len(next) = h
  <2> HIDE DEF next, h, S
  <2> QED
    BY <1>2, <1>3
<1> QED
  BY <1>1, <1>4

\* f has the levels up to the n-th.
LevelRounds(f, leaves, n) == f = [k \in 0..n |-> IF k = 0 THEN leaves ELSE Pub!ReduceLevel(f[k-1])]

\* The loop of Levels exists.
LEMMA LevelLoop ==
  ASSUME NEW leaves, NEW n \in Nat
  PROVE  \E f : LevelRounds(f, leaves, n)
<1>. DEFINE A == {k \in Nat : \E f : f = [i \in 0..k |-> IF i = 0 THEN leaves ELSE Pub!ReduceLevel(f[i-1])]}
<1>1. 0 \in A
  <2>1. [i \in 0..0 |-> leaves] = [i \in 0..0 |-> IF i = 0 THEN leaves
          ELSE Pub!ReduceLevel([j \in 0..0 |-> leaves][i-1])]
    OBVIOUS
  <2> QED
    BY <2>1
<1>2. ASSUME NEW k \in A PROVE k + 1 \in A
  <2>1. PICK f : f = [i \in 0..k |-> IF i = 0 THEN leaves ELSE Pub!ReduceLevel(f[i-1])]
    BY <1>2
  <2>. DEFINE h == [i \in 0..k+1 |-> IF i = k + 1 THEN Pub!ReduceLevel(f[k]) ELSE f[i]]
  <2>2. ASSUME NEW i \in 0..k+1
        PROVE  h[i] = IF i = 0 THEN leaves ELSE Pub!ReduceLevel(h[i-1])
    <3>1. CASE i = k + 1
      BY <3>1
    <3>2. CASE i # k + 1
      <4>1. i \in 0..k
        BY <3>2
      <4>2. f[i] = IF i = 0 THEN leaves ELSE Pub!ReduceLevel(f[i-1])
        BY <2>1, <4>1
      <4>3. i # 0 => h[i-1] = f[i-1]
        BY <4>1
      <4> QED
        BY <4>1, <4>2, <4>3
    <3> QED
      BY <3>1, <3>2
  <2>3. h = [i \in 0..k+1 |-> IF i = 0 THEN leaves ELSE Pub!ReduceLevel(h[i-1])]
    BY <2>2
  <2> HIDE DEF h
  <2> QED
    BY <2>3
<1>3. A = Nat
  <2> HIDE DEF A
  <2> A \in SUBSET Nat
    BY DEF A
  <2> QED
    BY <1>1, <1>2, SetInduction
<1> QED
  BY <1>3 DEF LevelRounds

\* What the levels are, from the leaves up to the one node of the last.
LevelsOf(f, leaves) ==
  LET n == Len(leaves)
      Size(k) == Len(f[k])
  IN /\ f[0] = leaves
     /\ \A k \in 0..n : Size(k) \in Nat /\ Size(k) >= 1
     /\ \A k \in 1..n :
          /\ Size(k) = Pub!CeilDiv(Size(k-1), 2)
          /\ \A i \in 1..Size(k) : f[k][i] = IF 2 * i <= Size(k-1) THEN Pub!Node(f[k-1][2 * i - 1], f[k-1][2 * i])
                                             ELSE f[k-1][2 * i - 1]
     /\ Size(n) = 1

\* Levels builds them.
LEMMA LevelsHold ==
  ASSUME NEW leaves, Len(leaves) \in Nat, Len(leaves) >= 1
  PROVE  LevelsOf(Pub!Levels(leaves), leaves)
<1>. DEFINE n == Len(leaves)
            f == Pub!Levels(leaves)
            g == CHOOSE h : h = [k \in 0..n |-> IF k = 0 THEN leaves ELSE Pub!ReduceLevel(h[k-1])]
<1>1. n \in Nat /\ n >= 1
  OBVIOUS
<1>2. f = g
  BY DEF Pub!Levels
<1>3. f = [k \in 0..n |-> IF k = 0 THEN leaves ELSE Pub!ReduceLevel(f[k-1])]
  <2> HIDE DEF n
  <2>1. \E h : LevelRounds(h, leaves, n)
    BY <1>1, LevelLoop
  <2>2. g = CHOOSE h : LevelRounds(h, leaves, n)
    BY DEF LevelRounds
  <2> HIDE DEF g
  <2>3. LevelRounds(g, leaves, n)
    BY <2>1, <2>2
  <2> HIDE DEF f
  <2> QED
    BY <1>2, <2>3 DEF LevelRounds
<1> HIDE DEF f, g
<1>. DEFINE A == {k \in 0..n : Len(f[k]) \in Nat /\ Len(f[k]) >= 1 /\ (Len(f[k]) = 1 \/ Len(f[k]) + k <= n)}
<1>4. f[0] = leaves /\ \A k \in 1..n : f[k] = Pub!ReduceLevel(f[k-1])
  <2> HIDE DEF n
  <2>1. 0 \in 0..n /\ \A k \in 1..n : k \in 0..n /\ k # 0
    BY <1>1
  <2> QED
    BY <1>3, <2>1
<1>5. 0 \in A
  BY <1>1, <1>4
<1> HIDE DEF n
<1>6. ASSUME NEW k \in 1..n, k - 1 \in A PROVE k \in A
  <2>. DEFINE m == Len(f[k-1])
              h == Len(f[k])
  <2>1. m \in Nat /\ m >= 1 /\ (m = 1 \/ m + (k - 1) <= n) /\ h = Pub!CeilDiv(m, 2)
    BY <1>4, <1>6, Reduced
  <2> HIDE DEF m, h
  <2>2. h \in Nat /\ m <= 2 * h /\ 2 * h <= m + 1
    BY <2>1, Halved
  <2>3. h >= 1 /\ (h = 1 \/ h + k <= n) /\ k \in 0..n
    BY <1>1, <2>1, <2>2
  <2> QED
    BY <2>2, <2>3 DEF h
<1>7. \A k \in 0..n : k \in A
  <2> HIDE DEF A
  <2> QED
    BY <1>1, <1>5, <1>6, UpToInduction
<1>8. \A k \in 0..n : Len(f[k]) \in Nat /\ Len(f[k]) >= 1
  BY <1>7
<1>9. Len(f[n]) = 1
  <2>1. n \in A
    <3> HIDE DEF A
    <3> QED
      BY <1>1, <1>7
  <2> QED
    BY <1>1, <2>1
<1>10. ASSUME NEW k \in 1..n
       PROVE  /\ Len(f[k]) = Pub!CeilDiv(Len(f[k-1]), 2)
              /\ \A i \in 1..Len(f[k]) : f[k][i] =
                   IF 2 * i <= Len(f[k-1]) THEN Pub!Node(f[k-1][2 * i - 1], f[k-1][2 * i])
                                                   ELSE f[k-1][2 * i - 1]
  <2>1. Len(f[k-1]) \in Nat /\ f[k] = Pub!ReduceLevel(f[k-1])
    BY <1>1, <1>4, <1>8
  <2> QED
    BY <2>1, Reduced
<1> QED
  BY <1>4, <1>8, <1>9, <1>10 DEF LevelsOf, f, n

-----------------------------------------------------------------------------
(* A tree that is split at the largest power of two has the same top *)

\* One round of the loop of SplitTop: the tops of twice the width, from each leaf on.
SplitStep(half, n) ==
  [width |-> 2 * half.width,
   top |-> [i \in 0..n-1 |->
              IF i + half.width >= n THEN half.top[i]
              ELSE Pub!Node(half.top[i], half.top[i + half.width])]]
\* Before the first round each leaf is its own top.
SplitBase(leaves) == [width |-> 1, top |-> [i \in 0..Len(leaves)-1 |-> leaves[i+1]]]

\* f has the tops after each round.
SplitRounds(f, b, l, n) == f = [k \in 0..n |-> IF k = 0 THEN b ELSE SplitStep(f[k-1], l)]

\* The loop of SplitTop exists.
LEMMA SplitLoop ==
  ASSUME NEW b, NEW l, NEW n \in Nat
  PROVE  \E f : SplitRounds(f, b, l, n)
<1>. DEFINE A == {k \in Nat : \E f : f = [i \in 0..k |-> IF i = 0 THEN b ELSE SplitStep(f[i-1], l)]}
<1>1. 0 \in A
  <2>1. [i \in 0..0 |-> b] = [i \in 0..0 |-> IF i = 0 THEN b ELSE SplitStep([j \in 0..0 |-> b][i-1], l)]
    OBVIOUS
  <2> QED
    BY <2>1
<1>2. ASSUME NEW k \in A PROVE k + 1 \in A
  <2>1. PICK f : f = [i \in 0..k |-> IF i = 0 THEN b ELSE SplitStep(f[i-1], l)]
    BY <1>2
  <2>. DEFINE h == [i \in 0..k+1 |-> IF i = k + 1 THEN SplitStep(f[k], l) ELSE f[i]]
  <2>2. ASSUME NEW i \in 0..k+1
        PROVE  h[i] = IF i = 0 THEN b ELSE SplitStep(h[i-1], l)
    <3>1. CASE i = k + 1
      BY <3>1
    <3>2. CASE i # k + 1
      <4>1. i \in 0..k
        BY <3>2
      <4>2. f[i] = IF i = 0 THEN b ELSE SplitStep(f[i-1], l)
        BY <2>1, <4>1
      <4>3. i # 0 => h[i-1] = f[i-1]
        BY <4>1
      <4> QED
        BY <4>1, <4>2, <4>3
    <3> QED
      BY <3>1, <3>2
  <2>3. h = [i \in 0..k+1 |-> IF i = 0 THEN b ELSE SplitStep(h[i-1], l)]
    BY <2>2
  <2> HIDE DEF h
  <2> QED
    BY <2>3
<1>3. A = Nat
  <2> HIDE DEF A
  <2> A \in SUBSET Nat
    BY DEF A
  <2> QED
    BY <1>1, <1>2, SetInduction
<1> QED
  BY <1>3 DEF SplitRounds

\* SplitTop is the last of its rounds.
LEMMA SplitHolds ==
  ASSUME NEW leaves, Len(leaves) \in Nat
  PROVE  LET n == Len(leaves) IN
         \E f : /\ Pub!SplitTop(leaves) = f[n].top[0] /\ f[0] = SplitBase(leaves)
                /\ \A k \in 1..n : f[k] = SplitStep(f[k-1], n)
<1>. DEFINE n == Len(leaves)
            F(h) == h = [k \in 0..n |-> IF k = 0 THEN SplitBase(leaves) ELSE SplitStep(h[k-1], n)]
            g == CHOOSE h : h = [k \in 0..n |->
                   IF k = 0 THEN [width |-> 1, top |-> [i \in 0..n-1 |-> leaves[i+1]]]
                   ELSE [width |-> 2 * h[k-1].width,
                         top |-> [i \in 0..n-1 |->
                                    IF i + h[k-1].width >= n THEN h[k-1].top[i]
                                    ELSE Pub!Node(h[k-1].top[i], h[k-1].top[i + h[k-1].width])]]]
<1>1. Pub!SplitTop(leaves) = g[n].top[0]
  BY DEF Pub!SplitTop
<1>2. g = CHOOSE h : F(h)
  BY DEF SplitBase, SplitStep
<1> HIDE DEF g
<1>3. F(g)
  <2>1. \E h : F(h)
    <3>1. n \in Nat
      OBVIOUS
    <3> HIDE DEF n
    <3>2. \E h : SplitRounds(h, SplitBase(leaves), n, n)
      BY <3>1, SplitLoop
    <3> QED
      BY <3>2 DEF SplitRounds
  <2> HIDE DEF F
  <2> QED
    BY <1>2, <2>1
<1>4. g[0] = SplitBase(leaves) /\ \A k \in 1..n : g[k] = SplitStep(g[k-1], n)
  <2>1. 0 \in 0..n /\ \A k \in 1..n : k \in 0..n /\ k # 0
    OBVIOUS
  <2> HIDE DEF n
  <2> QED
    BY <1>3, <2>1
<1> QED
  BY <1>1, <1>4

\* Products are ordered as their factors.
LEMMA Times ==
  ASSUME NEW a \in Nat, NEW b \in Nat, NEW w \in Nat, a <= b
  PROVE  a * w \in Nat /\ b * w \in Nat /\ a * w <= b * w
<1>. DEFINE d == b - a
<1>1. d \in Nat /\ b = a + d
  OBVIOUS
<1> HIDE DEF d
<1>2. d * w \in Nat /\ a * w \in Nat /\ (a + d) * w = a * w + d * w
  BY <1>1
<1> QED
  BY <1>1, <1>2

\* A factor two may be moved.
LEMMA Twice ==
  ASSUME NEW p \in Nat, NEW v \in Nat
  PROVE  p * (2 * v) = (2 * p) * v
OBVIOUS

\* Both ways of building a tree give the same.
LEMMA SameTop ==
  ASSUME NEW leaves, Len(leaves) \in Nat, Len(leaves) >= 1
  PROVE  Pub!SplitTop(leaves) = Pub!Top(leaves)
<1>. DEFINE n == Len(leaves)
            level == Pub!Levels(leaves)
            Size(k) == Len(level[k])
<1>1. PICK f : /\ Pub!SplitTop(leaves) = f[n].top[0] /\ f[0] = SplitBase(leaves)
               /\ \A k \in 1..n : f[k] = SplitStep(f[k-1], n)
  BY SplitHolds
<1>2. Pub!Top(leaves) = level[n][1]
  BY DEF Pub!Top
<1>3. n \in Nat /\ n >= 1
  OBVIOUS
<1> HIDE DEF level
<1>4. /\ level[0] = leaves
      /\ \A k \in 0..n : Size(k) \in Nat /\ Size(k) >= 1
      /\ \A k \in 1..n :
           /\ Size(k) = Pub!CeilDiv(Size(k-1), 2)
           /\ \A i \in 1..Size(k) : level[k][i] =
                IF 2 * i <= Size(k-1) THEN Pub!Node(level[k-1][2 * i - 1], level[k-1][2 * i])
                  ELSE level[k-1][2 * i - 1]
      /\ Size(n) = 1
  BY LevelsHold DEF LevelsOf, level
  \* Where node c of level k begins: the leaves under it are those from there on.
<1>. DEFINE w(k) == f[k].width
            Same(k) == /\ w(k) \in Nat /\ w(k) >= 1 /\ (Size(k) - 1) * w(k) < n /\ n <= Size(k) * w(k)
                       /\ \A c \in 0..Size(k) - 1 : level[k][c + 1] = f[k].top[c * w(k)]
            A == {k \in 0..n : Same(k)}
<1>5. 0 \in A
  <2>1. f[0].width = 1 /\ f[0].top = [i \in 0..n-1 |-> leaves[i+1]]
    BY <1>1 DEF SplitBase
  <2>2. Size(0) = n
    BY <1>4
  <2> HIDE DEF n, Size
  <2>3. (n - 1) * 1 < n /\ n <= n * 1 /\ 0 \in 0..n
    BY <1>3
  <2>4. \A c \in 0..n - 1 : level[0][c + 1] = f[0].top[c * 1]
    <3>1. \A c \in 0..n-1 : c * 1 = c
      BY <1>3
    <3> QED
      BY <1>4, <2>1, <3>1
  <2>5. w(0) = 1 /\ w(0) \in Nat /\ w(0) >= 1 /\ 0 \in 0..n
    BY <1>3, <2>1
  <2> HIDE DEF w
  <2>6. (Size(0) - 1) * w(0) < n /\ n <= Size(0) * w(0)
        /\ \A c \in 0..Size(0) - 1 : level[0][c + 1] = f[0].top[c * w(0)]
    BY <2>2, <2>3, <2>4, <2>5
  <2> QED
    BY <2>5, <2>6
<1> HIDE DEF n, Size
<1>6. ASSUME NEW k \in 1..n, k - 1 \in A PROVE k \in A
  <2>. DEFINE l == Size(k-1)
              m == Size(k)
              v == w(k-1)
  <2>1. /\ v \in Nat /\ v >= 1 /\ (l - 1) * v < n /\ n <= l * v
        /\ \A c \in 0..l - 1 : level[k-1][c + 1] = f[k-1].top[c * v]
    BY <1>6
  <2>2. l \in Nat /\ l >= 1 /\ m = Pub!CeilDiv(l, 2) /\ k \in 0..n /\ m >= 1
    BY <1>3, <1>4
  <2>3. m \in Nat /\ l <= 2 * m /\ 2 * m <= l + 1
    BY <2>2, Halved
  <2>4. f[k] = SplitStep(f[k-1], n)
    BY <1>1
  <2>5. /\ w(k) = 2 * v
        /\ \A i \in 0..n-1 : f[k].top[i] = IF i + v >= n THEN f[k-1].top[i]
                                           ELSE Pub!Node(f[k-1].top[i], f[k-1].top[i + v])
    BY <2>4 DEF SplitStep
  <2>6. \A i \in 1..m : level[k][i] =
          IF 2 * i <= l THEN Pub!Node(level[k-1][2 * i - 1], level[k-1][2 * i]) ELSE level[k-1][2 * i - 1]
    BY <1>4
  <2> HIDE DEF l, m, v
  <2>7. (m - 1) * (2 * v) < n /\ n <= m * (2 * v)
    <3>1. (m - 1) * (2 * v) = (2 * m - 2) * v /\ m * (2 * v) = (2 * m) * v
      <4>. DEFINE p == m - 1
      <4>1. p \in Nat /\ 2 * p = 2 * m - 2
        BY <2>2, <2>3
      <4> HIDE DEF p
      <4>2. p * (2 * v) = (2 * p) * v /\ m * (2 * v) = (2 * m) * v
        BY <2>1, <2>3, <4>1, Twice
      <4> QED
        BY <4>1, <4>2 DEF p
    <3>2. (2 * m - 2) * v <= (l - 1) * v /\ l * v <= (2 * m) * v
          /\ {(2 * m - 2) * v, (l - 1) * v, l * v, (2 * m) * v} \subseteq Nat
      <4>1. 2 * m - 2 \in Nat /\ l - 1 \in Nat /\ 2 * m - 2 <= l - 1 /\ 2 * m \in Nat
        BY <2>2, <2>3
      <4>. DEFINE x == 2 * m - 2
                  y == l - 1
                  z == 2 * m
      <4> HIDE DEF x, y, z
      <4>2. x * v \in Nat /\ y * v \in Nat /\ x * v <= y * v
        BY <2>1, <4>1, Times DEF x, y
      <4>3. l * v \in Nat /\ z * v \in Nat /\ l * v <= z * v
        BY <2>1, <2>2, <2>3, <4>1, Times DEF z
      <4> QED
        BY <4>2, <4>3 DEF x, y, z
    <3>. DEFINE X == (2 * m - 2) * v
                Y == (l - 1) * v
                Z == (2 * m) * v
                V == l * v
    <3>3. X <= Y /\ Y < n /\ n <= V /\ V <= Z /\ {X, Y, V, Z} \subseteq Nat
      BY <2>1, <3>2
    <3> HIDE DEF X, Y, Z, V
    <3>4. X < n /\ n <= Z
      BY <1>3, <3>3
    <3> QED
      BY <3>1, <3>4 DEF X, Z
  <2>8. ASSUME NEW c \in 0..m - 1 PROVE level[k][c + 1] = f[k].top[c * (2 * v)]
    <3>. DEFINE a == 2 * c
                i == a * v
    <3>1. a \in 0..l - 1 /\ c + 1 \in 1..m /\ 2 * (c + 1) = a + 2 /\ 2 * (c + 1) - 1 = a + 1 /\ a \in Nat
      BY <2>2, <2>3
    <3>2. c * (2 * v) = i
      BY <2>1, <2>3
    <3>3. level[k][c + 1] = IF a + 2 <= l THEN Pub!Node(level[k-1][a + 1], level[k-1][a + 2])
            ELSE level[k-1][a + 1]
      BY <2>6, <3>1
    <3> HIDE DEF a
    <3>4. i \in Nat /\ i <= (l - 1) * v /\ (l - 1) * v \in Nat /\ i \in 0..n-1
      <4>1. l - 1 \in Nat /\ a <= l - 1
        BY <2>2, <3>1
      <4>2. a * v \in Nat /\ (l - 1) * v \in Nat /\ a * v <= (l - 1) * v
        <5>. DEFINE y == l - 1
        <5> HIDE DEF y
        <5>1. y \in Nat /\ a <= y
          BY <4>1 DEF y
        <5>2. a * v \in Nat /\ y * v \in Nat /\ a * v <= y * v
          BY <2>1, <3>1, <5>1, Times
        <5> QED
          BY <5>2 DEF y
      <4>. DEFINE Y == (l - 1) * v
      <4>3. Y \in Nat /\ i \in Nat /\ i <= Y /\ Y < n
        BY <2>1, <4>2
      <4> HIDE DEF i, Y
      <4>4. i \in 0..n-1
        BY <1>3, <4>3
      <4> QED
        BY <4>3, <4>4 DEF Y
    <3>5. (a + 1) * v = i + v
      BY <2>1, <3>1
    <3>6. level[k-1][a + 1] = f[k-1].top[i]
      BY <2>1, <3>1
    <3>7. CASE a + 2 <= l
      <4>1. a + 1 \in 0..l - 1 /\ a + 1 + 1 = a + 2
        BY <2>2, <3>1, <3>7
      <4>2. level[k-1][a + 2] = f[k-1].top[(a + 1) * v]
        BY <2>1, <4>1
      <4>3. i + v < n
        <5>. DEFINE x == a + 1
                    y == l - 1
        <5>1. x \in Nat /\ y \in Nat /\ x <= y
          BY <2>2, <3>1, <4>1
        <5> HIDE DEF x, y
        <5>2. x * v \in Nat /\ y * v \in Nat /\ x * v <= y * v
          BY <2>1, <5>1, Times
        <5>. DEFINE X == x * v
                    Y == y * v
        <5>3. X \in Nat /\ Y \in Nat /\ X <= Y /\ Y < n /\ X = i + v
          BY <2>1, <3>5, <5>2 DEF x, y
        <5> HIDE DEF X, Y, i
        <5> QED
          BY <1>3, <5>3
      <4> HIDE DEF i
      <4>4. ~(i + v >= n)
        BY <1>3, <2>1, <3>4, <4>3
      <4> QED
        BY <2>5, <3>2, <3>3, <3>4, <3>5, <3>6, <3>7, <4>2, <4>4
    <3>8. CASE ~(a + 2 <= l)
      <4>1. a + 1 = l
        BY <2>2, <3>1, <3>8
      <4> HIDE DEF i
      <4>2. i + v >= n
        BY <2>1, <3>5, <4>1
      <4> QED
        BY <2>5, <3>2, <3>3, <3>4, <3>6, <3>8, <4>2
    <3> QED
      BY <3>7, <3>8
  <2>9. w(k) \in Nat /\ w(k) >= 1
    BY <2>1, <2>5
  <2>10. /\ (Size(k) - 1) * w(k) < n /\ n <= Size(k) * w(k)
         /\ \A c \in 0..Size(k) - 1 : level[k][c + 1] = f[k].top[c * w(k)]
    <3> HIDE DEF w
    <3> QED
      BY <2>5, <2>7, <2>8 DEF m
  <2>11. Same(k)
    BY <2>9, <2>10
  <2> HIDE DEF Same
  <2> QED
    BY <2>2, <2>11
<1>7. \A k \in 0..n : k \in A
  <2> HIDE DEF A
  <2> QED
    BY <1>3, <1>5, <1>6, UpToInduction
<1>8. Same(n)
  <2> HIDE DEF Same
  <2> QED
    BY <1>3, <1>7
<1>9. level[n][1] = f[n].top[0]
  <2>1. Size(n) = 1 /\ w(n) \in Nat
    BY <1>4, <1>8
  <2>2. 0 \in 0..(Size(n) - 1) /\ 0 + 1 = 1 /\ 0 * w(n) = 0
    BY <2>1
  <2>3. level[n][0 + 1] = f[n].top[0 * w(n)]
    BY <1>8, <2>2
  <2> QED
    BY <2>2, <2>3
<1> QED
  BY <1>1, <1>2, <1>9 DEF n

-----------------------------------------------------------------------------
(* Blobs *)

\* The invariant of blobs.
BlobInv == doc.of = "blob" => doc.bytes \in Seq(Nat) /\ doc.cuts \subseteq Nat /\ doc.broken \in BOOLEAN

\* A blob is a sequence of bytes, cut at places in it.
LEMMA BlobInvariant == DocSpec => []BlobInv
<1>1. DocInit => BlobInv
  <2>1. SUFFICES ASSUME DocInit, doc.of = "blob"
                 PROVE  doc.bytes \in Seq(Nat) /\ doc.cuts \subseteq Nat /\ doc.broken \in BOOLEAN
    BY DEF BlobInv
  <2>2. doc = [of |-> "blob", bytes |-> <<>>, cuts |-> {}, broken |-> FALSE]
    BY <2>1 DEF DocInit, BundleDoc, KindDoc
  <2>3. doc.bytes = <<>> /\ doc.cuts = {} /\ (doc.broken <=> FALSE) /\ doc.broken \in BOOLEAN
    BY <2>2
  <2> QED
    BY <2>3
<1>2. Shaped /\ BlobInv /\ [DocNext]_doc => BlobInv'
  <2>1. SUFFICES ASSUME Shaped, BlobInv, [DocNext]_doc, doc'.of = "blob"
                 PROVE  doc'.bytes \in Seq(Nat) /\ doc'.cuts \subseteq Nat /\ doc'.broken \in BOOLEAN
    BY DEF BlobInv
  <2>2. CASE UNCHANGED doc
    BY <2>1, <2>2 DEF BlobInv
  <2>3. CASE ~UNCHANGED doc
    <3>1. /\ doc.of = "blob" /\ ReadMore
          /\ doc = [of |-> "blob", bytes |-> doc.bytes, cuts |-> doc.cuts, broken |-> doc.broken]
      BY <2>1, <2>3, StepsKeepShape DEF Shaped, BundleDoc, KindDoc
    <3>2. doc.bytes \in Seq(Nat) /\ doc.cuts \subseteq Nat /\ doc.broken \in BOOLEAN /\ Len(doc.bytes) \in Nat
      BY <2>1, <3>1, LenProperties DEF BlobInv
    <3>3. CASE doc' = [doc EXCEPT !.broken = TRUE]
      <4>1. \A e \in BOOLEAN : [doc EXCEPT !.broken = e].broken = e
                               /\ [doc EXCEPT !.broken = e].bytes = doc.bytes
                                    /\ [doc EXCEPT !.broken = e].cuts = doc.cuts
        BY <3>1
      <4> QED
        BY <3>2, <3>3, <4>1
    <3>4. CASE ~(doc' = [doc EXCEPT !.broken = TRUE])
      <4>1. PICK cuts \in {doc.cuts, (doc.cuts \cup {Len(doc.bytes)}) \ {0}} :
              doc' = [doc EXCEPT !.bytes = Append(doc.bytes, Len(doc.bytes) % 4), !.cuts = cuts]
        BY <3>1, <3>4 DEF ReadMore
      <4>. DEFINE more == Append(doc.bytes, Len(doc.bytes) % 4)
      <4>2. more \in Seq(Nat)
        <5>1. Len(doc.bytes) % 4 \in Nat
          <6>. DEFINE l == Len(doc.bytes)
          <6>1. l \in Nat
            BY <3>2
          <6> HIDE DEF l
          <6>2. l % 4 \in Nat
            BY <6>1
          <6> QED
            BY <6>2 DEF l
        <5> HIDE DEF more
        <5>2. Append(doc.bytes, Len(doc.bytes) % 4) \in Seq(Nat)
          BY <3>2, <5>1, AppendProperties
        <5> QED
          BY <5>2 DEF more
      <4> HIDE DEF more
      <4>3. doc' = [doc EXCEPT !.bytes = more, !.cuts = cuts]
        BY <4>1 DEF more
      <4>4. doc'.bytes = more /\ doc'.cuts = cuts /\ doc'.broken = doc.broken
        BY <3>1, <4>3
      <4> QED
        BY <3>2, <4>1, <4>2, <4>4
    <3> QED
      BY <3>3, <3>4
  <2> QED
    BY <2>2, <2>3
<1> QED
  BY <1>1, <1>2, ShapeInvariant, PTL DEF DocSpec

\* How many chunks a blob has.
ChunkCount(b) == Pub!CeilDiv(Len(b), ChunkSize)

\* How many chunks a blob has, and where they begin and end.
LEMMA ChunksCounted ==
  ASSUME NEW S, NEW b \in Seq(S)
  PROVE  LET n == ChunkCount(b)
             chunks == Pub!Chunks(b)
         IN /\ n \in Nat /\ ChunkSize * n < Len(b) + ChunkSize /\ Len(b) <= ChunkSize * n
            /\ DOMAIN chunks = 1..n /\ Len(chunks) = n
            /\ chunks = [i \in 1..n |-> SubSeq(b, (i - 1) * ChunkSize + 1, Pub!Least(i * ChunkSize, Len(b)))]
            /\ chunks = <<>> <=> n = 0
<1>. DEFINE n == ChunkCount(b)
            chunks == Pub!Chunks(b)
            T == {chunks[i] : i \in 1..n}
<1>1. ChunkSize \in Nat \ {0} /\ Len(b) \in Nat
  BY SizeAssumption, LenProperties
<1>2. n = (Len(b) + ChunkSize - 1) \div ChunkSize
  BY DEF ChunkCount, Pub!CeilDiv
<1>3. chunks = [i \in 1..n |-> SubSeq(b, (i - 1) * ChunkSize + 1, Pub!Least(i * ChunkSize, Len(b)))]
  BY DEF ChunkCount, Pub!Chunks
<1> HIDE DEF n
<1>4. n \in Nat /\ ChunkSize * n < Len(b) + ChunkSize /\ Len(b) <= ChunkSize * n
  <2>. DEFINE l == Len(b)
  <2> HIDE DEF l
  <2>1. l + ChunkSize - 1 \in Nat
    BY <1>1 DEF l
  <2>. DEFINE a == l + ChunkSize - 1
  <2> HIDE DEF a
  <2>2. n \in Nat /\ ChunkSize * n <= a /\ a < ChunkSize * n + ChunkSize
    BY <1>1, <1>2, <2>1, Divided DEF a, l
  <2>3. ChunkSize * n \in Nat /\ l \in Nat
    BY <1>1, <2>2 DEF l
  <2>4. ChunkSize * n < l + ChunkSize /\ l <= ChunkSize * n
    BY <1>1, <2>2, <2>3 DEF a
  <2> QED
    BY <2>2, <2>4 DEF l
<1>5. chunks \in [1..n -> T]
  BY <1>3
<1>6. chunks \in Seq(T) /\ Len(chunks) = n /\ DOMAIN chunks = 1..n
  <2> HIDE DEF chunks, T
  <2> QED
    BY <1>4, <1>5
<1>7. chunks = <<>> <=> n = 0
  <2> HIDE DEF chunks, T
  <2> QED
    BY <1>4, <1>6, EmptySeq
<1> QED
  BY <1>3, <1>4, <1>6, <1>7 DEF n

\* Leaves are as many as what they are made of.
LEMMA LeavesCounted ==
  ASSUME NEW s, NEW n \in Nat, DOMAIN s = 1..n
  PROVE  /\ Len(Pub!Leaves(s)) = n /\ \A i \in 1..n : Pub!Leaves(s)[i] = Pub!Leaf(s[i])
         /\ Pub!Leaves(s) = <<>> <=> n = 0
<1>. DEFINE t == Pub!Leaves(s)
            T == {t[i] : i \in 1..n}
<1>1. t = [i \in 1..n |-> Pub!Leaf(s[i])]
  BY DEF Pub!Leaves
<1>2. t \in [1..n -> T]
  BY <1>1
<1>3. t \in Seq(T) /\ Len(t) = n
  <2> HIDE DEF t, T
  <2> QED
    BY <1>2
<1>4. t = <<>> <=> n = 0
  <2> HIDE DEF t, T
  <2> QED
    BY <1>3, EmptySeq
<1> QED
  BY <1>1, <1>3, <1>4

\* A manifest's id is the root of the tree over its chunks' addresses, and there is one
\* where there is a native root.
LEMMA PublicationOfBlob ==
  ASSUME NEW S, NEW b \in Seq(S)
  PROVE  LET chunks == Pub!Chunks(b)
             m == Pub!PubManifest(b)
             addresses == [i \in DOMAIN chunks |-> Pub!Address(chunks[i])]
         IN /\ m.ok <=> Pub!Root(Pub!FromBytes(b)).ok
            /\ m.ok => m.is.id = Pub!Root(Pub!Tree(Pub!Leaves(addresses), 0)).is
<1>. DEFINE chunks == Pub!Chunks(b)
            m == Pub!PubManifest(b)
            n == ChunkCount(b)
            addresses == [i \in DOMAIN chunks |-> Pub!Address(chunks[i])]
            leaves == Pub!Leaves(addresses)
            made == [size |-> Len(b), chunk_size |-> ChunkSize,
                     id |-> Pub!SplitTop([i \in DOMAIN chunks |-> Pub!Leaf(Pub!Address(chunks[i]))])]
<1>1. n \in Nat /\ DOMAIN chunks = 1..n /\ (chunks = <<>> <=> n = 0)
  BY ChunksCounted
<1>2. m = IF chunks = <<>> THEN Pub!NotDone ELSE Pub!Done(made)
  BY DEF Pub!PubManifest
<1> HIDE DEF n
<1>3. DOMAIN addresses = 1..n
  BY <1>1
<1>4. leaves = [i \in DOMAIN chunks |-> Pub!Leaf(Pub!Address(chunks[i]))]
  BY DEF Pub!Leaves
<1> HIDE DEF chunks
<1>5. Len(leaves) = n /\ (leaves = <<>> <=> n = 0) /\ (Pub!Leaves(chunks) = <<>> <=> n = 0)
  <2> HIDE DEF addresses
  <2> QED
    BY <1>1, <1>3, LeavesCounted
<1>6. made.id = Pub!SplitTop(leaves)
  <2> HIDE DEF leaves
  <2> QED
    BY <1>4
<1> HIDE DEF addresses, leaves, made, m
<1>7. m.ok <=> n # 0
  BY <1>1, <1>2, DoneOrNot
<1>8. Pub!Root(Pub!FromBytes(b)).ok <=> n # 0
  <2>1. Pub!FromBytes(b).leaves = Pub!Leaves(chunks)
    BY DEF Pub!FromBytes, Pub!Tree, chunks
  <2> QED
    BY <1>5, <2>1, DoneOrNot DEF Pub!Root
<1>9. ASSUME n # 0 PROVE m.is.id = Pub!Root(Pub!Tree(leaves, 0)).is
  <2>1. m = Pub!Done(made)
    BY <1>1, <1>2, <1>9
  <2>2. m.is.id = Pub!Top(leaves)
    <3>1. Pub!SplitTop(leaves) = Pub!Top(leaves)
      BY <1>1, <1>5, <1>9, SameTop
    <3> QED
      BY <1>6, <2>1, <3>1, DoneOrNot
  <2>3. Pub!Tree(leaves, 0).leaves = leaves
    BY DEF Pub!Tree
  <2> QED
    BY <1>5, <1>9, <2>2, <2>3, DoneOrNot DEF Pub!Root
<1> QED
  BY <1>7, <1>8, <1>9 DEF m, leaves, addresses, chunks

\* A publication's tree is the native one over addresses, and a feed of appended entries
\* verifies up to the head built for its last one, and to no other part of it.
THEOREM PublicationsHold == DocSpec => []PublicationHolds
<1>1. BlobInv /\ FeedInv => PublicationHolds
  <2>1. SUFFICES ASSUME BlobInv, FeedInv PROVE PublicationHolds
    OBVIOUS
  <2>2. ASSUME doc.of = "blob"
        PROVE  LET chunks == Pub!Chunks(doc.bytes)
                   m == Pub!PubManifest(doc.bytes)
                   addresses == [i \in DOMAIN chunks |-> Pub!Address(chunks[i])]
               IN /\ m.ok <=> Pub!Root(Pub!FromBytes(doc.bytes)).ok
                  /\ m.ok => m.is.id = Pub!Root(Pub!Tree(Pub!Leaves(addresses), 0)).is
    <3>1. doc.bytes \in Seq(Nat)
      BY <2>1, <2>2 DEF BlobInv
    <3> QED
      BY <3>1, PublicationOfBlob
  <2>3. ASSUME doc.of = "feed", NEW i \in DOMAIN doc.entries
        PROVE  LET head == Pub!BuildFeedHead("author", Last(doc.entries), 0) IN
               /\ Pub!VerifyFeedChainToHead(SubSeq(doc.entries, 1, i), head) <=> i = Len(doc.entries)
               /\ Pub!VerifyFeedChain(SubSeq(doc.entries, i, Len(doc.entries))) <=> i = 1
    <3>1. Chained(doc.entries)
      BY <2>1, <2>3 DEF FeedInv
    <3>2. i \in 1..Len(doc.entries)
      BY <2>3, <3>1, LenProperties DEF Chained
    <3> QED
      BY <3>1, <3>2, FeedParts
  <2> QED
    BY <2>2, <2>3 DEF PublicationHolds
<1> QED
  BY <1>1, BlobInvariant, FeedInvariant, PTL

-----------------------------------------------------------------------------
(* Reading a blob in buffers *)

\* The least of some numbers is one of them.
LEMMA MinOf ==
  ASSUME NEW M, M \subseteq Nat, M # {}
  PROVE  Pub!Min(M) \in M /\ \A x \in M : Pub!Min(M) <= x
<1>1. \E x \in M : \A y \in M : x <= y
  BY LeastNat
<1> QED
  BY <1>1 DEF Pub!Min

\* A read call goes on, and not past the end or the limit.
LEMMA ReadOn ==
  ASSUME NEW r, Len(r.bytes) \in Nat, r.cuts \subseteq Nat,
         NEW p \in Nat, NEW m \in Nat, p <= Len(r.bytes), p <= m
  PROVE  LET q == Pub!ReadCall(r, p, m) IN
         /\ q \in Nat /\ p <= q /\ q <= m /\ q <= Len(r.bytes)
         /\ p < m /\ p < Len(r.bytes) => p < q
<1>. DEFINE M == {m} \cup {c \in r.cuts \cup {Len(r.bytes)} : c > p}
            l == Len(r.bytes)
<1>1. Pub!ReadCall(r, p, m) = IF p = l THEN p ELSE Pub!Min(M)
  BY DEF Pub!ReadCall
<1>2. CASE p = l
  BY <1>1, <1>2
<1>3. CASE p # l
  <2>1. M \subseteq Nat /\ m \in M /\ l \in M /\ \A x \in M : x = m \/ x > p
    BY <1>3
  <2>. DEFINE q == Pub!Min(M)
  <2>2. q \in M /\ \A x \in M : q <= x
    <3> HIDE DEF M
    <3> QED
      BY <2>1, MinOf
  <2> HIDE DEF M, q
  <2>3. q \in Nat /\ q <= m /\ q <= l /\ (q = m \/ q > p)
    BY <2>1, <2>2
  <2> QED
    BY <1>1, <1>3, <2>3 DEF q
<1> QED
  BY <1>2, <1>3

\* f is where the reader is after each read call of FillBuf.
FillRounds(f, r, p, m, n) == f = [i \in 0..n |-> IF i = 0 THEN p ELSE Pub!ReadCall(r, f[i-1], m)]

\* The loop of FillBuf exists.
LEMMA FillLoop ==
  ASSUME NEW r, NEW p, NEW m, NEW n \in Nat
  PROVE  \E f : FillRounds(f, r, p, m, n)
<1>. DEFINE A == {k \in Nat : \E f : FillRounds(f, r, p, m, k)}
<1>1. 0 \in A
  <2>1. [i \in 0..0 |-> p] = [i \in 0..0 |-> IF i = 0 THEN p ELSE Pub!ReadCall(r, [j \in 0..0 |-> p][i-1], m)]
    OBVIOUS
  <2> QED
    BY <2>1 DEF FillRounds
<1>2. ASSUME NEW k \in A PROVE k + 1 \in A
  <2>1. PICK f : f = [i \in 0..k |-> IF i = 0 THEN p ELSE Pub!ReadCall(r, f[i-1], m)]
    BY <1>2 DEF FillRounds
  <2>. DEFINE h == [i \in 0..k+1 |-> IF i = k + 1 THEN Pub!ReadCall(r, f[k], m) ELSE f[i]]
  <2>2. ASSUME NEW i \in 0..k+1
        PROVE  h[i] = IF i = 0 THEN p ELSE Pub!ReadCall(r, h[i-1], m)
    <3>1. CASE i = k + 1
      BY <3>1
    <3>2. CASE i # k + 1
      <4>1. i \in 0..k
        BY <3>2
      <4>2. f[i] = IF i = 0 THEN p ELSE Pub!ReadCall(r, f[i-1], m)
        BY <2>1, <4>1
      <4>3. i # 0 => h[i-1] = f[i-1]
        BY <4>1
      <4> QED
        BY <4>1, <4>2, <4>3
    <3> QED
      BY <3>1, <3>2
  <2>3. h = [i \in 0..k+1 |-> IF i = 0 THEN p ELSE Pub!ReadCall(r, h[i-1], m)]
    BY <2>2
  <2> HIDE DEF h
  <2> QED
    BY <2>3 DEF FillRounds
<1>3. A = Nat
  <2> HIDE DEF A
  <2> A \in SUBSET Nat
    BY DEF A
  <2> QED
    BY <1>1, <1>2, SetInduction
<1> QED
  BY <1>3

\* A buffer ends where it is full or the blob ends, however many read calls it takes.
LEMMA Filled ==
  ASSUME NEW r, Len(r.bytes) \in Nat, r.cuts \subseteq Nat, NEW p \in Nat, p <= Len(r.bytes), NEW cap \in Nat
  PROVE  LET q == Pub!Least(p + cap, Len(r.bytes)) IN
         Pub!FillBuf(r, p, cap) = IF r.broken /\ q < p + cap THEN Pub!NotDone ELSE Pub!Done(q)
<1>. DEFINE l == Len(r.bytes)
            m == p + cap
            F(h) == FillRounds(h, r, p, m, cap)
            g == CHOOSE h : h = [i \in 0..cap |-> IF i = 0 THEN p ELSE Pub!ReadCall(r, h[i-1], m)]
<1>1. Pub!FillBuf(r, p, cap) = IF r.broken /\ g[cap] < m THEN Pub!NotDone ELSE Pub!Done(g[cap])
  BY DEF Pub!FillBuf
<1>2. g = CHOOSE h : F(h)
  BY DEF FillRounds
<1> HIDE DEF g
<1>3. F(g)
  <2>1. \E h : F(h)
    BY FillLoop
  <2> HIDE DEF F
  <2> QED
    BY <1>2, <2>1
<1>4. m \in Nat /\ l \in Nat /\ p <= m /\ p <= l
  OBVIOUS
<1>5. g[0] = p /\ \A i \in 1..cap : g[i] = Pub!ReadCall(r, g[i-1], m)
  <2>1. 0 \in 0..cap /\ \A i \in 1..cap : i \in 0..cap /\ i # 0
    OBVIOUS
  <2> HIDE DEF m
  <2> QED
    BY <1>3, <2>1 DEF FillRounds
<1>. DEFINE A == {i \in 0..cap : /\ g[i] \in Nat /\ p <= g[i] /\ g[i] <= m /\ g[i] <= l
                                 /\ p + i <= g[i] \/ g[i] = l}
<1>6. 0 \in A
  BY <1>4, <1>5
<1>7. ASSUME NEW i \in 1..cap, i - 1 \in A PROVE i \in A
  <2>. DEFINE a == g[i-1]
              q == g[i]
  <2>1. a \in Nat /\ p <= a /\ a <= m /\ a <= l /\ (p + (i - 1) <= a \/ a = l)
    BY <1>7
  <2>2. q = Pub!ReadCall(r, a, m)
    BY <1>5
  <2> HIDE DEF a, q
  <2>3. q \in Nat /\ a <= q /\ q <= m /\ q <= l /\ (a < m /\ a < l => a < q)
    BY <1>4, <2>1, <2>2, ReadOn
  <2>4. p + i <= q \/ q = l
    BY <1>4, <2>1, <2>3
  <2>5. i \in 0..cap /\ p <= q
    BY <2>1, <2>3
  <2> QED
    BY <2>3, <2>4, <2>5 DEF q
<1>8. \A i \in 0..cap : i \in A
  <2> HIDE DEF A
  <2> QED
    BY <1>6, <1>7, UpToInduction
<1>9. g[cap] = Pub!Least(m, l)
  <2>1. cap \in A
    <3> HIDE DEF A
    <3> QED
      BY <1>8
  <2>. DEFINE q == g[cap]
  <2>2. q \in Nat /\ q <= m /\ q <= l /\ (m <= q \/ q = l)
    BY <2>1
  <2> HIDE DEF q, m, l
  <2> QED
    BY <1>4, <2>2 DEF Pub!Least, q
<1> QED
  BY <1>1, <1>9

\* f is what was read after each buffer.
BufferRounds(f, r, cap, n) == f = [i \in 0..n |-> IF i = 0 THEN Pub!NoBuffers
  ELSE Pub!NextBuffer(r, cap, f[i-1])]

\* The loop of Buffers exists.
LEMMA BufferLoop ==
  ASSUME NEW r, NEW cap, NEW n \in Nat
  PROVE  \E f : BufferRounds(f, r, cap, n)
<1>. DEFINE A == {k \in Nat : \E f : BufferRounds(f, r, cap, k)}
<1>1. 0 \in A
  <2>1. [i \in 0..0 |-> Pub!NoBuffers] = [i \in 0..0 |-> IF i = 0 THEN Pub!NoBuffers
          ELSE Pub!NextBuffer(r, cap, [j \in 0..0 |-> Pub!NoBuffers][i-1])]
    OBVIOUS
  <2> QED
    BY <2>1 DEF BufferRounds
<1>2. ASSUME NEW k \in A PROVE k + 1 \in A
  <2>1. PICK f : f = [i \in 0..k |-> IF i = 0 THEN Pub!NoBuffers ELSE Pub!NextBuffer(r, cap, f[i-1])]
    BY <1>2 DEF BufferRounds
  <2>. DEFINE h == [i \in 0..k+1 |-> IF i = k + 1 THEN Pub!NextBuffer(r, cap, f[k]) ELSE f[i]]
  <2>2. ASSUME NEW i \in 0..k+1
        PROVE  h[i] = IF i = 0 THEN Pub!NoBuffers ELSE Pub!NextBuffer(r, cap, h[i-1])
    <3>1. CASE i = k + 1
      BY <3>1
    <3>2. CASE i # k + 1
      <4>1. i \in 0..k
        BY <3>2
      <4>2. f[i] = IF i = 0 THEN Pub!NoBuffers ELSE Pub!NextBuffer(r, cap, f[i-1])
        BY <2>1, <4>1
      <4>3. i # 0 => h[i-1] = f[i-1]
        BY <4>1
      <4> QED
        BY <4>1, <4>2, <4>3
    <3> QED
      BY <3>1, <3>2
  <2>3. h = [i \in 0..k+1 |-> IF i = 0 THEN Pub!NoBuffers ELSE Pub!NextBuffer(r, cap, h[i-1])]
    BY <2>2
  <2> HIDE DEF h
  <2> QED
    BY <2>3 DEF BufferRounds
<1>3. A = Nat
  <2> HIDE DEF A
  <2> A \in SUBSET Nat
    BY DEF A
  <2> QED
    BY <1>1, <1>2, SetInduction
<1> QED
  BY <1>3

\* What is read after i buffers: whole ones up to the last.
Buffered(s, r, cap, i) ==
  LET l == Len(r.bytes)
      m == Len(s.chunks)
  IN /\ s = [chunks |-> s.chunks, at |-> s.at, more |-> s.more, ok |-> s.ok]
     /\ {s.more, s.ok} \subseteq BOOLEAN /\ \E T : s.chunks \in Seq(T)
     /\ \A j \in 1..m : s.chunks[j] = SubSeq(r.bytes, (j - 1) * cap + 1, Pub!Least(j * cap, l))
     /\ s.more => s.ok /\ m = i /\ s.at = i * cap /\ s.at <= l
     /\ ~s.more /\ s.ok => ~r.broken /\ s.at = l /\ l <= m * cap /\ m * cap < l + cap
     /\ ~s.ok => r.broken

\* The fields of what was read.
BufferFields == {"chunks", "at", "more", "ok"}

\* What the fields are after a change.
LEMMA BufferState ==
  ASSUME NEW s, s = [chunks |-> s.chunks, at |-> s.at, more |-> s.more, ok |-> s.ok],
         NEW c, NEW a, NEW m, NEW o
  PROVE  /\ [s EXCEPT !.ok = o, !.more = m] = [chunks |-> s.chunks, at |-> s.at, more |-> m, ok |-> o]
         /\ [s EXCEPT !.more = m] = [chunks |-> s.chunks, at |-> s.at, more |-> m, ok |-> s.ok]
         /\ [s EXCEPT !.chunks = c, !.at = a, !.more = m] = [chunks |-> c, at |-> a, more |-> m, ok |-> s.ok]
<1>. DEFINE so == s.ok
            sm == s.more
<1>1. s = [chunks |-> s.chunks, at |-> s.at, more |-> sm, ok |-> so]
  OBVIOUS
<1> HIDE DEF so, sm
<1>2. [s EXCEPT !.ok = o, !.more = m] = [chunks |-> s.chunks, at |-> s.at, more |-> m, ok |-> o]
  <2>. DEFINE e == [s EXCEPT !.ok = o, !.more = m]
  <2>1. DOMAIN e = BufferFields /\ e = [k \in BufferFields |-> e[k]]
    BY <1>1 DEF BufferFields
  <2>2. e.chunks = s.chunks /\ e.at = s.at /\ e.more = m /\ e.ok = o
    BY <1>1
  <2> HIDE DEF e
  <2>3. e = [chunks |-> s.chunks, at |-> s.at, more |-> m, ok |-> o]
    BY <2>1, <2>2 DEF BufferFields
  <2> QED
    BY <2>3 DEF e
<1>3. [s EXCEPT !.more = m] = [chunks |-> s.chunks, at |-> s.at, more |-> m, ok |-> so]
  BY <1>1
<1>4. [s EXCEPT !.chunks = c, !.at = a, !.more = m] = [chunks |-> c, at |-> a, more |-> m, ok |-> so]
  <2>. DEFINE e == [s EXCEPT !.chunks = c, !.at = a, !.more = m]
  <2>1. DOMAIN e = BufferFields /\ e = [k \in BufferFields |-> e[k]]
    BY <1>1 DEF BufferFields
  <2>2. e.chunks = c /\ e.at = a /\ e.more = m /\ e.ok = so
    BY <1>1
  <2> HIDE DEF e
  <2>3. e = [chunks |-> c, at |-> a, more |-> m, ok |-> so]
    BY <2>1, <2>2 DEF BufferFields
  <2> QED
    BY <2>3 DEF e
<1> QED
  BY <1>2, <1>3, <1>4 DEF so

\* One more buffer is read whole, is the last, or fails.
LEMMA OneBuffer ==
  ASSUME NEW r, Len(r.bytes) \in Nat, r.cuts \subseteq Nat, r.broken \in BOOLEAN,
         NEW cap \in Nat, cap >= 1, NEW i \in Nat, NEW s, Buffered(s, r, cap, i)
  PROVE  Buffered(Pub!NextBuffer(r, cap, s), r, cap, i + 1)
<1>. DEFINE l == Len(r.bytes)
            t == Pub!NextBuffer(r, cap, s)
            q == Pub!Least(s.at + cap, l)
<1>1. CASE ~s.more
  BY <1>1 DEF Pub!NextBuffer, Buffered
<1>2. CASE s.more
  <2>1. /\ s = [chunks |-> s.chunks, at |-> s.at, more |-> s.more, ok |-> s.ok]
        /\ s.ok /\ s.at = i * cap /\ s.at <= l /\ s.at \in Nat /\ Len(s.chunks) = i
    BY <1>2 DEF Buffered
  <2>2. Pub!FillBuf(r, s.at, cap) = IF r.broken /\ q < s.at + cap THEN Pub!NotDone ELSE Pub!Done(q)
    BY <2>1, Filled
  <2>3. q \in Nat /\ s.at <= q /\ q <= l /\ q <= s.at + cap /\ (q = l \/ q = s.at + cap)
    BY <2>1 DEF Pub!Least
  <2>4. Pub!NextBuffer(r, cap, s) =
          LET b == Pub!FillBuf(r, s.at, cap) IN
          IF ~b.ok THEN [s EXCEPT !.ok = FALSE, !.more = FALSE]
          ELSE IF b.is = s.at THEN [s EXCEPT !.more = FALSE]
          ELSE [s EXCEPT !.chunks = Append(s.chunks, SubSeq(r.bytes, s.at + 1, b.is)), !.at = b.is,
                         !.more = (b.is = s.at + cap)]
    BY <1>2 DEF Pub!NextBuffer
  <2> HIDE DEF q
  <2>5. CASE r.broken /\ q < s.at + cap
    <3>1. t = [s EXCEPT !.ok = FALSE, !.more = FALSE]
      BY <2>2, <2>4, <2>5, DoneOrNot
    <3> HIDE DEF t
    <3>. DEFINE no == FALSE
    <3>2. t = [s EXCEPT !.ok = no, !.more = no]
      BY <3>1
    <3> HIDE DEF no
    <3>3. t = [chunks |-> s.chunks, at |-> s.at, more |-> no, ok |-> no]
      BY <2>1, <3>2, BufferState
    <3>4. t.chunks = s.chunks /\ t.at = s.at /\ t.more = FALSE /\ t.ok = FALSE
          /\ t = [chunks |-> t.chunks, at |-> t.at, more |-> t.more, ok |-> t.ok]
      BY <3>3 DEF no
    <3>5. Buffered(t, r, cap, i + 1)
      BY <2>5, <3>4 DEF Buffered
    <3> QED
      BY <3>5 DEF t
  <2>6. CASE ~(r.broken /\ q < s.at + cap) /\ q = s.at
    <3>1. t = [s EXCEPT !.more = FALSE]
      BY <2>2, <2>4, <2>6, DoneOrNot
    <3> HIDE DEF t
    <3>. DEFINE no == FALSE
    <3>2. t = [s EXCEPT !.more = no]
      BY <3>1
    <3> HIDE DEF no
    <3>3. t = [chunks |-> s.chunks, at |-> s.at, more |-> no, ok |-> s.ok]
      BY <2>1, <3>2, BufferState
    <3>4. t.chunks = s.chunks /\ t.at = s.at /\ t.more = FALSE /\ t.ok = s.ok
          /\ t = [chunks |-> t.chunks, at |-> t.at, more |-> t.more, ok |-> t.ok]
      BY <3>3 DEF no
    <3>5. ~r.broken /\ s.at = l /\ l <= i * cap /\ i * cap < l + cap
      BY <2>1, <2>3, <2>6
    <3> HIDE DEF l
    <3>6. Buffered(t, r, cap, i + 1)
      BY <2>1, <3>4, <3>5 DEF Buffered, l
    <3> QED
      BY <3>6 DEF t
  <2>7. CASE ~(r.broken /\ q < s.at + cap) /\ q # s.at
    <3>. DEFINE c == SubSeq(r.bytes, s.at + 1, q)
                more == Append(s.chunks, c)
                full == (q = s.at + cap)
    <3>1. t = [s EXCEPT !.chunks = more, !.at = q, !.more = full]
      BY <2>2, <2>4, <2>7, DoneOrNot
    <3>2. PICK T : s.chunks \in Seq(T)
      BY DEF Buffered
    <3> HIDE DEF c
    <3>3. s.chunks \in Seq(T \cup {c})
      BY <3>2, SeqMonotonic
    <3>4. /\ more \in Seq(T \cup {c}) /\ Len(more) = i + 1 /\ more[i + 1] = c
          /\ \A j \in 1..i : more[j] = s.chunks[j]
      BY <2>1, <3>3, AppendProperties
    <3> HIDE DEF more, t
    <3>5. full \in BOOLEAN
      OBVIOUS
    <3> HIDE DEF full
    <3>6. t = [chunks |-> more, at |-> q, more |-> full, ok |-> s.ok]
      BY <2>1, <3>1, BufferState
    <3>7. t.chunks = more /\ t.at = q /\ (t.more <=> full) /\ t.more \in BOOLEAN /\ t.ok = s.ok
          /\ t = [chunks |-> t.chunks, at |-> t.at, more |-> t.more, ok |-> t.ok]
      BY <3>5, <3>6
    <3>8. i * cap \in Nat /\ (i + 1) * cap = i * cap + cap
      OBVIOUS
    <3>9. (i + 1) - 1 = i /\ q = Pub!Least((i + 1) * cap, l)
      BY <2>1, <3>8 DEF q
    <3>10. more[i + 1] = SubSeq(r.bytes, ((i + 1) - 1) * cap + 1, Pub!Least((i + 1) * cap, l))
      BY <2>1, <3>4, <3>9 DEF c
    <3>11. \A j \in 1..i : more[j] = SubSeq(r.bytes, (j - 1) * cap + 1, Pub!Least(j * cap, l))
      BY <2>1, <3>4 DEF Buffered
    <3>12. \A j \in 1..(i + 1) : j = i + 1 \/ j \in 1..i
      OBVIOUS
    <3>13. \A j \in 1..(i + 1) : more[j] = SubSeq(r.bytes, (j - 1) * cap + 1, Pub!Least(j * cap, l))
      BY <3>10, <3>11, <3>12
    <3>14. l \in Nat /\ cap \in Nat
      OBVIOUS
    <3>15. s.at \in Nat /\ q \in Nat /\ s.at <= q /\ q <= l /\ q <= s.at + cap
           /\ (q = l \/ q = s.at + cap) /\ q # s.at
      BY <2>1, <2>3, <2>7
    <3>16. q # s.at + cap => q < s.at + cap /\ q = l /\ l <= s.at + cap /\ s.at + cap < l + cap
      <4> HIDE DEF l
      <4> QED
        BY <3>14, <3>15
    <3>17. q # s.at + cap => ~r.broken
      BY <2>7, <3>16
    <3>18. /\ full => q = s.at + cap /\ q <= l
           /\ ~full => ~r.broken /\ q = l /\ l <= s.at + cap /\ s.at + cap < l + cap
      BY <3>15, <3>16, <3>17 DEF full
    <3>19. (i + 1) * cap = s.at + cap
      BY <2>1, <3>8
    <3>20. /\ full => q = (i + 1) * cap /\ q <= l
           /\ ~full => ~r.broken /\ q = l /\ l <= (i + 1) * cap /\ (i + 1) * cap < l + cap
      BY <3>18, <3>19
    <3> HIDE DEF l
    <3>21. Buffered(t, r, cap, i + 1)
      <4>1. Len(t.chunks) = i + 1 /\ \E U : t.chunks \in Seq(U)
        BY <3>4, <3>7
      <4>2. {t.more, t.ok} \subseteq BOOLEAN /\ t.ok
        BY <2>1, <3>7 DEF Buffered
      <4> QED
        BY <3>7, <3>13, <3>20, <4>1, <4>2 DEF Buffered, l
    <3> QED
      BY <3>21 DEF t
  <2> QED
    BY <2>5, <2>6, <2>7
<1> QED
  BY <1>1, <1>2

\* All that is read, or an error when the reader breaks.
LEMMA AllBuffered ==
  ASSUME NEW r, Len(r.bytes) \in Nat, r.cuts \subseteq Nat, r.broken \in BOOLEAN, NEW cap \in Nat, cap >= 1
  PROVE  LET s == Pub!Buffers(r, cap)
             l == Len(r.bytes)
             m == Len(s.chunks)
         IN /\ s.ok <=> ~r.broken
            /\ s.ok => /\ s.at = l /\ l <= m * cap /\ m * cap < l + cap
                       /\ m \in Nat /\ DOMAIN s.chunks = 1..m
                       /\ s.chunks = [j \in 1..m |-> SubSeq(r.bytes, (j - 1) * cap + 1, Pub!Least(j * cap, l))]
<1>. DEFINE n == Len(r.bytes) + 1
            F(h) == BufferRounds(h, r, cap, n)
            g == CHOOSE h : h = [i \in 0..n |-> IF i = 0 THEN Pub!NoBuffers ELSE Pub!NextBuffer(r, cap, h[i-1])]
            s == g[n]
<1>1. Pub!Buffers(r, cap) = s
  BY DEF Pub!Buffers
<1>2. g = CHOOSE h : F(h)
  BY DEF BufferRounds
<1>3. n \in Nat /\ n = Len(r.bytes) + 1
  OBVIOUS
<1> HIDE DEF g, n
<1>4. F(g)
  <2>1. \E h : F(h)
    BY <1>3, BufferLoop
  <2> HIDE DEF F
  <2> QED
    BY <1>2, <2>1
<1>5. g[0] = Pub!NoBuffers /\ \A i \in 1..n : g[i] = Pub!NextBuffer(r, cap, g[i-1])
  <2>1. 0 \in 0..n /\ \A i \in 1..n : i \in 0..n /\ i # 0
    BY <1>3
  <2> QED
    BY <1>4, <2>1 DEF BufferRounds
<1>. DEFINE A == {i \in 0..n : Buffered(g[i], r, cap, i)}
<1>6. 0 \in A
  <2>. DEFINE e == Pub!NoBuffers
  <2>1. e = [chunks |-> <<>>, at |-> 0, more |-> TRUE, ok |-> TRUE]
    BY DEF Pub!NoBuffers
  <2>2. /\ e.chunks = <<>> /\ e.at = 0 /\ e.more = TRUE /\ e.ok = TRUE
        /\ e = [chunks |-> e.chunks, at |-> e.at, more |-> e.more, ok |-> e.ok]
    BY <2>1
  <2>3. <<>> \in Seq(Nat) /\ Len(<<>>) = 0 /\ 0 * cap = 0 /\ 0 <= Len(r.bytes)
    OBVIOUS
  <2> HIDE DEF e
  <2>4. \A j \in 1..Len(e.chunks) : FALSE
    BY <2>2, <2>3
  <2>5. Buffered(e, r, cap, 0)
    BY <2>2, <2>3, <2>4 DEF Buffered
  <2> QED
    BY <1>3, <1>5, <2>5 DEF e
<1>7. ASSUME NEW i \in 1..n, i - 1 \in A PROVE i \in A
  <2>1. Buffered(g[i-1], r, cap, i - 1) /\ i - 1 \in Nat /\ (i - 1) + 1 = i
    BY <1>7
  <2>2. Buffered(g[i], r, cap, (i - 1) + 1)
    BY <1>5, <2>1, OneBuffer
  <2> QED
    BY <1>3, <2>1, <2>2
<1>8. \A i \in 0..n : i \in A
  <2> HIDE DEF A
  <2> QED
    BY <1>3, <1>6, <1>7, UpToInduction
<1>9. Buffered(s, r, cap, n)
  <2>1. n \in A
    <3> HIDE DEF A
    <3> QED
      BY <1>3, <1>8
  <2> QED
    BY <2>1
<1> HIDE DEF s
<1>10. ~s.more
  <2>1. s.more => n * cap <= Len(r.bytes)
    BY <1>9 DEF Buffered
  <2>2. n * 1 <= n * cap
    <3>1. n * 1 = n /\ 1 * n = n /\ cap * n = n * cap
      BY <1>3
    <3>2. 1 * n <= cap * n
      BY <1>3, Times
    <3> QED
      BY <3>1, <3>2
  <2>3. n * cap \in Nat
    BY <1>3
  <2> QED
    BY <1>3, <2>1, <2>2, <2>3
<1>. DEFINE l == Len(r.bytes)
            m == Len(s.chunks)
<1>11. /\ s.ok <=> ~r.broken
       /\ s.ok => s.at = l /\ l <= m * cap /\ m * cap < l + cap
       /\ \A j \in 1..m : s.chunks[j] = SubSeq(r.bytes, (j - 1) * cap + 1, Pub!Least(j * cap, l))
       /\ \E T : s.chunks \in Seq(T)
  BY <1>9, <1>10 DEF Buffered
<1>12. m \in Nat /\ DOMAIN s.chunks = 1..m /\ s.chunks = [j \in 1..m |-> s.chunks[j]]
  <2>1. PICK T : s.chunks \in Seq(T)
    BY <1>11
  <2>2. m \in Nat /\ DOMAIN s.chunks = 1..m /\ s.chunks \in [1..m -> T]
    BY <2>1, LenProperties
  <2> QED
    BY <2>2
<1>13. s.chunks = [j \in 1..m |-> SubSeq(r.bytes, (j - 1) * cap + 1, Pub!Least(j * cap, l))]
  <2> HIDE DEF l, m
  <2> QED
    BY <1>11, <1>12
<1> QED
  BY <1>1, <1>11, <1>12, <1>13

\* There is one way to cut a length into pieces.
LEMMA OneCount ==
  ASSUME NEW l \in Nat, NEW cap \in Nat, NEW m \in Nat, NEW n \in Nat,
         l <= m * cap, m * cap < l + cap, l <= n * cap, n * cap < l + cap
  PROVE  m = n
<1>1. ASSUME NEW x \in Nat, NEW y \in Nat, l <= x * cap, y * cap < l + cap PROVE y <= x
  <2>1. SUFFICES ASSUME x + 1 <= y PROVE FALSE
    OBVIOUS
  <2>2. (x + 1) * cap <= y * cap
    <3>. DEFINE z == x + 1
    <3>1. z \in Nat /\ z <= y
      BY <2>1
    <3> HIDE DEF z
    <3>2. z * cap <= y * cap
      BY <3>1, Times
    <3> QED
      BY <3>2 DEF z
  <2>3. (x + 1) * cap = x * cap + cap /\ x * cap \in Nat /\ y * cap \in Nat
    OBVIOUS
  <2>. DEFINE X == x * cap
              Y == y * cap
              Z == (x + 1) * cap
  <2>4. Z <= Y /\ Z = X + cap /\ X \in Nat /\ Y \in Nat /\ l <= X /\ Y < l + cap
    BY <1>1, <2>2, <2>3
  <2> HIDE DEF X, Y, Z
  <2> QED
    BY <2>4
<1>2. m <= n /\ n <= m
  BY <1>1
<1> QED
  BY <1>2

\* A tree that is built of what is read is that of the whole; so is the id.
LEMMA ReadsWhole ==
  ASSUME NEW S, NEW b \in Seq(S), NEW cuts, cuts \subseteq Nat, NEW broken \in BOOLEAN
  PROVE  LET r == Pub!Reader(b, cuts, broken) IN
         /\ broken => ~Pub!Build(r).ok /\ ~Pub!HashStream(r).ok
         /\ ~broken => /\ Pub!Build(r) = Pub!Done(Pub!FromBytes(b))
                       /\ Pub!HashStream(r) = Pub!Done([id |-> b, size |-> Len(b)])
<1>. DEFINE r == Pub!Reader(b, cuts, broken)
            l == Len(b)
            x == Pub!Buffers(r, ChunkSize)
            y == Pub!Buffers(r, ReadBufSize)
<1>1. r.bytes = b /\ r.cuts = cuts /\ r.broken = broken
  BY DEF Pub!Reader
<1>2. ChunkSize \in Nat /\ ChunkSize >= 1 /\ ReadBufSize \in Nat /\ ReadBufSize >= 1 /\ Len(b) \in Nat
  BY SizeAssumption, LenProperties
<1>3. Pub!Build(r) = IF x.ok THEN Pub!Done(Pub!Tree(Pub!Leaves(x.chunks), x.at)) ELSE Pub!NotDone
  BY DEF Pub!Build
<1>4. Pub!HashStream(r) = IF y.ok THEN Pub!Done([id |-> SubSeq(b, 1, y.at), size |-> y.at]) ELSE Pub!NotDone
  BY <1>1 DEF Pub!HashStream
<1> HIDE DEF r
<1>. DEFINE m == Len(x.chunks)
            n == ChunkCount(b)
<1>. DEFINE Cut(bytes) == [j \in 1..m |-> SubSeq(bytes, (j - 1) * ChunkSize + 1, Pub!Least(j * ChunkSize, Len(bytes)))]
<1>5. Len(r.bytes) \in Nat /\ r.cuts \subseteq Nat /\ r.broken \in BOOLEAN
  BY <1>1, <1>2
<1>6. /\ x.ok <=> ~broken
      /\ x.ok => /\ x.at = l /\ l <= m * ChunkSize /\ m * ChunkSize < l + ChunkSize /\ m \in Nat
                 /\ x.chunks = Cut(b)
  <2>1. /\ x.ok <=> ~r.broken
        /\ x.ok => /\ x.at = Len(r.bytes) /\ Len(r.bytes) <= m * ChunkSize
             /\ m * ChunkSize < Len(r.bytes) + ChunkSize
                   /\ m \in Nat /\ x.chunks = Cut(r.bytes)
    BY <1>2, <1>5, AllBuffered
  <2> HIDE DEF Cut, m
  <2> QED
    BY <1>1, <2>1
<1>7. /\ y.ok <=> ~broken
      /\ y.ok => y.at = l
  <2>1. y.ok <=> ~r.broken
    BY <1>2, <1>5, AllBuffered
  <2>2. y.ok => y.at = Len(r.bytes)
    BY <1>2, <1>5, AllBuffered
  <2> QED
    BY <1>1, <2>1, <2>2
<1>8. n \in Nat /\ n * ChunkSize < l + ChunkSize /\ l <= n * ChunkSize
      /\ Pub!Chunks(b) = [i \in 1..n |-> SubSeq(b, (i - 1) * ChunkSize + 1, Pub!Least(i * ChunkSize, l))]
  <2>1. n \in Nat /\ ChunkSize * n < l + ChunkSize /\ l <= ChunkSize * n
        /\ Pub!Chunks(b) = [i \in 1..n |-> SubSeq(b, (i - 1) * ChunkSize + 1, Pub!Least(i * ChunkSize, l))]
    BY ChunksCounted
  <2> HIDE DEF n
  <2>2. ChunkSize * n = n * ChunkSize
    BY <1>2, <2>1
  <2> QED
    BY <2>1, <2>2
<1> HIDE DEF x, y, m, n, l
<1>9. ASSUME ~broken PROVE x.chunks = Pub!Chunks(b)
  <2>1. m = n
    BY <1>2, <1>6, <1>8, <1>9, OneCount DEF l
  <2> QED
    BY <1>6, <1>8, <1>9, <2>1 DEF l
<1>10. SubSeq(b, 1, l) = b
  BY SubSeqFull DEF l
<1>11. ~broken => Pub!Build(r) = Pub!Done(Pub!FromBytes(b))
  BY <1>3, <1>6, <1>9 DEF Pub!FromBytes, l
<1>12. ~broken => Pub!HashStream(r) = Pub!Done([id |-> b, size |-> Len(b)])
  BY <1>4, <1>7, <1>10 DEF l
<1>13. broken => ~Pub!Build(r).ok /\ ~Pub!HashStream(r).ok
  BY <1>3, <1>4, <1>6, <1>7, DoneOrNot
<1> QED
  BY <1>11, <1>12, <1>13 DEF r

-----------------------------------------------------------------------------
(* Paths up a tree *)

\* f is where Path is after each level, and the path so far.
AscentRounds(f, level, start, n) == f = [i \in 0..n |-> IF i = 0 THEN start ELSE Pub!Ascend(level[i-1], f[i-1])]

\* The loop of Path exists.
LEMMA AscentLoop ==
  ASSUME NEW level, NEW start, NEW n \in Nat
  PROVE  \E f : AscentRounds(f, level, start, n)
<1>. DEFINE A == {k \in Nat : \E f : AscentRounds(f, level, start, k)}
<1>1. 0 \in A
  <2>1. [i \in 0..0 |-> start] = [i \in 0..0 |-> IF i = 0 THEN start
          ELSE Pub!Ascend(level[i-1], [j \in 0..0 |-> start][i-1])]
    OBVIOUS
  <2> QED
    BY <2>1 DEF AscentRounds
<1>2. ASSUME NEW k \in A PROVE k + 1 \in A
  <2>1. PICK f : f = [i \in 0..k |-> IF i = 0 THEN start ELSE Pub!Ascend(level[i-1], f[i-1])]
    BY <1>2 DEF AscentRounds
  <2>. DEFINE h == [i \in 0..k+1 |-> IF i = k + 1 THEN Pub!Ascend(level[k], f[k]) ELSE f[i]]
  <2>2. ASSUME NEW i \in 0..k+1
        PROVE  h[i] = IF i = 0 THEN start ELSE Pub!Ascend(level[i-1], h[i-1])
    <3>1. CASE i = k + 1
      BY <3>1
    <3>2. CASE i # k + 1
      <4>1. i \in 0..k
        BY <3>2
      <4>2. f[i] = IF i = 0 THEN start ELSE Pub!Ascend(level[i-1], f[i-1])
        BY <2>1, <4>1
      <4>3. i # 0 => h[i-1] = f[i-1]
        BY <4>1
      <4> QED
        BY <4>1, <4>2, <4>3
    <3> QED
      BY <3>1, <3>2
  <2>3. h = [i \in 0..k+1 |-> IF i = 0 THEN start ELSE Pub!Ascend(level[i-1], h[i-1])]
    BY <2>2
  <2> HIDE DEF h
  <2> QED
    BY <2>3 DEF AscentRounds
<1>3. A = Nat
  <2> HIDE DEF A
  <2> A \in SUBSET Nat
    BY DEF A
  <2> QED
    BY <1>1, <1>2, SetInduction
<1> QED
  BY <1>3

\* next is the level above one of m nodes.
Halves(next, level, m, h) ==
  \A i \in 1..h : next[i] = IF 2 * i <= m THEN Pub!Node(level[2 * i - 1], level[2 * i]) ELSE level[2 * i - 1]

\* Node c is half as far along in the next level, joined with its sibling if it has one.
GoesUp(next, level, m, h, c) ==
  /\ c \div 2 \in 0..h - 1 /\ Pub!Sibling(c) \in Nat
  /\ next[c \div 2 + 1] = IF Pub!Sibling(c) < m THEN Pub!Join(level[c + 1], level[Pub!Sibling(c) + 1], c)
                          ELSE level[c + 1]

\* A node of one level in the next: alone it moves up, with a sibling they are joined.
LEMMA OneUp ==
  ASSUME NEW level, NEW next, NEW m \in Nat, NEW h, h = Pub!CeilDiv(m, 2), Halves(next, level, m, h),
         NEW c \in 0..m - 1
  PROVE  GoesUp(next, level, m, h, c)
<1>. DEFINE e == c \div 2
            s == Pub!Sibling(c)
<1>1. h \in Nat /\ m <= 2 * h /\ 2 * h <= m + 1
  BY Halved
<1>2. c \in Nat /\ e \in Nat /\ (c % 2 = 0 => c = 2 * e) /\ (c % 2 # 0 => c = 2 * e + 1)
  OBVIOUS
<1>3. s = IF c % 2 = 0 THEN c + 1 ELSE c - 1
  BY DEF Pub!Sibling
<1> HIDE DEF e, s
<1>4. e \in 0..h - 1 /\ e + 1 \in 1..h
  BY <1>1, <1>2
<1>5. CASE c % 2 = 0
  <2>1. 2 * (e + 1) = c + 2 /\ 2 * (e + 1) - 1 = c + 1 /\ s = c + 1 /\ s + 1 = c + 2 /\ (s < m <=> c + 2 <= m)
    BY <1>2, <1>3, <1>5
  <2>2. next[e + 1] = IF c + 2 <= m THEN Pub!Node(level[c + 1], level[c + 2]) ELSE level[c + 1]
    BY <1>4, <2>1 DEF Halves
  <2>3. Pub!Join(level[c + 1], level[s + 1], c) = Pub!Node(level[c + 1], level[s + 1])
    BY <1>5 DEF Pub!Join
  <2>4. s \in Nat
    BY <1>2, <2>1
  <2>5. next[e + 1] = IF s < m THEN Pub!Join(level[c + 1], level[s + 1], c) ELSE level[c + 1]
    BY <2>1, <2>2, <2>3
  <2> QED
    BY <1>4, <2>4, <2>5 DEF e, s, GoesUp
<1>6. CASE c % 2 # 0
  <2>1. 2 * (e + 1) = c + 1 /\ 2 * (e + 1) - 1 = c /\ s = c - 1 /\ s + 1 = c /\ s < m /\ c + 1 <= m /\ s \in Nat
    BY <1>2, <1>3, <1>6
  <2>2. next[e + 1] = Pub!Node(level[c], level[c + 1])
    BY <1>4, <2>1 DEF Halves
  <2>3. Pub!Join(level[c + 1], level[s + 1], c) = Pub!Node(level[s + 1], level[c + 1])
    BY <1>6 DEF Pub!Join
  <2>4. next[e + 1] = IF s < m THEN Pub!Join(level[c + 1], level[s + 1], c) ELSE level[c + 1]
    BY <2>1, <2>2, <2>3
  <2> QED
    BY <1>4, <2>1, <2>4 DEF e, s, GoesUp
<1> QED
  BY <1>5, <1>6

\* The way up from a leaf: where it is on each level, and its path so far.
Ascent(a, level, n) ==
  /\ \A k \in 0..n : /\ a[k].cur \in 0..Len(level[k]) - 1 /\ Pub!Sibling(a[k].cur) \in Nat
                     /\ \E T : a[k].path \in Seq(T)
                     /\ Len(a[k].path) <= Len(a[n].path)
                     /\ \A i \in 1..Len(a[k].path) : a[n].path[i] = a[k].path[i]
  /\ \A k \in 1..n :
       LET c == a[k-1].cur
           s == Pub!Sibling(c)
           p == a[k-1].path
           q == a[k].path
       IN /\ a[k].cur = c \div 2
          /\ IF s < Len(level[k-1])
               THEN /\ Len(q) = Len(p) + 1 /\ q[Len(p) + 1] = level[k-1][s + 1]
                    /\ level[k][a[k].cur + 1] = Pub!Join(level[k-1][c + 1], level[k-1][s + 1], c)
               ELSE q = p /\ level[k][a[k].cur + 1] = level[k-1][c + 1]

\* Path goes up so.
LEMMA PathAscends ==
  ASSUME NEW leaves, Len(leaves) \in Nat, Len(leaves) >= 1, NEW index \in 0..Len(leaves) - 1
  PROVE  LET n == Len(leaves) IN
         \E a : /\ Pub!Path(leaves, index) = a[n].path /\ a[0].cur = index /\ a[0].path = <<>>
                /\ Ascent(a, Pub!Levels(leaves), n)
<1>. DEFINE n == Len(leaves)
            level == Pub!Levels(leaves)
            start == [cur |-> index, path |-> <<>>]
            F(h) == AscentRounds(h, level, start, n)
            a == CHOOSE h : h = [k \in 0..n |-> IF k = 0 THEN [cur |-> index, path |-> <<>>]
              ELSE Pub!Ascend(level[k-1], h[k-1])]
<1>1. Pub!Path(leaves, index) = a[n].path
  BY DEF Pub!Path
<1>2. a = CHOOSE h : F(h)
  BY DEF AscentRounds
<1>3. n \in Nat /\ n >= 1 /\ index \in 0..n - 1
  OBVIOUS
<1>4. start.cur = index /\ start.path = <<>>
  OBVIOUS
<1>5. LevelsOf(level, leaves)
  BY LevelsHold
<1> HIDE DEF a, n, level, start
<1>6. F(a)
  <2>1. \E h : F(h)
    BY <1>3, AscentLoop
  <2> HIDE DEF F
  <2> QED
    BY <1>2, <2>1
<1>7. a[0] = start /\ \A k \in 1..n : a[k] = Pub!Ascend(level[k-1], a[k-1])
  <2>1. 0 \in 0..n /\ \A k \in 1..n : k \in 0..n /\ k # 0
    BY <1>3
  <2> QED
    BY <1>6, <2>1 DEF AscentRounds
<1>8. /\ level[0] = leaves /\ \A k \in 0..n : Len(level[k]) \in Nat /\ Len(level[k]) >= 1
      /\ \A k \in 1..n :
           /\ Len(level[k]) = Pub!CeilDiv(Len(level[k-1]), 2)
           /\ \A i \in 1..Len(level[k]) : level[k][i] = IF 2 * i <= Len(level[k-1])
                                                          THEN Pub!Node(level[k-1][2 * i - 1], level[k-1][2 * i])
                                                          ELSE level[k-1][2 * i - 1]
  BY <1>5 DEF LevelsOf, n
<1>. DEFINE Up(k) == LET c == a[k-1].cur
                         s == Pub!Sibling(c)
                         p == a[k-1].path
                         q == a[k].path
                     IN /\ a[k].cur = c \div 2
                        /\ IF s < Len(level[k-1])
                             THEN /\ Len(q) = Len(p) + 1 /\ q[Len(p) + 1] = level[k-1][s + 1]
                                  /\ level[k][a[k].cur + 1] = Pub!Join(level[k-1][c + 1], level[k-1][s + 1], c)
                             ELSE q = p /\ level[k][a[k].cur + 1] = level[k-1][c + 1]
            Begins(p, q) == Len(p) <= Len(q) /\ \A i \in 1..Len(p) : q[i] = p[i]
            Here(k) == a[k].cur \in 0..Len(level[k]) - 1 /\ \E T : a[k].path \in Seq(T)
            A == {k \in 0..n : Here(k)}
<1>9. 0 \in A
  <2>1. level[0] = leaves /\ Len(level[0]) = n /\ <<>> \in Seq(Nat)
    BY <1>8 DEF n
  <2>2. a[0].cur = index /\ a[0].path = <<>>
    BY <1>4, <1>7
  <2>3. Here(0)
    BY <1>3, <2>1, <2>2
  <2> HIDE DEF Here
  <2> QED
    BY <1>3, <2>3
<1>10. ASSUME NEW k \in 1..n, Here(k-1) PROVE Here(k) /\ Up(k) /\ Begins(a[k-1].path, a[k].path)
  <2>. DEFINE m == Len(level[k-1])
              c == a[k-1].cur
              s == Pub!Sibling(c)
              p == a[k-1].path
  <2>1. /\ m \in Nat /\ c \in 0..m - 1 /\ Len(level[k]) = Pub!CeilDiv(m, 2)
        /\ Halves(level[k], level[k-1], m, Len(level[k]))
    <3>1. k - 1 \in 0..n
      BY <1>3
    <3> QED
      BY <1>8, <1>10, <3>1 DEF Halves
  <2>2. /\ c \div 2 \in 0..Len(level[k]) - 1 /\ s \in Nat
        /\ level[k][c \div 2 + 1] = IF s < m THEN Pub!Join(level[k-1][c + 1], level[k-1][s + 1], c)
             ELSE level[k-1][c + 1]
    <3>. DEFINE h == Len(level[k])
                next == level[k]
                here == level[k-1]
    <3>1. m \in Nat /\ c \in 0..m - 1 /\ h = Pub!CeilDiv(m, 2) /\ Halves(next, here, m, h)
      BY <2>1
    <3> HIDE DEF m, c, h, next, here
    <3>2. GoesUp(next, here, m, h, c)
      BY <3>1, OneUp
    <3> QED
      BY <3>2 DEF h, next, here, GoesUp
  <2>3. PICK T : p \in Seq(T)
    BY <1>10
  <2>4. a[k] = [cur |-> c \div 2, path |-> IF s < m THEN Append(p, level[k-1][s + 1]) ELSE p]
    BY <1>7 DEF Pub!Ascend
  <2>5. a[k].cur = c \div 2 /\ a[k].path = IF s < m THEN Append(p, level[k-1][s + 1]) ELSE p
    BY <2>4
  <2>. DEFINE x == level[k-1][s + 1]
  <2> HIDE DEF m, c, s, p, x
  <2>6. p \in Seq(T \cup {x}) /\ Len(p) \in Nat
    BY <2>3, SeqMonotonic, LenProperties
  <2>7. /\ Append(p, x) \in Seq(T \cup {x}) /\ Len(Append(p, x)) = Len(p) + 1
        /\ Append(p, x)[Len(p) + 1] = x /\ \A i \in 1..Len(p) : Append(p, x)[i] = p[i]
    BY <2>6, AppendProperties
  <2>8. /\ \E U : a[k].path \in Seq(U)
        /\ Len(p) <= Len(a[k].path) /\ \A i \in 1..Len(p) : a[k].path[i] = p[i]
        /\ IF s < m THEN Len(a[k].path) = Len(p) + 1 /\ a[k].path[Len(p) + 1] = x ELSE a[k].path = p
    BY <2>5, <2>6, <2>7 DEF x
  <2>9. Here(k) /\ Begins(p, a[k].path)
    BY <2>2, <2>5, <2>8
  <2>10. Up(k)
    BY <2>2, <2>5, <2>8 DEF m, c, s, p, x
  <2> QED
    BY <2>9, <2>10 DEF p
<1> HIDE DEF Up, Here
<1>11. ASSUME NEW k \in 1..n, k - 1 \in A PROVE k \in A
  BY <1>3, <1>10, <1>11
<1>12. \A k \in 0..n : k \in A
  <2> HIDE DEF A
  <2> QED
    BY <1>3, <1>9, <1>11, UpToInduction
<1>13. \A k \in 0..n : Here(k)
  BY <1>12
<1>14. \A k \in 1..n : Up(k) /\ Begins(a[k-1].path, a[k].path)
  <2>1. \A k \in 1..n : k - 1 \in 0..n
    BY <1>3
  <2> HIDE DEF Begins
  <2> QED
    BY <1>10, <1>13, <2>1
<1>15. \A k \in 0..n : Len(a[k].path) \in Nat
  BY <1>13, LenProperties DEF Here
<1>. DEFINE B == {k \in 0..n : \A i \in 0..k : Begins(a[i].path, a[k].path)}
<1>16. 0 \in B
  BY <1>3, <1>15
<1>17. ASSUME NEW k \in 1..n, k - 1 \in B PROVE k \in B
  <2>1. k \in 0..n /\ k - 1 \in 0..n
    BY <1>3
  <2>2. ASSUME NEW i \in 0..k PROVE Begins(a[i].path, a[k].path)
    <3>1. CASE i = k
      BY <1>15, <2>1, <3>1
    <3>2. CASE i # k
      <4>1. i \in 0..k-1 /\ i \in 0..n
        BY <1>3, <3>2
      <4>2. Begins(a[i].path, a[k-1].path) /\ Begins(a[k-1].path, a[k].path)
        BY <1>14, <1>17, <4>1
      <4>. DEFINE x == Len(a[i].path)
                  y == Len(a[k-1].path)
                  z == Len(a[k].path)
      <4>3. x \in Nat /\ y \in Nat /\ z \in Nat /\ x <= y /\ y <= z
        BY <1>15, <2>1, <4>1, <4>2
      <4>4. \A j \in 1..x : a[k-1].path[j] = a[i].path[j]
        BY <4>2
      <4>5. \A j \in 1..y : a[k].path[j] = a[k-1].path[j]
        BY <4>2
      <4> HIDE DEF x, y, z
      <4>6. \A j \in 1..x : j \in 1..y
        BY <4>3
      <4>7. x <= z /\ \A j \in 1..x : a[k].path[j] = a[i].path[j]
        BY <4>3, <4>4, <4>5, <4>6
      <4> QED
        BY <4>7 DEF x, z
    <3> QED
      BY <3>1, <3>2
  <2> HIDE DEF Begins
  <2> QED
    BY <2>1, <2>2
<1>18. \A k \in 0..n : k \in B
  <2> HIDE DEF B
  <2> QED
    BY <1>3, <1>16, <1>17, UpToInduction
<1>19. \A k \in 0..n : Begins(a[k].path, a[n].path)
  <2>1. n \in B
    <3> HIDE DEF B
    <3> QED
      BY <1>3, <1>18
  <2> HIDE DEF Begins
  <2> QED
    BY <1>3, <2>1
<1>20. \A k \in 0..n : Pub!Sibling(a[k].cur) \in Nat
  <2>1. TAKE k \in 0..n
  <2>2. a[k].cur \in Nat
    BY <1>8, <1>13 DEF Here
  <2>. DEFINE c == a[k].cur
  <2> HIDE DEF c
  <2>3. c \in Nat => Pub!Sibling(c) \in Nat
    BY DEF Pub!Sibling
  <2> QED
    BY <2>2, <2>3 DEF c
<1>21. Ascent(a, level, n)
  BY <1>13, <1>14, <1>19, <1>20 DEF Ascent, Up, Here
<1>22. a[0].cur = index /\ a[0].path = <<>>
  BY <1>4, <1>7
<1> QED
  BY <1>1, <1>21, <1>22 DEF n, level

-----------------------------------------------------------------------------
(* Climbing with a proof *)

\* f is the state of VerifyChunk after each level.
ClimbRounds(f, proof, start, n) == f = [i \in 0..n |-> IF i = 0 THEN start ELSE Pub!Climb(proof, f[i-1])]

\* The loop of VerifyChunk exists.
LEMMA ClimbLoop ==
  ASSUME NEW proof, NEW start, NEW n \in Nat
  PROVE  \E f : ClimbRounds(f, proof, start, n)
<1>. DEFINE A == {k \in Nat : \E f : ClimbRounds(f, proof, start, k)}
<1>1. 0 \in A
  <2>1. [i \in 0..0 |-> start] = [i \in 0..0 |-> IF i = 0 THEN start
          ELSE Pub!Climb(proof, [j \in 0..0 |-> start][i-1])]
    OBVIOUS
  <2> QED
    BY <2>1 DEF ClimbRounds
<1>2. ASSUME NEW k \in A PROVE k + 1 \in A
  <2>1. PICK f : f = [i \in 0..k |-> IF i = 0 THEN start ELSE Pub!Climb(proof, f[i-1])]
    BY <1>2 DEF ClimbRounds
  <2>. DEFINE h == [i \in 0..k+1 |-> IF i = k + 1 THEN Pub!Climb(proof, f[k]) ELSE f[i]]
  <2>2. ASSUME NEW i \in 0..k+1
        PROVE  h[i] = IF i = 0 THEN start ELSE Pub!Climb(proof, h[i-1])
    <3>1. CASE i = k + 1
      BY <3>1
    <3>2. CASE i # k + 1
      <4>1. i \in 0..k
        BY <3>2
      <4>2. f[i] = IF i = 0 THEN start ELSE Pub!Climb(proof, f[i-1])
        BY <2>1, <4>1
      <4>3. i # 0 => h[i-1] = f[i-1]
        BY <4>1
      <4> QED
        BY <4>1, <4>2, <4>3
    <3> QED
      BY <3>1, <3>2
  <2>3. h = [i \in 0..k+1 |-> IF i = 0 THEN start ELSE Pub!Climb(proof, h[i-1])]
    BY <2>2
  <2> HIDE DEF h
  <2> QED
    BY <2>3 DEF ClimbRounds
<1>3. A = Nat
  <2> HIDE DEF A
  <2> A \in SUBSET Nat
    BY DEF A
  <2> QED
    BY <1>1, <1>2, SetInduction
<1> QED
  BY <1>3

\* The fields of that state.
ClimbFields == {"node", "n", "cur", "used", "ok"}

\* It has them.
Climber(s) == s = [node |-> s.node, n |-> s.n, cur |-> s.cur, used |-> s.used, ok |-> s.ok] /\ s.ok \in BOOLEAN

\* What one round changes.
LEMMA Climbed ==
  ASSUME NEW proof, NEW s, Climber(s)
  PROVE  LET t == Pub!Climb(proof, s) IN
         /\ Climber(t) /\ (t.ok => s.ok)
         /\ s.ok /\ Pub!Sibling(s.cur) >= s.n =>
              t.ok /\ t.node = s.node /\ t.n = Pub!CeilDiv(s.n, 2) /\ t.cur = s.cur \div 2 /\ t.used = s.used
         /\ s.ok /\ ~(Pub!Sibling(s.cur) >= s.n) /\ s.used = Len(proof) => ~t.ok
         /\ s.ok /\ ~(Pub!Sibling(s.cur) >= s.n) /\ s.used # Len(proof) =>
              /\ t.ok /\ t.node = Pub!Join(s.node, proof[s.used + 1], s.cur)
              /\ t.n = Pub!CeilDiv(s.n, 2) /\ t.cur = s.cur \div 2 /\ t.used = s.used + 1
<1>. DEFINE t == Pub!Climb(proof, s)
            h == Pub!CeilDiv(s.n, 2)
            c == s.cur \div 2
            up == [s EXCEPT !.n = h, !.cur = c]
            node == Pub!Join(up.node, proof[s.used + 1], s.cur)
            used == up.used + 1
            far == [up EXCEPT !.node = node, !.used = used]
            no == FALSE
            so == s.ok
<1>1. t = IF ~s.ok THEN s
          ELSE IF Pub!Sibling(s.cur) >= s.n THEN up
          ELSE IF s.used = Len(proof) THEN [s EXCEPT !.ok = FALSE]
          ELSE far
  BY DEF Pub!Climb
<1>2. s = [node |-> s.node, n |-> s.n, cur |-> s.cur, used |-> s.used, ok |-> so] /\ so \in BOOLEAN
  BY DEF Climber
<1> HIDE DEF h, c, t, so
<1>3. /\ up.node = s.node /\ up.n = h /\ up.cur = c /\ up.used = s.used /\ up.ok = so
      /\ up = [k \in ClimbFields |-> up[k]]
  <2>1. up.node = s.node /\ up.n = h /\ up.cur = c /\ up.used = s.used
    BY <1>2
  <2>2. up.ok = so
    BY <1>2
  <2>3. up = [k \in ClimbFields |-> up[k]]
    BY <1>2 DEF ClimbFields
  <2> HIDE DEF up
  <2> QED
    BY <2>1, <2>2, <2>3
<1>4. s.ok = so
  BY DEF so
<1>5. CASE ~s.ok
  BY <1>1, <1>5 DEF t
<1>6. CASE s.ok /\ Pub!Sibling(s.cur) >= s.n
  <2>1. t = up
    BY <1>1, <1>6
  <2> HIDE DEF up
  <2>2. up = [node |-> up.node, n |-> up.n, cur |-> up.cur, used |-> up.used, ok |-> up.ok]
    BY <1>3 DEF ClimbFields
  <2>3. Climber(up)
    BY <1>2, <1>3, <2>2 DEF Climber
  <2> QED
    BY <1>3, <1>4, <1>6, <2>1, <2>3 DEF t, h, c
<1>7. CASE s.ok /\ ~(Pub!Sibling(s.cur) >= s.n) /\ s.used = Len(proof)
  <2>1. t = [s EXCEPT !.ok = no]
    BY <1>1, <1>7
  <2> HIDE DEF no
  <2>2. t = [node |-> s.node, n |-> s.n, cur |-> s.cur, used |-> s.used, ok |-> no]
    BY <1>2, <2>1
  <2>3. t.node = s.node /\ t.n = s.n /\ t.cur = s.cur /\ t.used = s.used /\ t.ok = no
    BY <2>2
  <2>4. Climber(t) /\ ~t.ok
    BY <2>2, <2>3 DEF Climber, no
  <2> QED
    BY <1>7, <2>4 DEF t
<1>8. CASE s.ok /\ ~(Pub!Sibling(s.cur) >= s.n) /\ s.used # Len(proof)
  <2>1. t = far
    BY <1>1, <1>8
  <2> HIDE DEF up, node, used
  <2>2. up = [node |-> up.node, n |-> up.n, cur |-> up.cur, used |-> up.used, ok |-> up.ok]
    BY <1>3 DEF ClimbFields
  <2>. DEFINE uo == up.ok
  <2>3. up = [node |-> up.node, n |-> up.n, cur |-> up.cur, used |-> up.used, ok |-> uo]
    BY <2>2
  <2> HIDE DEF uo
  <2>4. /\ far.node = node /\ far.n = up.n /\ far.cur = up.cur /\ far.used = used /\ far.ok = uo
        /\ far = [k \in ClimbFields |-> far[k]]
    <3>1. far.node = node /\ far.n = up.n /\ far.cur = up.cur /\ far.used = used
      BY <2>3
    <3>2. far.ok = uo
      BY <2>3
    <3>3. far = [k \in ClimbFields |-> far[k]]
      BY <2>3 DEF ClimbFields
    <3> HIDE DEF far
    <3> QED
      BY <3>1, <3>2, <3>3
  <2>5. far = [node |-> far.node, n |-> far.n, cur |-> far.cur, used |-> far.used, ok |-> far.ok]
    <3> HIDE DEF far
    <3> QED
      BY <2>4 DEF ClimbFields
  <2>6. uo = so
    BY <1>3 DEF uo
  <2> HIDE DEF far
  <2>7. Climber(far)
    BY <1>2, <2>4, <2>5, <2>6 DEF Climber
  <2>8. node = Pub!Join(s.node, proof[s.used + 1], s.cur) /\ used = s.used + 1
    BY <1>3 DEF node, used
  <2> QED
    BY <1>3, <1>4, <1>8, <2>1, <2>4, <2>6, <2>7, <2>8 DEF t, h, c
<1> QED
  BY <1>5, <1>6, <1>7, <1>8

\* Rounds that have not failed go up as a path does, whatever the proof holds.
Climbs(v, a, level, proof, n) ==
  /\ \A k \in 0..n : v[k].ok \in BOOLEAN /\ (v[k].ok => v[k].used = Len(a[k].path))
  /\ \A k \in 1..n :
       LET c == a[k-1].cur
           s == Pub!Sibling(c)
           p == a[k-1].path
       IN /\ v[k].ok => v[k-1].ok
          /\ v[k-1].ok /\ s < Len(level[k-1]) =>
               IF Len(p) = Len(proof) THEN ~v[k].ok
               ELSE v[k].ok /\ v[k].node = Pub!Join(v[k-1].node, proof[Len(p) + 1], c)
          /\ v[k-1].ok /\ ~(s < Len(level[k-1])) => v[k].ok /\ v[k].node = v[k-1].node

\* Those rounds are the ones of VerifyChunk, with this chunk and proof.
Verification(v, a, leaves, root, index, chunk, proof) ==
  LET n == Len(leaves) IN
  /\ Pub!VerifyChunk(root, n, index, chunk, proof) <=> v[n].ok /\ v[n].used = Len(proof) /\ v[n].node = root
  /\ v[0].node = Pub!Leaf(chunk) /\ v[0].ok
  /\ Climbs(v, a, Pub!Levels(leaves), proof, n)

\* VerifyChunk climbs where Path has ascended.
LEMMA VerifyClimbs ==
  ASSUME NEW leaves, Len(leaves) \in Nat, Len(leaves) >= 1, NEW root, NEW index \in 0..Len(leaves) - 1,
         NEW chunk, NEW proof,
         NEW a, a[0].cur = index, a[0].path = <<>>, Ascent(a, Pub!Levels(leaves), Len(leaves))
  PROVE  \E v : Verification(v, a, leaves, root, index, chunk, proof)
<1>. DEFINE n == Len(leaves)
            level == Pub!Levels(leaves)
            start == [node |-> Pub!Leaf(chunk), n |-> n, cur |-> index, used |-> 0, ok |-> TRUE]
            F(h) == ClimbRounds(h, proof, start, n)
            v == CHOOSE h : h = [k \in 0..n |->
                   IF k = 0 THEN [node |-> Pub!Leaf(chunk), n |-> n, cur |-> index, used |-> 0, ok |-> TRUE]
                   ELSE Pub!Climb(proof, h[k-1])]
<1>1. Pub!VerifyChunk(root, n, index, chunk, proof)
        <=> index < n /\ v[n].ok /\ v[n].used = Len(proof) /\ v[n].node = root
  BY DEF Pub!VerifyChunk
<1>2. v = CHOOSE h : F(h)
  BY DEF ClimbRounds
<1>3. n \in Nat /\ n >= 1 /\ index \in 0..n - 1
  OBVIOUS
<1>4. start.node = Pub!Leaf(chunk) /\ start.n = n /\ start.cur = index /\ start.used = 0 /\ start.ok
        /\ Climber(start)
  BY DEF Climber
<1>5. LevelsOf(level, leaves)
  BY LevelsHold
<1> HIDE DEF v, n, level, start
<1>6. F(v)
  <2>1. \E h : F(h)
    BY <1>3, ClimbLoop
  <2> HIDE DEF F
  <2> QED
    BY <1>2, <2>1
<1>7. v[0] = start /\ \A k \in 1..n : v[k] = Pub!Climb(proof, v[k-1])
  <2>1. 0 \in 0..n /\ \A k \in 1..n : k \in 0..n /\ k # 0
    BY <1>3
  <2> QED
    BY <1>6, <2>1 DEF ClimbRounds
<1>8. /\ level[0] = leaves /\ \A k \in 0..n : Len(level[k]) \in Nat
      /\ \A k \in 1..n : Len(level[k]) = Pub!CeilDiv(Len(level[k-1]), 2)
  BY <1>5 DEF LevelsOf, n
<1>9. /\ \A k \in 0..n : Pub!Sibling(a[k].cur) \in Nat /\ \E T : a[k].path \in Seq(T)
      /\ \A k \in 1..n :
           LET c == a[k-1].cur
               p == a[k-1].path
               q == a[k].path
           IN /\ a[k].cur = c \div 2
              /\ IF Pub!Sibling(c) < Len(level[k-1]) THEN Len(q) = Len(p) + 1 ELSE q = p
  BY DEF Ascent, n, level
<1>. DEFINE Here(k) == /\ Climber(v[k])
                       /\ v[k].ok => /\ v[k].used = Len(a[k].path)
                                     /\ v[k].n = Len(level[k]) /\ v[k].cur = a[k].cur
            Up(k) == LET c == a[k-1].cur
                         s == Pub!Sibling(c)
                         p == a[k-1].path
                     IN /\ v[k].ok => v[k-1].ok
                        /\ v[k-1].ok /\ s < Len(level[k-1]) =>
                             IF Len(p) = Len(proof) THEN ~v[k].ok
                             ELSE v[k].ok /\ v[k].node = Pub!Join(v[k-1].node, proof[Len(p) + 1], c)
                        /\ v[k-1].ok /\ ~(s < Len(level[k-1])) => v[k].ok /\ v[k].node = v[k-1].node
            A == {k \in 0..n : Here(k)}
<1>10. 0 \in A
  <2>1. Len(<<>>) = 0
    OBVIOUS
  <2> QED
    BY <1>3, <1>4, <1>7, <1>8, <2>1 DEF n
<1>11. ASSUME NEW k \in 1..n, Here(k-1) PROVE Here(k) /\ Up(k)
  <2>. DEFINE u == v[k-1]
              t == v[k]
              c == a[k-1].cur
              s == Pub!Sibling(c)
              p == a[k-1].path
              q == a[k].path
              m == Len(level[k-1])
  <2>1. k - 1 \in 0..n
    BY <1>3
  <2>2. /\ m \in Nat /\ s \in Nat /\ Len(level[k]) = Pub!CeilDiv(m, 2)
        /\ a[k].cur = c \div 2 /\ IF s < m THEN Len(q) = Len(p) + 1 ELSE q = p
    BY <1>8, <1>9, <2>1
  <2>3. /\ Climber(u) /\ (u.ok => u.used = Len(p) /\ u.n = m /\ u.cur = c) /\ t = Pub!Climb(proof, u)
    BY <1>7, <1>11
  <2> HIDE DEF u, t, c, p, q, m
  <2>4. /\ Climber(t) /\ (t.ok => u.ok)
        /\ u.ok /\ Pub!Sibling(u.cur) >= u.n =>
             t.ok /\ t.node = u.node /\ t.n = Pub!CeilDiv(u.n, 2) /\ t.cur = u.cur \div 2 /\ t.used = u.used
        /\ u.ok /\ ~(Pub!Sibling(u.cur) >= u.n) /\ u.used = Len(proof) => ~t.ok
        /\ u.ok /\ ~(Pub!Sibling(u.cur) >= u.n) /\ u.used # Len(proof) =>
             /\ t.ok /\ t.node = Pub!Join(u.node, proof[u.used + 1], u.cur)
             /\ t.n = Pub!CeilDiv(u.n, 2) /\ t.cur = u.cur \div 2 /\ t.used = u.used + 1
    BY <2>3, Climbed
  <2>5. s >= m <=> ~(s < m)
    BY <2>2
  <2>6. CASE ~u.ok
    BY <2>4, <2>6 DEF u, t
  <2>7. CASE u.ok /\ ~(s < m)
    <3>1. t.ok /\ t.node = u.node /\ t.n = Pub!CeilDiv(m, 2) /\ t.cur = c \div 2 /\ t.used = Len(p)
            /\ Climber(t)
      BY <2>3, <2>4, <2>5, <2>7
    <3> HIDE DEF s
    <3>2. t.used = Len(q) /\ t.n = Len(level[k]) /\ t.cur = a[k].cur
      BY <2>2, <2>7, <3>1
    <3> QED
      BY <2>7, <3>1, <3>2 DEF u, t, c, s, p, q, m
  <2>8. CASE u.ok /\ s < m /\ Len(p) = Len(proof)
    <3>1. ~t.ok /\ Climber(t)
      BY <2>3, <2>4, <2>5, <2>8
    <3> QED
      BY <2>8, <3>1 DEF u, t, c, s, p, q, m
  <2>9. CASE u.ok /\ s < m /\ Len(p) # Len(proof)
    <3>1. /\ t.ok /\ t.node = Pub!Join(u.node, proof[Len(p) + 1], c) /\ Climber(t)
          /\ t.n = Pub!CeilDiv(m, 2) /\ t.cur = c \div 2 /\ t.used = Len(p) + 1
      BY <2>3, <2>4, <2>5, <2>9
    <3> HIDE DEF s
    <3>2. t.used = Len(q) /\ t.n = Len(level[k]) /\ t.cur = a[k].cur
      BY <2>2, <2>9, <3>1
    <3> QED
      BY <2>9, <3>1, <3>2 DEF u, t, c, s, p, q, m
  <2> QED
    BY <2>6, <2>7, <2>8, <2>9
<1> HIDE DEF Up, Here
<1>12. ASSUME NEW k \in 1..n, k - 1 \in A PROVE k \in A
  BY <1>3, <1>11, <1>12
<1>13. \A k \in 0..n : k \in A
  <2> HIDE DEF A
  <2> QED
    BY <1>3, <1>10, <1>12, UpToInduction
<1>14. \A k \in 0..n : Here(k)
  BY <1>13
<1>15. \A k \in 1..n : Up(k)
  <2>1. \A k \in 1..n : k - 1 \in 0..n
    BY <1>3
  <2> QED
    BY <1>11, <1>14, <2>1
<1>16. \A k \in 0..n : v[k].ok \in BOOLEAN /\ (v[k].ok => v[k].used = Len(a[k].path))
  BY <1>14 DEF Here, Climber
<1>17. Climbs(v, a, level, proof, n)
  BY <1>15, <1>16 DEF Climbs, Up
<1>18. v[0].node = Pub!Leaf(chunk) /\ v[0].ok
  BY <1>4, <1>7
<1>19. index < n
  BY <1>3
<1> QED
  BY <1>1, <1>17, <1>18, <1>19 DEF n, level, Verification

\* Nodes that are equal were joined of the same.
LEMMA JoinsApart ==
  ASSUME NEW x, NEW y, NEW p, NEW q, NEW c, Pub!Join(x, p, c) = Pub!Join(y, q, c)
  PROVE  x = y /\ p = q
<1>1. \A l, r : Pub!Node(l, r).left = l /\ Pub!Node(l, r).right = r
  BY DEF Pub!Node
<1> QED
  BY <1>1 DEF Pub!Join

\* A chunk verifies in its own place with its own path, and nothing else does there.
LEMMA Verifies ==
  ASSUME NEW leaves, Len(leaves) \in Nat, Len(leaves) >= 1, NEW index \in 0..Len(leaves) - 1,
         NEW d, leaves[index + 1] = Pub!Leaf(d), NEW chunk, NEW T, NEW proof \in Seq(T)
  PROVE  Pub!VerifyChunk(Pub!Top(leaves), Len(leaves), index, chunk, proof)
           <=> chunk = d /\ proof = Pub!Path(leaves, index)
<1>. DEFINE n == Len(leaves)
            level == Pub!Levels(leaves)
            root == Pub!Top(leaves)
<1>1. PICK a : /\ Pub!Path(leaves, index) = a[n].path /\ a[0].cur = index /\ a[0].path = <<>>
               /\ Ascent(a, level, n)
  BY PathAscends
<1>2. PICK v : Verification(v, a, leaves, root, index, chunk, proof)
  BY <1>1, VerifyClimbs
<1>3. n \in Nat /\ n >= 1
  OBVIOUS
<1>4. root = level[n][1]
  BY DEF Pub!Top
<1>5. level[0] = leaves /\ Len(level[n]) = 1 /\ \A k \in 0..n : Len(level[k]) \in Nat
  BY LevelsHold DEF LevelsOf
<1>. DEFINE path(k) == a[k].path
            cur(k) == a[k].cur
            size(k) == Len(a[k].path)
            sib(k) == Pub!Sibling(a[k].cur)
            joined(k) == sib(k) < Len(level[k])
<1> HIDE DEF n, level, root
<1>6. \A k \in 0..n : /\ cur(k) \in 0..Len(level[k]) - 1 /\ size(k) \in Nat /\ DOMAIN path(k) = 1..size(k)
                      /\ size(k) <= size(n) /\ \A i \in 1..size(k) : path(n)[i] = path(k)[i]
  BY <1>1, LenProperties DEF Ascent
<1>7. \A k \in 1..n :
        /\ joined(k-1) =>
             /\ size(k) = size(k-1) + 1 /\ path(k)[size(k-1) + 1] = level[k-1][sib(k-1) + 1]
             /\ level[k][cur(k) + 1] = Pub!Join(level[k-1][cur(k-1) + 1], level[k-1][sib(k-1) + 1], cur(k-1))
        /\ ~joined(k-1) => size(k) = size(k-1) /\ level[k][cur(k) + 1] = level[k-1][cur(k-1) + 1]
  BY <1>1 DEF Ascent
<1>8. /\ \A k \in 0..n : v[k].ok \in BOOLEAN /\ (v[k].ok => v[k].used = size(k))
      /\ \A k \in 1..n :
           /\ v[k].ok => v[k-1].ok
           /\ v[k-1].ok /\ joined(k-1) =>
                IF size(k-1) = Len(proof) THEN ~v[k].ok
                ELSE v[k].ok /\ v[k].node = Pub!Join(v[k-1].node, proof[size(k-1) + 1], cur(k-1))
           /\ v[k-1].ok /\ ~joined(k-1) => v[k].ok /\ v[k].node = v[k-1].node
  <2>1. Climbs(v, a, level, proof, n)
    BY <1>2 DEF Verification, n, level
  <2> QED
    BY <2>1 DEF Climbs
<1>9. Len(proof) \in Nat /\ DOMAIN proof = 1..Len(proof) /\ proof = [i \in 1..Len(proof) |-> proof[i]]
  BY LenProperties
<1>10. /\ path(n) = [i \in 1..size(n) |-> path(n)[i]] /\ size(0) = 0 /\ cur(0) = index
       /\ n \in 0..n /\ 0 \in 0..n /\ cur(n) = 0
  <2>1. n \in 0..n /\ 0 \in 0..n
    BY <1>3
  <2>2. PICK U : a[n].path \in Seq(U)
    BY <1>1, <2>1 DEF Ascent
  <2>3. path(n) = [i \in 1..size(n) |-> path(n)[i]]
    BY <2>2, LenProperties
  <2>4. cur(n) = 0
    <3>1. cur(n) \in 0..Len(level[n]) - 1 /\ Len(level[n]) = 1
      BY <1>5, <1>6, <2>1
    <3> HIDE DEF cur
    <3> QED
      BY <3>1
  <2> QED
    BY <1>1, <2>1, <2>3, <2>4
<1> HIDE DEF path, cur, size, sib, joined
<1>11. ASSUME chunk = d, proof = path(n)
       PROVE  v[n].ok /\ v[n].used = Len(proof) /\ v[n].node = root
  <2>1. Len(proof) = size(n)
    BY <1>11 DEF path, size
  <2>. DEFINE A == {k \in 0..n : v[k].ok /\ v[k].node = level[k][cur(k) + 1]}
  <2>2. 0 \in A
    BY <1>2, <1>5, <1>10, <1>11 DEF Verification
  <2>3. ASSUME NEW k \in 1..n, k - 1 \in A PROVE k \in A
    <3>1. k \in 0..n /\ k - 1 \in 0..n
      BY <1>3
    <3>2. v[k-1].ok /\ v[k-1].node = level[k-1][cur(k-1) + 1]
      BY <2>3
    <3>3. CASE joined(k-1)
      <4>1. /\ size(k) = size(k-1) + 1 /\ path(k)[size(k-1) + 1] = level[k-1][sib(k-1) + 1]
            /\ level[k][cur(k) + 1] = Pub!Join(level[k-1][cur(k-1) + 1], level[k-1][sib(k-1) + 1], cur(k-1))
        BY <1>7, <3>3
      <4>2. size(k-1) \in Nat /\ size(k) \in Nat /\ size(n) \in Nat /\ size(k) <= size(n)
        BY <1>6, <1>10, <3>1
      <4>3. size(k-1) + 1 \in 1..size(k) /\ size(k-1) # Len(proof)
        BY <2>1, <4>1, <4>2
      <4>4. proof[size(k-1) + 1] = level[k-1][sib(k-1) + 1]
        BY <1>6, <1>11, <3>1, <4>1, <4>3
      <4>5. v[k].ok /\ v[k].node = Pub!Join(v[k-1].node, proof[size(k-1) + 1], cur(k-1))
        BY <1>8, <3>2, <3>3, <4>3
      <4> QED
        BY <3>1, <3>2, <4>1, <4>4, <4>5
    <3>4. CASE ~joined(k-1)
      BY <1>7, <1>8, <3>1, <3>2, <3>4
    <3> QED
      BY <3>3, <3>4
  <2>4. \A k \in 0..n : k \in A
    <3> HIDE DEF A
    <3> QED
      BY <1>3, <2>2, <2>3, UpToInduction
  <2>5. v[n].ok /\ v[n].node = level[n][cur(n) + 1]
    BY <1>10, <2>4
  <2> QED
    BY <1>4, <1>8, <1>10, <2>1, <2>5
<1>12. ASSUME v[n].ok, v[n].used = Len(proof), v[n].node = root
       PROVE  chunk = d /\ proof = path(n)
  <2>1. Len(proof) = size(n)
    BY <1>8, <1>10, <1>12
  \* Down from the root, i rounds.
  <2>. DEFINE Down(k) == /\ v[k].ok /\ v[k].node = level[k][cur(k) + 1]
                         /\ \A i \in 1..size(n) : i > size(k) => proof[i] = path(n)[i]
              A == {i \in 0..n : Down(n - i)}
  <2>2. 0 \in A
    <3>1. n - 0 = n
      BY <1>3
    <3>2. size(n) \in Nat
      BY <1>6, <1>10
    <3>3. \A i \in 1..size(n) : ~(i > size(n))
      BY <3>2
    <3>4. v[n].node = level[n][cur(n) + 1]
      BY <1>4, <1>10, <1>12
    <3> QED
      BY <1>10, <1>12, <3>1, <3>3, <3>4
  <2>3. ASSUME NEW j \in 1..n, j - 1 \in A PROVE j \in A
    <3>. DEFINE k == n - (j - 1)
    <3>1. k \in 1..n /\ n - j = k - 1 /\ k \in 0..n /\ k - 1 \in 0..n /\ j \in 0..n
      BY <1>3
    <3>2. Down(k)
      BY <2>3
    <3> HIDE DEF k
    <3>3. v[k-1].ok
      BY <1>8, <3>1, <3>2
    <3>4. size(k-1) \in Nat /\ size(k) \in Nat /\ size(n) \in Nat /\ size(k) <= size(n)
      BY <1>6, <1>10, <3>1
    <3>5. CASE joined(k-1)
      <4>1. /\ size(k) = size(k-1) + 1 /\ path(k)[size(k-1) + 1] = level[k-1][sib(k-1) + 1]
            /\ level[k][cur(k) + 1] = Pub!Join(level[k-1][cur(k-1) + 1], level[k-1][sib(k-1) + 1], cur(k-1))
        BY <1>7, <3>1, <3>5
      <4>2. v[k].node = Pub!Join(v[k-1].node, proof[size(k-1) + 1], cur(k-1))
        BY <1>8, <3>1, <3>2, <3>3, <3>5
      <4>3. v[k-1].node = level[k-1][cur(k-1) + 1] /\ proof[size(k-1) + 1] = level[k-1][sib(k-1) + 1]
        BY <3>2, <4>1, <4>2, JoinsApart
      <4>4. size(k-1) + 1 \in 1..size(k)
        BY <3>4, <4>1
      <4>5. proof[size(k)] = path(n)[size(k)]
        BY <1>6, <3>1, <4>1, <4>3, <4>4
      <4>6. \A i \in 1..size(n) : i > size(k-1) => i = size(k) \/ i > size(k)
        BY <3>4, <4>1
      <4>7. Down(k-1)
        BY <3>2, <3>3, <4>3, <4>5, <4>6
      <4> HIDE DEF Down
      <4> QED
        BY <3>1, <4>7
    <3>6. CASE ~joined(k-1)
      <4>1. size(k) = size(k-1) /\ level[k][cur(k) + 1] = level[k-1][cur(k-1) + 1] /\ v[k].node = v[k-1].node
        BY <1>7, <1>8, <3>1, <3>3, <3>6
      <4>2. Down(k-1)
        BY <3>2, <3>3, <4>1
      <4> HIDE DEF Down
      <4> QED
        BY <3>1, <4>2
    <3> QED
      BY <3>5, <3>6
  <2>4. \A i \in 0..n : i \in A
    <3> HIDE DEF A
    <3> QED
      BY <1>3, <2>2, <2>3, UpToInduction
  <2>5. Down(0)
    <3>1. n \in A /\ n - n = 0
      <4> HIDE DEF A
      <4> QED
        BY <1>3, <1>10, <2>4
    <3> HIDE DEF Down
    <3> QED
      BY <3>1
  <2>6. chunk = d
    <3>1. Pub!Leaf(chunk) = Pub!Leaf(d)
      BY <1>2, <1>5, <1>10, <2>5 DEF Verification
    <3> QED
      BY <3>1 DEF Pub!Leaf
  <2>7. \A i \in 1..size(n) : proof[i] = path(n)[i]
    <3>1. \A i \in 1..size(n) : i > size(0)
      BY <1>6, <1>10
    <3> QED
      BY <2>5, <3>1
  <2>8. proof = path(n)
    BY <1>9, <1>10, <2>1, <2>7
  <2> QED
    BY <2>6, <2>8
<1>13. Pub!Path(leaves, index) = path(n)
  BY <1>1 DEF path
<1> QED
  BY <1>2, <1>11, <1>12, <1>13 DEF n, root, Verification

\* The range of a chunk's bytes is served with the chunk.
LEMMA ServedChunk ==
  ASSUME NEW S, NEW b \in Seq(S), NEW i \in 0..ChunkCount(b) - 1
  PROVE  Pub!Serve(b, Pub!ByteRange(i * ChunkSize, (i + 1) * ChunkSize - 1))
           = [status |-> 206, body |-> Pub!Chunks(b)[i + 1]]
<1>. DEFINE n == ChunkCount(b)
            l == Len(b)
            first == i * ChunkSize
            next == (i + 1) * ChunkSize
            asked == Pub!ByteRange(first, next - 1)
<1>1. /\ n \in Nat /\ ChunkSize * n < l + ChunkSize /\ l \in Nat /\ ChunkSize \in Nat /\ ChunkSize > 0
      /\ Pub!Chunks(b) = [k \in 1..n |-> SubSeq(b, (k - 1) * ChunkSize + 1, Pub!Least(k * ChunkSize, l))]
  BY ChunksCounted, SizeAssumption, LenProperties
<1>2. i \in Nat /\ i + 1 \in 1..n /\ (i + 1) - 1 = i
  <2>1. n \in Nat /\ i \in 0..n - 1
    BY <1>1
  <2> HIDE DEF n
  <2> QED
    BY <2>1
<1>3. Pub!Chunks(b)[i + 1] = SubSeq(b, first + 1, Pub!Least(next, l))
  <2>. DEFINE C(k) == SubSeq(b, (k - 1) * ChunkSize + 1, Pub!Least(k * ChunkSize, l))
  <2>1. Pub!Chunks(b) = [k \in 1..n |-> C(k)]
    BY <1>1
  <2> HIDE DEF C
  <2>2. Pub!Chunks(b)[i + 1] = C(i + 1)
    BY <1>2, <2>1
  <2> QED
    BY <1>2, <2>2 DEF C
<1>4. asked.first = first /\ asked.last = next - 1 /\ DOMAIN asked = {"first", "last"}
  BY DEF Pub!ByteRange
<1>5. first \in Nat /\ next = first + ChunkSize
  BY <1>1, <1>2
<1>6. first < l
  <2>1. (i + 1) * ChunkSize <= n * ChunkSize
    <3>. DEFINE m == i + 1
    <3>1. m \in Nat /\ m <= n
      BY <1>1, <1>2
    <3> HIDE DEF m, n
    <3>2. m * ChunkSize <= n * ChunkSize
      BY <1>1, <3>1, Times
    <3> QED
      BY <3>2 DEF m
  <2>. DEFINE top == ChunkSize * n
  <2>2. n * ChunkSize = top /\ top \in Nat
    BY <1>1
  <2>3. next <= top /\ top < l + ChunkSize
    BY <1>1, <2>1, <2>2
  <2> HIDE DEF next, top, first, l
  <2> QED
    BY <1>1, <1>5, <2>2, <2>3
<1> HIDE DEF next, first, l, asked
<1>7. Pub!ParseRange(asked, l) = Pub!Done(Pub!ByteRange(first, Pub!Least(next - 1, l - 1)))
  <2>1. ~(first >= l \/ next - 1 < first)
    BY <1>1, <1>5, <1>6
  <2> QED
    BY <1>4, <2>1 DEF Pub!ParseRange, Pub!LastByte
<1>8. Pub!Least(next - 1, l - 1) + 1 = Pub!Least(next, l)
  BY <1>1, <1>5 DEF Pub!Least
<1>9. /\ Pub!ByteRange(first, Pub!Least(next - 1, l - 1)).first = first
      /\ Pub!ByteRange(first, Pub!Least(next - 1, l - 1)).last = Pub!Least(next - 1, l - 1)
  BY DEF Pub!ByteRange
<1>10. Pub!Serve(b, asked) = [status |-> 206, body |-> SubSeq(b, first + 1, Pub!Least(next, l))]
  <2>. DEFINE r == Pub!ParseRange(asked, l)
              whole == Pub!ByteRange(first, Pub!Least(next - 1, l - 1))
  <2>1. Pub!Serve(b, asked) = IF r.ok THEN [status |-> 206, body |-> SubSeq(b, r.is.first + 1, r.is.last + 1)]
                              ELSE [status |-> 416, body |-> <<>>]
    BY DEF Pub!Serve, l
  <2>2. r.ok /\ r.is = whole
    BY <1>7, DoneOrNot
  <2> HIDE DEF r, whole
  <2>3. whole.first = first /\ whole.last + 1 = Pub!Least(next, l)
    BY <1>8, <1>9 DEF whole
  <2> QED
    BY <2>1, <2>2, <2>3
<1> QED
  BY <1>3, <1>10 DEF asked, first, next

\* What the proofs of a blob's chunks do: each verifies its own chunk and no other.
LEMMA ProofsOfBlob ==
  ASSUME NEW S, NEW b \in Seq(S)
  PROVE  LET whole == Pub!FromBytes(b)
             n == ChunkCount(b)
             chunk == Pub!Chunks(b)
         IN /\ Len(whole.leaves) = n /\ ~Pub!ComputeChunkProof(b, n).ok
            /\ \A i \in 0..n - 1 :
                 /\ Pub!ComputeChunkProof(b, i).ok
                 /\ \A j \in 0..n - 1, c \in ToSet(chunk) :
                      Pub!VerifyChunk(Pub!Root(whole).is, n, j, c, Pub!ComputeChunkProof(b, i).is)
                        <=> c = chunk[j + 1] /\ Pub!ComputeChunkProof(b, i) = Pub!Prove(whole, j)
<1>. DEFINE whole == Pub!FromBytes(b)
            n == ChunkCount(b)
            chunk == Pub!Chunks(b)
            leaves == Pub!Leaves(chunk)
<1>1. n \in Nat /\ DOMAIN chunk = 1..n
  BY ChunksCounted
<1>2. whole.leaves = leaves
  BY DEF Pub!FromBytes, Pub!Tree
<1> HIDE DEF n, chunk
<1>3. Len(leaves) = n /\ (\A i \in 1..n : leaves[i] = Pub!Leaf(chunk[i])) /\ (leaves = <<>> <=> n = 0)
  BY <1>1, LeavesCounted
<1> HIDE DEF whole, leaves
<1>4. \A i : Pub!ComputeChunkProof(b, i) = IF i >= n THEN Pub!NotDone ELSE Pub!Prove(whole, i)
  BY DEF Pub!ComputeChunkProof, ChunkCount, n, whole
<1>5. \A i \in 0..n - 1 : ~(i >= n)
  BY <1>1
<1>6. \A i \in 0..n - 1 : Pub!Prove(whole, i) = Pub!Done(Pub!Path(leaves, i))
  BY <1>2, <1>3, <1>5 DEF Pub!Prove
<1>7. ~Pub!ComputeChunkProof(b, n).ok
  <2>1. n >= n
    BY <1>1
  <2> QED
    BY <1>4, <2>1, DoneOrNot
<1>8. ASSUME NEW i \in 0..n - 1 PROVE Pub!ComputeChunkProof(b, i) = Pub!Done(Pub!Path(leaves, i))
  BY <1>4, <1>5, <1>6
<1>9. ASSUME NEW i \in 0..n - 1, NEW j \in 0..n - 1, NEW c \in ToSet(chunk)
      PROVE  Pub!VerifyChunk(Pub!Root(whole).is, n, j, c, Pub!ComputeChunkProof(b, i).is)
               <=> c = chunk[j + 1] /\ Pub!ComputeChunkProof(b, i) = Pub!Prove(whole, j)
  <2>1. n >= 1 /\ j + 1 \in 1..n
    BY <1>1
  <2>2. Pub!Root(whole).is = Pub!Top(leaves)
    <3>1. leaves # <<>>
      BY <1>1, <1>3, <2>1
    <3> QED
      BY <1>2, <3>1, DoneOrNot DEF Pub!Root
  <2>. DEFINE proof == Pub!Path(leaves, i)
  <2>3. Pub!ComputeChunkProof(b, i) = Pub!Done(proof)
    BY <1>8
  <2>4. PICK T : proof \in Seq(T)
    <3>1. PICK a : proof = a[n].path /\ Ascent(a, Pub!Levels(leaves), n)
      <4>1. Len(leaves) \in Nat /\ Len(leaves) >= 1 /\ i \in 0..Len(leaves) - 1
        BY <1>1, <1>3, <2>1
      <4> QED
        BY <1>3, <4>1, PathAscends
    <3>2. n \in 0..n
      BY <1>1
    <3> HIDE DEF proof
    <3> QED
      BY <3>1, <3>2 DEF Ascent
  <2> HIDE DEF proof
  <2>5. Pub!VerifyChunk(Pub!Top(leaves), n, j, c, proof) <=> c = chunk[j + 1] /\ proof = Pub!Path(leaves, j)
    <3>1. Len(leaves) \in Nat /\ Len(leaves) >= 1 /\ j \in 0..Len(leaves) - 1
      BY <1>1, <1>3, <2>1
    <3>2. leaves[j + 1] = Pub!Leaf(chunk[j + 1])
      BY <1>3, <2>1
    <3>3. Pub!VerifyChunk(Pub!Top(leaves), Len(leaves), j, c, proof)
            <=> c = chunk[j + 1] /\ proof = Pub!Path(leaves, j)
      BY <2>4, <3>1, <3>2, Verifies
    <3> QED
      BY <1>3, <3>3
  <2>6. Pub!Done(proof) = Pub!Prove(whole, j) <=> proof = Pub!Path(leaves, j)
    BY <1>6, DoneOrNot
  <2>7. Pub!Done(proof).is = proof
    BY DoneOrNot
  <2> QED
    BY <2>2, <2>3, <2>5, <2>6, <2>7
<1>10. \A i \in 0..n - 1 : Pub!ComputeChunkProof(b, i).ok
  BY <1>8, DoneOrNot
<1> QED
  BY <1>2, <1>3, <1>7, <1>9, <1>10 DEF whole, n, chunk

\* However a reader's calls cut a blob, its id, size and tree are those of the whole, or
\* an error; each chunk served by range verifies with the proof served for it, and
\* nothing else verifies in its place.
THEOREM BlobsVerified == DocSpec => []BlobsVerify
<1>1. BlobInv => BlobsVerify
  <2>1. SUFFICES ASSUME BlobInv, doc.of = "blob" PROVE BlobsVerify
    BY DEF BlobsVerify
  <2>. DEFINE b == doc.bytes
              r == Pub!Reader(b, doc.cuts, doc.broken)
              whole == Pub!FromBytes(b)
              n == Len(whole.leaves)
              chunk == Pub!Chunks(b)
              Served(i) == Pub!Serve(b, Pub!ByteRange(i * ChunkSize, (i + 1) * ChunkSize - 1))
  <2>2. b \in Seq(Nat) /\ doc.cuts \subseteq Nat /\ doc.broken \in BOOLEAN
    BY <2>1 DEF BlobInv
  <2>3. /\ doc.broken => ~Pub!Build(r).ok /\ ~Pub!HashStream(r).ok
        /\ ~doc.broken => /\ Pub!Build(r) = Pub!Done(whole)
                          /\ Pub!HashStream(r) = Pub!Done([id |-> b, size |-> Len(b)])
    BY <2>2, ReadsWhole
  <2>4. n = ChunkCount(b)
    BY <2>2, ProofsOfBlob
  <2>5. ~Pub!ComputeChunkProof(b, n).ok
    BY <2>2, <2>4, ProofsOfBlob
  <2>6. ASSUME NEW i \in 0..n - 1
        PROVE  LET proof == Pub!ComputeChunkProof(b, i) IN
               /\ proof.ok /\ Served(i) = [status |-> 206, body |-> chunk[i + 1]]
               /\ \A j \in 0..n - 1 : \A c \in ToSet(chunk) :
                    Pub!VerifyChunk(Pub!Root(whole).is, n, j, c, proof.is)
                      <=> c = chunk[j + 1] /\ proof = Pub!Prove(whole, j)
    <3>1. i \in 0..ChunkCount(b) - 1
      BY <2>4
    <3>2. Served(i) = [status |-> 206, body |-> chunk[i + 1]]
      BY <2>2, <3>1, ServedChunk
    <3>3. /\ Pub!ComputeChunkProof(b, i).ok
          /\ \A j \in 0..ChunkCount(b) - 1, c \in ToSet(chunk) :
               Pub!VerifyChunk(Pub!Root(whole).is, ChunkCount(b), j, c, Pub!ComputeChunkProof(b, i).is)
                 <=> c = chunk[j + 1] /\ Pub!ComputeChunkProof(b, i) = Pub!Prove(whole, j)
      BY <2>2, <3>1, ProofsOfBlob
    <3> HIDE DEF n
    <3> QED
      BY <2>4, <3>2, <3>3
  <2> QED
    BY <2>3, <2>5, <2>6 DEF BlobsVerify
<1> QED
  BY <1>1, BlobInvariant, PTL

-----------------------------------------------------------------------------
(* Writing what was read *)

\* The shapes with nothing inside that is read: they are written as they are.
PlainShapes == {"text", "https", "uint", "int", "bool", "octets", "hash", "proof", "anymap"}
\* The tables of maps inside.
Submaps     == {"Sponsor", "Encryption", "Media", "Rendition", "Caption", "Claimant"}

\* Which shapes a table is made of: at most one element of a tuple may be missing, the
\* list is what may be empty, and the flag what may be false.
Flat(s) ==
  s.shape = "tuple" => /\ \A i \in DOMAIN s.items : s.items[i].shape \in PlainShapes
                       /\ \E i : s.optional \subseteq {i}
\* What an item of a list may be.
Single(s) == Flat(s) /\ (s.shape = "submap" => s.table \in Submaps)
\* What a field may be.
Proper(s) == Single(s) /\ (s.shape = "list" => Single(s.item) /\ s.least \in Nat)
\* A field is left out only where it reads the same: an empty list, a flag that is false.
FieldOk(f) == /\ Proper(f.as)
              /\ f.when = "nonempty" => f.as.shape = "list"
              /\ f.when = "true" => f.as.shape = "bool"
\* The tables of kinds have such fields.
TableOk(table) == \A k \in DOMAIN table : FieldOk(table[k])
\* The tables of maps inside have fields that are written when they are there.
SubOk(table) == \A k \in DOMAIN table : table[k].when \in {"always", "present"} /\ Flat(table[k].as)

\* A null has no plain shape.
LEMMA NullUnfit == \A s : s.shape \in PlainShapes => ~Kinds!FitsPlain(s, Kinds!Null)
<1>. SUFFICES ASSUME NEW s, s.shape \in PlainShapes, Kinds!FitsPlain(s, Kinds!Null) PROVE FALSE
  OBVIOUS
<1>. DEFINE null == Kinds!Null
<1>1. null.type = "null"
  BY DEF Kinds!Null
<1> HIDE DEF null
<1>2. Kinds!FitsPlain(s, null)
  BY DEF null
<1>3. CASE s.shape = "text"
  BY <1>1, <1>2, <1>3 DEF Kinds!FitsPlain
<1>4. CASE s.shape = "https"
  BY <1>1, <1>2, <1>4 DEF Kinds!FitsPlain
<1>5. CASE s.shape = "uint"
  BY <1>1, <1>2, <1>5 DEF Kinds!FitsPlain
<1>6. CASE s.shape = "int"
  BY <1>1, <1>2, <1>6 DEF Kinds!FitsPlain
<1>7. CASE s.shape = "bool"
  BY <1>1, <1>2, <1>7 DEF Kinds!FitsPlain
<1>8. CASE s.shape = "octets"
  BY <1>1, <1>2, <1>8 DEF Kinds!FitsPlain
<1>9. CASE s.shape = "hash"
  BY <1>1, <1>2, <1>9 DEF Kinds!FitsPlain
<1>10. CASE s.shape = "proof"
  BY <1>1, <1>2, <1>10 DEF Kinds!FitsPlain
<1>11. CASE s.shape = "anymap"
  BY <1>1, <1>2, <1>11 DEF Kinds!FitsPlain
<1> QED
  BY <1>3, <1>4, <1>5, <1>6, <1>7, <1>8, <1>9, <1>10, <1>11 DEF PlainShapes

\* A list and a map have their elements, and neither is a null.
LEMMA Boxed ==
  \A x : /\ Kinds!Array(x).type = "array" /\ Kinds!Array(x).of = x /\ Kinds!Array(x) # Kinds!Null
         /\ Kinds!Map(x).type = "map" /\ Kinds!Map(x).of = x /\ Kinds!Map(x) # Kinds!Null
<1>1. Kinds!Null.type = "null"
  BY DEF Kinds!Null
<1> QED
  BY <1>1 DEF Kinds!Array, Kinds!Map

\* What is written of a plain value or a tuple fits as it did, and is written the same.
LEMMA FlatStays ==
  ASSUME NEW s, Flat(s), NEW v, Kinds!FitsFlat(s, v)
  PROVE  LET w == Kinds!RewriteFlat(s, v) IN
         /\ Kinds!FitsFlat(s, w) /\ Kinds!RewriteFlat(s, w) = w /\ (v # Kinds!Null => w # Kinds!Null)
<1>. DEFINE w == Kinds!RewriteFlat(s, v)
<1>1. CASE s.shape # "tuple"
  BY <1>1 DEF Kinds!RewriteFlat
<1>2. CASE s.shape = "tuple"
  <2>. DEFINE I == {j \in DOMAIN v.of : v.of[j] # Kinds!Null}
              f == [i \in I |-> v.of[i]]
  <2>1. w = Kinds!Array(f)
    BY <1>2 DEF Kinds!RewriteFlat
  <2>2. /\ DOMAIN v.of = DOMAIN s.items \/ DOMAIN v.of = DOMAIN s.items \ s.optional
        /\ \A i \in DOMAIN v.of : (i \in s.optional
             /\ v.of[i] = Kinds!Null) \/ Kinds!FitsPlain(s.items[i], v.of[i])
    BY <1>2 DEF Kinds!FitsFlat
  <2>3. \A i \in DOMAIN s.items : ~Kinds!FitsPlain(s.items[i], Kinds!Null)
    BY <1>2, NullUnfit DEF Flat
  <2>4. PICK last : s.optional \subseteq {last}
    BY <1>2 DEF Flat
  <2>5. I = DOMAIN s.items \/ I = DOMAIN s.items \ s.optional
    <3>1. \A i \in DOMAIN v.of \ I : i \in s.optional
      BY <2>2, <2>3
    <3>2. I \subseteq DOMAIN v.of
      OBVIOUS
    <3> HIDE DEF I
    <3> QED
      BY <2>2, <2>4, <3>1, <3>2
  <2>6. \A i \in I : f[i] # Kinds!Null /\ Kinds!FitsPlain(s.items[i], f[i])
    BY <2>2
  <2>7. DOMAIN f = I /\ f = [i \in {j \in DOMAIN f : f[j] # Kinds!Null} |-> f[i]]
    BY <2>6
  <2> HIDE DEF I, f, w
  <2>8. w.type = "array" /\ w.of = f
    BY <2>1, Boxed
  <2>9. Kinds!FitsFlat(s, w)
    BY <1>2, <2>5, <2>6, <2>7, <2>8 DEF Kinds!FitsFlat
  <2>10. Kinds!RewriteFlat(s, w) = w
    BY <1>2, <2>1, <2>7, <2>8 DEF Kinds!RewriteFlat
  <2> QED
    BY <2>1, <2>9, <2>10, Boxed DEF w
<1> QED
  BY <1>1, <1>2

\* A key is written or not by what it is read as, for the fields of a submap.
LEMMA SubWritten ==
  ASSUME NEW table, SubOk(table)
  PROVE  \A m : Kinds!WrittenKeys(table, m) = DOMAIN table \cap DOMAIN m
BY DEF SubOk, Kinds!WrittenKeys, Kinds!Written, Kinds!Has

\* Every way to read a plain value or a tuple is one of those.
LEMMA FlatShapes ==
  /\ \A l, m : Kinds!TextOf(l, m).shape = "text"
  /\ Kinds!AnyText.shape = "text" /\ Kinds!Filled.shape = "text" /\ Kinds!License.shape = "text"
  /\ Kinds!HttpsOrigin.shape = "https" /\ Kinds!Unsigned.shape = "uint" /\ Kinds!Signed.shape = "int"
  /\ Kinds!Flag.shape = "bool" /\ Kinds!Octets.shape = "octets" /\ Kinds!Hash32.shape = "hash"
  /\ Kinds!AnchorProof.shape = "proof" /\ Kinds!AnyMap.shape = "anymap" /\ Kinds!RefType.shape = "uint"
BY DEF Kinds!TextOf, Kinds!AnyText, Kinds!Filled, Kinds!License, Kinds!HttpsOrigin, Kinds!Unsigned,
       Kinds!Signed, Kinds!Flag, Kinds!Octets, Kinds!Hash32, Kinds!AnchorProof, Kinds!AnyMap, Kinds!RefType

\* How a key is read is what its field says.
LEMMA Fields ==
  \A s : /\ Kinds!Required(s).as = s /\ Kinds!Required(s).when = "always"
         /\ Kinds!Optional(s).as = s /\ Kinds!Optional(s).when = "present"
         /\ Kinds!Nullable(s).as = s /\ Kinds!Nullable(s).when = "notnull"
         /\ Kinds!Default(s).as = s /\ Kinds!Default(s).when = "true"
         /\ Kinds!Listed(s).as = Kinds!Many(s) /\ Kinds!Listed(s).when = "nonempty"
BY DEF Kinds!Required, Kinds!Optional, Kinds!Nullable, Kinds!Default, Kinds!Listed

\* A tuple of plain values is one, whatever it has.
LEMMA Tuples ==
  ASSUME NEW items, \A i \in DOMAIN items : items[i].shape \in PlainShapes
  PROVE  Flat(Kinds!TupleOf(items)) /\ Kinds!TupleOf(items).shape = "tuple"
<1>1. /\ Kinds!TupleOf(items).items = items /\ Kinds!TupleOf(items).optional = {}
      /\ Kinds!TupleOf(items).shape = "tuple"
  BY DEF Kinds!TupleOf
<1> QED
  BY <1>1 DEF Flat

\* The producer of a rendition is a tuple of plain values.
LEMMA ProducerFlat == Flat(Kinds!TupleOf(<<Kinds!Hash32, Kinds!Octets>>))
<1>. DEFINE items == <<Kinds!Hash32, Kinds!Octets>>
<1>1. \A i \in DOMAIN items : items[i].shape \in PlainShapes
  BY FlatShapes DEF PlainShapes
<1> HIDE DEF items
<1>2. Flat(Kinds!TupleOf(items))
  BY <1>1, Tuples
<1> QED
  BY <1>2 DEF items

\* What the tables of submaps are, by their name.
LEMMA SubTables ==
  /\ Kinds!SubTable("Sponsor") = Kinds!Sponsor /\ Kinds!SubTable("Encryption") = Kinds!Encryption
  /\ Kinds!SubTable("Media") = Kinds!Media /\ Kinds!SubTable("Rendition") = Kinds!Rendition
  /\ Kinds!SubTable("Caption") = Kinds!Caption /\ Kinds!SubTable("Claimant") = Kinds!Claimant
BY DEF Kinds!SubTable

\* The tables of submaps have plain fields and tuples, no lists and no flags.
LEMMA SubTablesOk == \A name \in Submaps : SubOk(Kinds!SubTable(name))
<1>. DEFINE Sub(f) == f.when \in {"always", "present"} /\ Flat(f.as)
            textual == \A l, m : Sub(Kinds!Required(Kinds!TextOf(l, m)))
              /\ Sub(Kinds!Optional(Kinds!TextOf(l, m)))
            plain == \A s \in {Kinds!AnyText, Kinds!Filled, Kinds!Unsigned, Kinds!Octets, Kinds!Hash32,
                               Kinds!TupleOf(<<Kinds!Hash32, Kinds!Octets>>)} :
                       Sub(Kinds!Required(s)) /\ Sub(Kinds!Optional(s))
<1>1. \A s : s.shape # "tuple" => Sub(Kinds!Required(s)) /\ Sub(Kinds!Optional(s))
  BY Fields DEF Flat
<1>2. textual
  BY <1>1, FlatShapes
<1>3. plain
  BY <1>1, FlatShapes, Fields, ProducerFlat
<1> HIDE DEF Sub, textual, plain
<1>4. \A k \in DOMAIN Kinds!Sponsor : Sub(Kinds!Sponsor[k])
  BY <1>3 DEF Kinds!Sponsor, plain
<1>5. \A k \in DOMAIN Kinds!Encryption : Sub(Kinds!Encryption[k])
  BY <1>3 DEF Kinds!Encryption, plain
<1>6. \A k \in DOMAIN Kinds!Media : Sub(Kinds!Media[k])
  BY <1>2, <1>3 DEF Kinds!Media, plain, textual
<1>7. \A k \in DOMAIN Kinds!Rendition : Sub(Kinds!Rendition[k])
  <2>. DEFINE more == [bitrate |-> Kinds!Required(Kinds!Unsigned),
                       produced_by |-> Kinds!Required(Kinds!TupleOf(<<Kinds!Hash32, Kinds!Octets>>)),
                       derivation_sig |-> Kinds!Required(Kinds!Octets)]
  <2>1. \A k \in DOMAIN more : Sub(more[k])
    BY <1>3 DEF plain
  <2>2. Kinds!Rendition = Kinds!With(Kinds!Media, more)
    BY DEF Kinds!Rendition
  <2> HIDE DEF more
  <2> QED
    BY <1>6, <2>1, <2>2 DEF Kinds!With
<1>8. \A k \in DOMAIN Kinds!Caption : Sub(Kinds!Caption[k])
  BY <1>2, <1>3 DEF Kinds!Caption, plain, textual
<1>9. \A k \in DOMAIN Kinds!Claimant : Sub(Kinds!Claimant[k])
  BY <1>3 DEF Kinds!Claimant, plain
<1>10. \A table : (\A k \in DOMAIN table : Sub(table[k])) => SubOk(table)
  BY DEF SubOk, Sub
<1> QED
  BY <1>4, <1>5, <1>6, <1>7, <1>8, <1>9, <1>10, SubTables DEF Submaps

\* The keys of media that are related to each other.
LEMMA MediaKeys ==
  \A name \in {"Media", "Rendition"} :
    /\ {"size", "width", "height", "chunk_root"} \subseteq DOMAIN Kinds!SubTable(name)
    /\ Kinds!SubTable(name)["size"] = Kinds!Required(Kinds!Unsigned)
<1>1. /\ {"size", "width", "height", "chunk_root", "wrapped_key"} \subseteq DOMAIN Kinds!Media
      /\ Kinds!Media["size"] = Kinds!Required(Kinds!Unsigned)
  BY DEF Kinds!Media
<1>2. /\ {"size", "width", "height", "chunk_root"} \subseteq DOMAIN Kinds!Rendition
      /\ Kinds!Rendition["size"] = Kinds!Required(Kinds!Unsigned)
  <2>. DEFINE more == [bitrate |-> Kinds!Required(Kinds!Unsigned),
                       produced_by |-> Kinds!Required(Kinds!TupleOf(<<Kinds!Hash32, Kinds!Octets>>)),
                       derivation_sig |-> Kinds!Required(Kinds!Octets)]
  <2>1. "size" \notin DOMAIN more
    OBVIOUS
  <2>2. Kinds!Rendition = Kinds!With(Kinds!Media, more)
    BY DEF Kinds!Rendition
  <2> HIDE DEF more
  <2> QED
    BY <1>1, <2>1, <2>2 DEF Kinds!With
<1> QED
  BY <1>1, <1>2, SubTables

\* The key of a blob is plain where it is read.
LEMMA WrappedKeys ==
  \A name \in {"Media", "Rendition", "Caption"} :
    /\ "wrapped_key" \in DOMAIN Kinds!SubTable(name)
    /\ Kinds!SubTable(name)["wrapped_key"] = Kinds!Optional(Kinds!Octets)
<1>1. "wrapped_key" \in DOMAIN Kinds!Media /\ Kinds!Media["wrapped_key"] = Kinds!Optional(Kinds!Octets)
  BY DEF Kinds!Media
<1>2. "wrapped_key" \in DOMAIN Kinds!Caption /\ Kinds!Caption["wrapped_key"] = Kinds!Optional(Kinds!Octets)
  BY DEF Kinds!Caption
<1>3. "wrapped_key" \in DOMAIN Kinds!Rendition /\ Kinds!Rendition["wrapped_key"] = Kinds!Optional(Kinds!Octets)
  <2>. DEFINE more == [bitrate |-> Kinds!Required(Kinds!Unsigned),
                       produced_by |-> Kinds!Required(Kinds!TupleOf(<<Kinds!Hash32, Kinds!Octets>>)),
                       derivation_sig |-> Kinds!Required(Kinds!Octets)]
  <2>1. "wrapped_key" \notin DOMAIN more
    OBVIOUS
  <2>2. Kinds!Rendition = Kinds!With(Kinds!Media, more)
    BY DEF Kinds!Rendition
  <2> HIDE DEF more
  <2> QED
    BY <1>1, <2>1, <2>2 DEF Kinds!With
<1> QED
  BY <1>1, <1>2, <1>3, SubTables

\* What is written of a map inside fits as it did, and is written the same.
LEMMA SubStays ==
  ASSUME NEW s, s.shape = "submap", s.table \in Submaps, NEW v, Kinds!FitsItem(s, v)
  PROVE  LET w == Kinds!RewriteItem(s, v) IN
         Kinds!FitsItem(s, w) /\ Kinds!RewriteItem(s, w) = w /\ w # Kinds!Null
<1>. DEFINE table == Kinds!SubTable(s.table)
            m == v.of
            keys == DOMAIN table \cap DOMAIN m
            f == [k \in keys |-> Kinds!RewriteFlat(table[k].as, m[k])]
            w == Kinds!RewriteItem(s, v)
            Fit(x) == {k \in DOMAIN table \cap DOMAIN x : Kinds!FitsFlat(table[k].as, x[k])}
            Same(x) == [k \in DOMAIN table \cap DOMAIN x |-> Kinds!RewriteFlat(table[k].as, x[k])]
<1>1. SubOk(table)
  BY SubTablesOk
<1>2. /\ v.type = "map" /\ Kinds!SubConsistent(s.table, m)
      /\ Kinds!ReadsAs(table, m, Fit(m))
  BY DEF Kinds!FitsItem
<1>3. \A x : Kinds!WrittenKeys(table, x) = DOMAIN table \cap DOMAIN x
  BY <1>1, SubWritten
<1>4. \A x : Kinds!RewriteItem(s, x) = Kinds!Map(Same(x.of))
  BY <1>3 DEF Kinds!RewriteItem
<1>5. w = Kinds!Map(f)
  BY <1>4
<1> HIDE DEF table, m, w
<1>6. \A k \in DOMAIN table :
        /\ k \in DOMAIN m => k \in Fit(m)
        /\ k \notin DOMAIN m => table[k].when # "always"
  BY <1>1, <1>2 DEF Kinds!ReadsAs, Kinds!Has, SubOk
<1>7. ASSUME NEW k \in keys
      PROVE  Kinds!FitsFlat(table[k].as, f[k]) /\ Kinds!RewriteFlat(table[k].as, f[k]) = f[k]
  <2>1. Kinds!FitsFlat(table[k].as, m[k]) /\ Flat(table[k].as)
    BY <1>1, <1>6 DEF SubOk
  <2> QED
    BY <2>1, FlatStays
<1>8. DOMAIN f = keys /\ \A k \in keys : f[k] = Kinds!RewriteFlat(table[k].as, m[k])
  OBVIOUS
<1>9. Same(f) = f
  BY <1>7
<1> HIDE DEF f, Same
<1>10. Kinds!ReadsAs(table, f, Fit(f))
  BY <1>6, <1>7, <1>8 DEF Kinds!ReadsAs, Kinds!Has
<1>11. Kinds!SubConsistent(s.table, f)
  <2>1. SUFFICES ASSUME s.table \in {"Media", "Rendition"}
                 PROVE  /\ Kinds!Has(f, "width") <=> Kinds!Has(f, "height")
                        /\ f.size.is > Kinds!OneMiB => Kinds!Has(f, "chunk_root")
    BY DEF Kinds!SubConsistent
  <2>2. /\ {"size", "width", "height", "chunk_root"} \subseteq DOMAIN table
        /\ table["size"] = Kinds!Required(Kinds!Unsigned)
    BY <2>1, MediaKeys DEF table
  <2>3. /\ Kinds!Has(m, "width") <=> Kinds!Has(m, "height")
        /\ m.size.is > Kinds!OneMiB => Kinds!Has(m, "chunk_root")
    BY <1>2, <2>1 DEF Kinds!SubConsistent
  <2>4. "size" \in keys
    BY <1>6, <2>2, Fields
  <2>5. f["size"] = m["size"]
    <3>1. table["size"].as.shape = "uint"
      BY <2>2, Fields, FlatShapes
    <3>2. \A u : Kinds!RewriteFlat(table["size"].as, u) = u
      BY <3>1 DEF Kinds!RewriteFlat
    <3> QED
      BY <1>8, <2>4, <3>2
  <2> QED
    BY <1>8, <2>2, <2>3, <2>5 DEF Kinds!Has
<1>12. w.type = "map" /\ w.of = f
  BY <1>5, Boxed
<1>13. Kinds!FitsItem(s, w)
  BY <1>10, <1>11, <1>12 DEF Kinds!FitsItem, table
<1>14. Kinds!RewriteItem(s, w) = w
  BY <1>4, <1>5, <1>9, <1>12
<1> QED
  BY <1>5, <1>13, <1>14, Boxed DEF w

\* So is what is written of an item.
LEMMA ItemStays ==
  ASSUME NEW s, Single(s), NEW v, Kinds!FitsItem(s, v)
  PROVE  LET w == Kinds!RewriteItem(s, v) IN
         /\ Kinds!FitsItem(s, w) /\ Kinds!RewriteItem(s, w) = w /\ (v # Kinds!Null => w # Kinds!Null)
<1>1. CASE s.shape = "submap"
  BY <1>1, SubStays DEF Single
<1>2. CASE s.shape # "submap"
  BY <1>2, FlatStays DEF Single, Kinds!FitsItem, Kinds!RewriteItem
<1> QED
  BY <1>1, <1>2

\* What is written of a field fits as it did, and is written the same; a list is not
\* empty where it was not.
LEMMA ShapeStays ==
  ASSUME NEW s, Proper(s), NEW v, Kinds!Fits(s, v), s.shape = "list" => IsFcn(v.of)
  PROVE  LET w == Kinds!Rewrite(s, v) IN
         /\ Kinds!Fits(s, w) /\ Kinds!Rewrite(s, w) = w /\ (v # Kinds!Null => w # Kinds!Null)
         /\ s.shape = "list" /\ v.of # <<>> => w.of # <<>>
<1>. DEFINE w == Kinds!Rewrite(s, v)
<1>1. CASE s.shape # "list"
  BY <1>1, ItemStays DEF Proper, Kinds!Fits, Kinds!Rewrite
<1>2. CASE s.shape = "list"
  <2>. DEFINE n == Len(v.of)
              f == [i \in DOMAIN v.of |-> Kinds!RewriteItem(s.item, v.of[i])]
              T == {f[i] : i \in 1..n}
  <2>1. /\ v.type = "array" /\ DOMAIN v.of = 1..n /\ n \in s.least..s.most
        /\ \A i \in DOMAIN v.of : Kinds!FitsItem(s.item, v.of[i])
    BY <1>2 DEF Kinds!Fits
  <2>2. w = Kinds!Array(f)
    BY <1>2 DEF Kinds!Rewrite
  <2>3. w.type = "array" /\ w.of = f /\ w # Kinds!Null
    <3> HIDE DEF f, w
    <3> QED
      BY <2>2, Boxed
  <2>4. DOMAIN f = 1..n /\ \A i \in 1..n : f[i] = Kinds!RewriteItem(s.item, v.of[i])
    BY <2>1
  <2>5. ASSUME NEW i \in 1..n
        PROVE  Kinds!FitsItem(s.item, f[i]) /\ Kinds!RewriteItem(s.item, f[i]) = f[i]
    BY <1>2, <2>1, <2>4, ItemStays DEF Proper
  <2>6. n \in Nat
    <3>1. s.least \in Nat
      BY <1>2 DEF Proper
    <3> HIDE DEF n
    <3> QED
      BY <2>1, <3>1
  <2>7. f = [i \in 1..n |-> f[i]]
    BY <2>1
  <2> HIDE DEF f, w, n
  <2>8. f \in [1..n -> T]
    BY <2>7
  <2>9. Len(f) = n /\ (f = <<>> => n = 0)
    <3>1. f \in Seq(T) /\ Len(f) = n
      <4> HIDE DEF T
      <4> QED
        BY <2>6, <2>8
    <3> QED
      BY <3>1, EmptySeq
  <2>10. Kinds!Fits(s, w)
    BY <1>2, <2>1, <2>3, <2>4, <2>5, <2>9 DEF Kinds!Fits
  <2>11. Kinds!Rewrite(s, w) = w
    <3>1. Kinds!Rewrite(s, w) = Kinds!Array([i \in DOMAIN f |-> Kinds!RewriteItem(s.item, f[i])])
      BY <1>2, <2>3 DEF Kinds!Rewrite
    <3>2. [i \in DOMAIN f |-> Kinds!RewriteItem(s.item, f[i])] = f
      BY <2>4, <2>5, <2>7
    <3> QED
      BY <2>2, <3>1, <3>2
  <2>12. v.of # <<>> => f # <<>>
    <3>1. ASSUME n = 0 PROVE v.of = <<>>
      BY <1>2, <2>1, <3>1 DEF IsFcn
    <3> QED
      BY <2>9, <3>1
  <2> QED
    BY <2>3, <2>10, <2>11, <2>12 DEF w
<1> QED
  BY <1>1, <1>2

\* The value of key k is read: it fits, or is a null where that is none.
Reads(field, m, k) == (field.when = "notnull" /\ m[k] = Kinds!Null) \/ Kinds!Fits(field.as, m[k])

\* A table is read key by key.
LEMMA ReadsEach ==
  ASSUME NEW table, NEW m
  PROVE  Kinds!FitsTable(table, m) <=>
           \A k \in DOMAIN table : IF k \in DOMAIN m THEN Reads(table[k], m, k) ELSE table[k].when # "always"
BY DEF Kinds!FitsTable, Kinds!ReadsAs, Kinds!Has, Reads

\* A flag that is not written is false.
LEMMA FlagsFalse ==
  ASSUME NEW v, v.type = "bool", WellFormed(v), ~v.is
  PROVE  v = Kinds!Bool(FALSE)
<1>1. v \in {Kinds!Bool(TRUE), Kinds!Bool(FALSE)}
  BY DEF WellFormed
<1>2. Kinds!Bool(TRUE).is
  BY DEF Kinds!Bool
<1> QED
  BY <1>1, <1>2

\* A key that is there is written again, or reads as absent.
LEMMA WrittenOnce ==
  ASSUME NEW field, FieldOk(field), NEW m, NEW k, k \in DOMAIN m, WellFormed(m[k]), Reads(field, m, k)
  PROVE  LET w == Kinds!Rewrite(field.as, m[k]) IN
         /\ Kinds!Written(field, m, k) =>
              /\ Kinds!Fits(field.as, w) /\ Kinds!Rewrite(field.as, w) = w
              /\ \A f : k \in DOMAIN f /\ f[k] = w => Kinds!Written(field, f, k)
         /\ ~Kinds!Written(field, m, k) =>
              field.when # "always" /\ m[k] \in {Kinds!Null, Kinds!Array(<<>>), Kinds!Bool(FALSE)}
<1>. DEFINE v == m[k]
            s == field.as
            w == Kinds!Rewrite(s, v)
<1>1. \A f : k \in DOMAIN f =>
        (Kinds!Written(field, f, k) <=>
           CASE field.when = "nonempty" -> f[k].of # <<>>
             [] field.when = "notnull"  -> f[k] # Kinds!Null
             [] field.when = "true"     -> f[k].is
             [] OTHER -> TRUE)
  BY DEF Kinds!Written, Kinds!Has
<1>2. Proper(s) /\ (field.when = "nonempty" => s.shape = "list") /\ (field.when = "true" => s.shape = "bool")
  BY DEF FieldOk
<1>3. WellFormed(v) /\ ((field.when = "notnull" /\ v = Kinds!Null) \/ Kinds!Fits(s, v))
  BY DEF Reads
<1>4. s.shape = "list" /\ Kinds!Fits(s, v) => v.type = "array"
  BY DEF Kinds!Fits
<1>5. v.type = "array" => v = Kinds!Array(v.of) /\ IsFcn(v.of)
  BY <1>3 DEF WellFormed
<1>6. s.shape = "bool" /\ Kinds!Fits(s, v) => v.type = "bool" /\ w = v
  <2>1. ASSUME s.shape = "bool" PROVE Kinds!Fits(s, v) = Kinds!FitsPlain(s, v)
    BY <2>1 DEF Kinds!Fits, Kinds!FitsItem, Kinds!FitsFlat
  <2>2. ASSUME s.shape = "bool" PROVE w = v
    BY <2>2 DEF Kinds!Rewrite, Kinds!RewriteItem, Kinds!RewriteFlat
  <2>3. s.shape = "bool" /\ Kinds!FitsPlain(s, v) => v.type = "bool"
    BY DEF Kinds!FitsPlain
  <2> QED
    BY <2>1, <2>2, <2>3
<1>7. Kinds!Fits(s, v) =>
        /\ Kinds!Fits(s, w) /\ Kinds!Rewrite(s, w) = w /\ (v # Kinds!Null => w # Kinds!Null)
        /\ s.shape = "list" /\ v.of # <<>> => w.of # <<>>
  BY <1>2, <1>4, <1>5, ShapeStays
<1> HIDE DEF v, s, w
<1>8. Kinds!Written(field, m, k) <=>
        CASE field.when = "nonempty" -> v.of # <<>>
          [] field.when = "notnull"  -> v # Kinds!Null
          [] field.when = "true"     -> v.is
          [] OTHER -> TRUE
  BY <1>1 DEF v
<1>9. ASSUME Kinds!Written(field, m, k)
      PROVE  /\ Kinds!Fits(s, w) /\ Kinds!Rewrite(s, w) = w
             /\ \A f : k \in DOMAIN f /\ f[k] = w => Kinds!Written(field, f, k)
  <2>1. Kinds!Fits(s, v)
    BY <1>3, <1>8, <1>9
  <2>2. ASSUME NEW f, k \in DOMAIN f, f[k] = w PROVE Kinds!Written(field, f, k)
    <3>1. CASE field.when = "nonempty"
      <4>1. w.of # <<>>
        BY <1>2, <1>7, <1>8, <1>9, <2>1, <3>1
      <4> QED
        BY <1>1, <2>2, <3>1, <4>1
    <3>2. CASE field.when = "notnull"
      <4>1. w # Kinds!Null
        BY <1>7, <1>8, <1>9, <2>1, <3>2
      <4> QED
        BY <1>1, <2>2, <3>2, <4>1
    <3>3. CASE field.when = "true"
      <4>1. w = v /\ v.is
        BY <1>2, <1>6, <1>8, <1>9, <2>1, <3>3
      <4> QED
        BY <1>1, <2>2, <3>3, <4>1
    <3>4. CASE field.when \notin {"nonempty", "notnull", "true"}
      BY <1>1, <2>2, <3>4
    <3> QED
      BY <3>1, <3>2, <3>3, <3>4
  <2> QED
    BY <1>7, <2>1, <2>2
<1>10. ASSUME ~Kinds!Written(field, m, k)
       PROVE  field.when # "always" /\ v \in {Kinds!Null, Kinds!Array(<<>>), Kinds!Bool(FALSE)}
  <2>1. CASE field.when = "nonempty"
    <3>1. v.of = <<>>
      BY <1>8, <1>10, <2>1
    <3> QED
      BY <1>2, <1>3, <1>4, <1>5, <2>1, <3>1
  <2>2. CASE field.when = "notnull"
    <3>1. v = Kinds!Null
      BY <1>8, <1>10, <2>2
    <3> QED
      BY <2>2, <3>1
  <2>3. CASE field.when = "true"
    <3>1. ~v.is /\ Kinds!Fits(s, v)
      BY <1>3, <1>8, <1>10, <2>3
    <3>2. v.type = "bool"
      BY <1>2, <1>6, <2>3, <3>1
    <3> QED
      BY <1>3, <2>3, <3>1, <3>2, FlagsFalse
  <2>4. CASE field.when \notin {"nonempty", "notnull", "true"}
    BY <1>8, <1>10, <2>4
  <2> QED
    BY <2>1, <2>2, <2>3, <2>4
<1> QED
  BY <1>9, <1>10 DEF v, s, w

\* What is written of a table is read again and written the same.
LEMMA TableStays ==
  ASSUME NEW table, TableOk(table), NEW m, \A k \in DOMAIN m : WellFormed(m[k]), Kinds!FitsTable(table, m)
  PROVE  LET w == Kinds!RewriteTable(table, m) IN
         /\ Kinds!FitsTable(table, w) /\ Kinds!RewriteTable(table, w) = w
         /\ \A k \in (DOMAIN m \cap DOMAIN table) \ DOMAIN w :
              m[k] \in {Kinds!Null, Kinds!Array(<<>>), Kinds!Bool(FALSE)}
<1>. DEFINE w == Kinds!RewriteTable(table, m)
            keys == Kinds!WrittenKeys(table, m)
<1>1. keys = {k \in DOMAIN table \cap DOMAIN m : Kinds!Written(table[k], m, k)}
  BY DEF Kinds!WrittenKeys, Kinds!Written, Kinds!Has
<1>2. w = [k \in keys |-> Kinds!Rewrite(table[k].as, m[k])]
  BY DEF Kinds!RewriteTable
<1> HIDE DEF w, keys
<1>3. /\ \A k \in DOMAIN table : FieldOk(table[k])
      /\ \A k \in DOMAIN table : IF k \in DOMAIN m THEN Reads(table[k], m, k) ELSE table[k].when # "always"
  BY ReadsEach DEF TableOk
<1>4. ASSUME NEW k \in DOMAIN table \cap DOMAIN m
      PROVE  /\ k \in keys =>
                  /\ Kinds!Fits(table[k].as, w[k]) /\ Kinds!Rewrite(table[k].as, w[k]) = w[k]
                  /\ Kinds!Written(table[k], w, k)
             /\ k \notin keys =>
                  table[k].when # "always" /\ m[k] \in {Kinds!Null, Kinds!Array(<<>>), Kinds!Bool(FALSE)}
  <2>1. FieldOk(table[k]) /\ Reads(table[k], m, k) /\ WellFormed(m[k])
    BY <1>3
  <2>2. k \in keys => k \in DOMAIN w /\ w[k] = Kinds!Rewrite(table[k].as, m[k])
    BY <1>2
  <2>3. k \in keys <=> Kinds!Written(table[k], m, k)
    BY <1>1
  <2>. DEFINE u == Kinds!Rewrite(table[k].as, m[k])
  <2>4. /\ Kinds!Written(table[k], m, k) =>
             /\ Kinds!Fits(table[k].as, u) /\ Kinds!Rewrite(table[k].as, u) = u
             /\ \A f : k \in DOMAIN f /\ f[k] = u => Kinds!Written(table[k], f, k)
        /\ ~Kinds!Written(table[k], m, k) =>
             table[k].when # "always" /\ m[k] \in {Kinds!Null, Kinds!Array(<<>>), Kinds!Bool(FALSE)}
    <3>. DEFINE field == table[k]
    <3>1. FieldOk(field) /\ Reads(field, m, k) /\ WellFormed(m[k]) /\ k \in DOMAIN m
      BY <2>1
    <3> HIDE DEF field
    <3>2. LET x == Kinds!Rewrite(field.as, m[k]) IN
          /\ Kinds!Written(field, m, k) =>
               /\ Kinds!Fits(field.as, x) /\ Kinds!Rewrite(field.as, x) = x
               /\ \A f : k \in DOMAIN f /\ f[k] = x => Kinds!Written(field, f, k)
          /\ ~Kinds!Written(field, m, k) =>
               field.when # "always" /\ m[k] \in {Kinds!Null, Kinds!Array(<<>>), Kinds!Bool(FALSE)}
      BY <3>1, WrittenOnce
    <3> QED
      BY <3>2 DEF field
  <2>5. k \in keys => u = w[k] /\ k \in DOMAIN w
    BY <2>2
  <2> HIDE DEF u
  <2> QED
    BY <2>3, <2>4, <2>5
<1>5. DOMAIN w = keys
  BY <1>2
<1>6. \A k \in DOMAIN table : IF k \in DOMAIN w THEN Reads(table[k], w, k) ELSE table[k].when # "always"
  BY <1>1, <1>3, <1>4, <1>5 DEF Reads
<1>7. Kinds!WrittenKeys(table, w) = keys
  BY <1>1, <1>4, <1>5 DEF Kinds!WrittenKeys, Kinds!Written, Kinds!Has
<1>8. Kinds!RewriteTable(table, w) = w
  <2>1. Kinds!RewriteTable(table, w) = [k \in keys |-> Kinds!Rewrite(table[k].as, w[k])]
    BY <1>7 DEF Kinds!RewriteTable
  <2>2. \A k \in keys : Kinds!Rewrite(table[k].as, w[k]) = w[k]
    BY <1>1, <1>4
  <2>3. w = [k \in keys |-> w[k]]
    BY <1>2
  <2> QED
    BY <2>1, <2>2, <2>3
<1>9. Kinds!FitsTable(table, w)
  BY <1>6, ReadsEach
<1> QED
  BY <1>4, <1>5, <1>8, <1>9 DEF w

\* What a field may be made of.
LEMMA FieldsOk ==
  /\ \A s : s.shape \in PlainShapes =>
       FieldOk(Kinds!Required(s)) /\ FieldOk(Kinds!Optional(s)) /\ Single(s)
  /\ \A name \in Submaps :
       LET s == Kinds!Submap(name) IN FieldOk(Kinds!Required(s)) /\ FieldOk(Kinds!Nullable(s)) /\ Single(s)
  /\ \A s : Single(s) =>
       /\ FieldOk(Kinds!Listed(s)) /\ FieldOk(Kinds!Required(Kinds!Many(s)))
       /\ \A most : \A least \in Nat : LET l == Kinds!ListOf(s, least, most) IN
            FieldOk(Kinds!Required(l)) /\ FieldOk([as |-> l, when |-> "nonempty"])
  /\ FieldOk(Kinds!Default(Kinds!Flag))
<1>1. ASSUME NEW s, s.shape \in PlainShapes
      PROVE  FieldOk(Kinds!Required(s)) /\ FieldOk(Kinds!Optional(s)) /\ Single(s)
  BY <1>1, Fields DEF PlainShapes, FieldOk, Proper, Single, Flat
<1>2. ASSUME NEW name \in Submaps
      PROVE  LET s == Kinds!Submap(name) IN FieldOk(Kinds!Required(s)) /\ FieldOk(Kinds!Nullable(s))
        /\ Single(s)
  <2>. DEFINE s == Kinds!Submap(name)
  <2>1. s.shape = "submap" /\ s.table = name
    BY DEF Kinds!Submap
  <2> HIDE DEF s
  <2>2. Proper(s) /\ Single(s)
    BY <2>1 DEF Proper, Single, Flat
  <2>3. FieldOk(Kinds!Required(s)) /\ FieldOk(Kinds!Nullable(s))
    BY <2>2, Fields DEF FieldOk
  <2> QED
    BY <2>2, <2>3 DEF s
<1>3. ASSUME NEW s, Single(s), NEW least \in Nat, NEW most
      PROVE  LET l == Kinds!ListOf(s, least, most) IN
             FieldOk(Kinds!Required(l)) /\ FieldOk([as |-> l, when |-> "nonempty"])
  <2>. DEFINE l == Kinds!ListOf(s, least, most)
  <2>1. l.shape = "list" /\ l.item = s /\ l.least = least
    BY DEF Kinds!ListOf
  <2> HIDE DEF l
  <2>2. Proper(l)
    BY <1>3, <2>1 DEF Proper, Single, Flat
  <2>3. FieldOk(Kinds!Required(l))
    BY <2>2, Fields DEF FieldOk
  <2>4. FieldOk([as |-> l, when |-> "nonempty"])
    BY <2>1, <2>2 DEF FieldOk
  <2> QED
    BY <2>3, <2>4 DEF l
<1>4. ASSUME NEW s, Single(s)
      PROVE  FieldOk(Kinds!Listed(s)) /\ FieldOk(Kinds!Required(Kinds!Many(s)))
  <2>1. Kinds!Many(s) = Kinds!ListOf(s, 0, Kinds!Unlimited) /\ 0 \in Nat
    BY DEF Kinds!Many
  <2>2. Kinds!Listed(s) = [as |-> Kinds!Many(s), when |-> "nonempty"]
    BY DEF Kinds!Listed
  <2> QED
    BY <1>3, <1>4, <2>1, <2>2
<1>5. FieldOk(Kinds!Default(Kinds!Flag))
  BY Fields, FlatShapes DEF FieldOk, Proper, Single, Flat
<1> QED
  BY <1>1, <1>2, <1>3, <1>4, <1>5

\* Tuples of two.
LEMMA Pairs ==
  ASSUME NEW s, NEW t, s.shape \in PlainShapes, t.shape \in PlainShapes
  PROVE  LET p == Kinds!TupleOf(<<s, t>>) IN Single(p) /\ FieldOk(Kinds!Optional(p))
    /\ FieldOk(Kinds!Required(p))
<1>. DEFINE items == <<s, t>>
            p == Kinds!TupleOf(items)
<1>1. \A i \in DOMAIN items : items[i].shape \in PlainShapes
  OBVIOUS
<1> HIDE DEF items
<1>2. Flat(p) /\ p.shape = "tuple"
  BY <1>1, Tuples
<1> HIDE DEF p
<1>3. Single(p) /\ Proper(p)
  BY <1>2 DEF Single, Proper
<1>4. FieldOk(Kinds!Optional(p)) /\ FieldOk(Kinds!Required(p))
  BY <1>3, Fields DEF FieldOk
<1> QED
  BY <1>3, <1>4 DEF p, items

\* The tuples of the tables; the last element of a feed's entry may be missing.
LEMMA TuplesOk ==
  /\ Single(Kinds!Hint) /\ Single(Kinds!PaymentPointer) /\ Single(Kinds!LiveSegment)
  /\ FieldOk(Kinds!Optional(Kinds!EncKey)) /\ Single(Kinds!FeedEntry) /\ Single(Kinds!FeedRemoveEntry)
<1>1. \A s \in {Kinds!AnyText, Kinds!Unsigned, Kinds!Octets, Kinds!Hash32, Kinds!RefType} : s.shape \in PlainShapes
  BY FlatShapes DEF PlainShapes
<1>2. Single(Kinds!Hint) /\ Single(Kinds!PaymentPointer)
  BY <1>1, Pairs DEF Kinds!Hint, Kinds!PaymentPointer
<1>3. Single(Kinds!LiveSegment)
  BY <1>1, Pairs DEF Kinds!LiveSegment
<1>4. FieldOk(Kinds!Optional(Kinds!EncKey))
  BY <1>1, Pairs DEF Kinds!EncKey
<1>5. Single(Kinds!FeedRemoveEntry)
  BY <1>1, Pairs DEF Kinds!FeedRemoveEntry
<1>6. Single(Kinds!FeedEntry)
  <2>. DEFINE items == <<Kinds!RefType, Kinds!Hash32, Kinds!AnyText, Kinds!Hash32>>
              s == Kinds!FeedEntry
  <2>1. \A i \in DOMAIN items : items[i].shape \in PlainShapes
    BY <1>1
  <2> HIDE DEF items
  <2>2. s.shape = "tuple" /\ s.items = items /\ s.optional = {Len(items)}
    BY DEF Kinds!FeedEntry, Kinds!TupleWithTail, items
  <2> HIDE DEF s
  <2>3. Single(s)
    BY <2>1, <2>2 DEF Single, Flat
  <2> QED
    BY <2>3 DEF s
<1> QED
  BY <1>2, <1>3, <1>4, <1>5, <1>6

\* A text's field is sound whatever its bounds are.
LEMMA TextFields ==
  ASSUME NEW l, NEW m
  PROVE  FieldOk(Kinds!Required(Kinds!TextOf(l, m))) /\ FieldOk(Kinds!Optional(Kinds!TextOf(l, m)))
<1>1. Kinds!TextOf(l, m).shape \in PlainShapes
  BY FlatShapes DEF PlainShapes
<1> QED
  BY <1>1, FieldsOk

\* The fields that the tables name.
LEMMA NamedFields ==
  /\ \A l, m : /\ FieldOk(Kinds!Required(Kinds!TextOf(l, m))) /\ FieldOk(Kinds!Optional(Kinds!TextOf(l, m)))
               /\ FieldOk(Kinds!Required([shape |-> "uint", least |-> l, most |-> m]))
  /\ \A s \in {Kinds!AnyText, Kinds!Filled, Kinds!License, Kinds!HttpsOrigin, Kinds!Unsigned, Kinds!Signed,
               Kinds!Flag, Kinds!Octets, Kinds!Hash32, Kinds!AnchorProof, Kinds!AnyMap} :
       FieldOk(Kinds!Required(s)) /\ FieldOk(Kinds!Optional(s)) /\ FieldOk(Kinds!Listed(s))
  /\ \A s \in {Kinds!Hint, Kinds!PaymentPointer, Kinds!LiveSegment, Kinds!FeedEntry, Kinds!FeedRemoveEntry} :
       FieldOk(Kinds!Listed(s)) /\ FieldOk(Kinds!Required(Kinds!Many(s)))
  /\ \A name \in Submaps : LET s == Kinds!Submap(name) IN
       FieldOk(Kinds!Required(s)) /\ FieldOk(Kinds!Nullable(s)) /\ FieldOk(Kinds!Listed(s))
  /\ FieldOk([as |-> Kinds!ListOf(Kinds!TextOf(0, 64), 0, 32), when |-> "nonempty"])
  /\ FieldOk(Kinds!Required(Kinds!ListOf(Kinds!Hash32, 1, Kinds!Unlimited)))
  /\ FieldOk(Kinds!Optional(Kinds!EncKey)) /\ FieldOk(Kinds!Default(Kinds!Flag))
<1>1. \A l, m : Kinds!TextOf(l, m).shape \in PlainShapes
        /\ [shape |-> "uint", least |-> l, most |-> m].shape \in PlainShapes
  BY FlatShapes DEF PlainShapes
<1>2. \A s \in {Kinds!AnyText, Kinds!Filled, Kinds!License, Kinds!HttpsOrigin, Kinds!Unsigned, Kinds!Signed,
               Kinds!Flag, Kinds!Octets, Kinds!Hash32, Kinds!AnchorProof, Kinds!AnyMap} : s.shape \in PlainShapes
  BY FlatShapes DEF PlainShapes
<1>3. \A l, m : /\ FieldOk(Kinds!Required(Kinds!TextOf(l, m))) /\ FieldOk(Kinds!Optional(Kinds!TextOf(l, m)))
               /\ FieldOk(Kinds!Required([shape |-> "uint", least |-> l, most |-> m]))
  BY <1>1, FieldsOk
<1>4. \A s \in {Kinds!AnyText, Kinds!Filled, Kinds!License, Kinds!HttpsOrigin, Kinds!Unsigned, Kinds!Signed,
               Kinds!Flag, Kinds!Octets, Kinds!Hash32, Kinds!AnchorProof, Kinds!AnyMap} :
        Single(s) /\ FieldOk(Kinds!Required(s)) /\ FieldOk(Kinds!Optional(s)) /\ FieldOk(Kinds!Listed(s))
  BY <1>2, FieldsOk
<1>5. \A s \in {Kinds!Hint, Kinds!PaymentPointer, Kinds!LiveSegment, Kinds!FeedEntry, Kinds!FeedRemoveEntry} :
        FieldOk(Kinds!Listed(s)) /\ FieldOk(Kinds!Required(Kinds!Many(s)))
  BY TuplesOk, FieldsOk
<1>6. \A name \in Submaps : LET s == Kinds!Submap(name) IN
        FieldOk(Kinds!Required(s)) /\ FieldOk(Kinds!Nullable(s)) /\ FieldOk(Kinds!Listed(s))
  BY FieldsOk
<1>7. /\ FieldOk([as |-> Kinds!ListOf(Kinds!TextOf(0, 64), 0, 32), when |-> "nonempty"])
      /\ FieldOk(Kinds!Required(Kinds!ListOf(Kinds!Hash32, 1, Kinds!Unlimited)))
  <2>1. Single(Kinds!TextOf(0, 64)) /\ Single(Kinds!Hash32) /\ 0 \in Nat /\ 1 \in Nat
    BY <1>1, <1>4, FieldsOk
  <2> QED
    BY <2>1, FieldsOk
<1> QED
  BY <1>3, <1>4, <1>5, <1>6, <1>7, FieldsOk, TuplesOk

\* Every table is made of such fields.
LEMMA TablesOk ==
  /\ TableOk(Kinds!Manifest) /\ TableOk(Kinds!Delegate) /\ TableOk(Kinds!Supersede)
  /\ TableOk(Kinds!Retract) /\ TableOk(Kinds!Mirror) /\ TableOk(Kinds!Similarity)
  /\ TableOk(Kinds!Profile) /\ TableOk(Kinds!Comment) /\ TableOk(Kinds!Reaction)
  /\ TableOk(Kinds!Follow) /\ TableOk(Kinds!Playlist) /\ TableOk(Kinds!Channel)
  /\ TableOk(Kinds!ClaimAuthor) /\ TableOk(Kinds!ClaimLicense) /\ TableOk(Kinds!ClaimTransfer)
  /\ TableOk(Kinds!ClaimDispute) /\ TableOk(Kinds!NoticeTakedown) /\ TableOk(Kinds!NoticeCounter)
  /\ TableOk(Kinds!FeedTakedown) /\ TableOk(Kinds!EndorseGateway) /\ TableOk(Kinds!Receipt)
  /\ TableOk(Kinds!Attest) /\ TableOk(Kinds!Anchor) /\ TableOk(Kinds!Keygrant)
  /\ TableOk(Kinds!LiveManifest) /\ TableOk(Kinds!LiveChat) /\ TableOk(Kinds!NoKeys)
<1>1. TableOk(Kinds!Manifest)
  <2>1. /\ FieldOk(Kinds!Required(Kinds!TextOf(1, 512)))
        /\ FieldOk(Kinds!Optional(Kinds!TextOf(0, 16384)))
        /\ FieldOk([as |-> Kinds!ListOf(Kinds!TextOf(0, 64), 0, 32), when |-> "nonempty"])
    BY TextFields, NamedFields
  <2> QED
    BY <2>1, NamedFields DEF TableOk, Kinds!Manifest, Submaps
<1>2. TableOk(Kinds!Delegate)
  <2>1. FieldOk(Kinds!Required(Kinds!TextOf(1, 256)))
    BY TextFields, NamedFields
  <2> QED
    BY <2>1, NamedFields DEF TableOk, Kinds!Delegate
<1>3. TableOk(Kinds!Supersede)
  BY NamedFields DEF TableOk, Kinds!Supersede
<1>4. TableOk(Kinds!Retract)
  BY NamedFields DEF TableOk, Kinds!Retract
<1>5. TableOk(Kinds!Mirror)
  BY NamedFields DEF TableOk, Kinds!Mirror
<1>6. TableOk(Kinds!Similarity)
  BY NamedFields DEF TableOk, Kinds!Similarity
<1>7. TableOk(Kinds!Profile)
  <2>1. FieldOk(Kinds!Required(Kinds!TextOf(1, 256)))
    BY TextFields, NamedFields
  <2> QED
    BY <2>1, NamedFields DEF TableOk, Kinds!Profile
<1>8. TableOk(Kinds!Comment)
  <2>1. FieldOk(Kinds!Required(Kinds!TextOf(1, 8192)))
    BY TextFields, NamedFields
  <2> QED
    BY <2>1, NamedFields DEF TableOk, Kinds!Comment
<1>9. TableOk(Kinds!Reaction)
  <2>1. FieldOk(Kinds!Required(Kinds!TextOf(0, 32)))
    BY TextFields, NamedFields
  <2> QED
    BY <2>1, NamedFields DEF TableOk, Kinds!Reaction
<1>10. TableOk(Kinds!Follow)
  BY NamedFields DEF TableOk, Kinds!Follow
<1>11. TableOk(Kinds!Playlist)
  <2>1. /\ FieldOk(Kinds!Required(Kinds!TextOf(1, 512)))
        /\ FieldOk(Kinds!Optional(Kinds!TextOf(0, 16384)))
    BY TextFields, NamedFields
  <2> QED
    BY <2>1, NamedFields DEF TableOk, Kinds!Playlist
<1>12. TableOk(Kinds!Channel)
  <2>1. /\ FieldOk(Kinds!Required(Kinds!TextOf(1, 512)))
        /\ FieldOk(Kinds!Optional(Kinds!TextOf(0, 16384)))
    BY TextFields, NamedFields
  <2> QED
    BY <2>1, NamedFields DEF TableOk, Kinds!Channel
<1>13. TableOk(Kinds!ClaimAuthor)
  BY NamedFields DEF TableOk, Kinds!ClaimAuthor
<1>14. TableOk(Kinds!ClaimLicense)
  BY NamedFields DEF TableOk, Kinds!ClaimLicense
<1>15. TableOk(Kinds!ClaimTransfer)
  BY NamedFields DEF TableOk, Kinds!ClaimTransfer
<1>16. TableOk(Kinds!ClaimDispute)
  BY NamedFields DEF TableOk, Kinds!ClaimDispute
<1>17. TableOk(Kinds!NoticeTakedown)
  BY NamedFields DEF TableOk, Kinds!NoticeTakedown, Submaps
<1>18. TableOk(Kinds!NoticeCounter)
  <2>. DEFINE more == [work |-> Kinds!Optional(Kinds!AnyText)]
  <2>1. \A k \in DOMAIN more : FieldOk(more[k])
    BY NamedFields
  <2>2. Kinds!NoticeCounter = Kinds!With(Kinds!NoticeTakedown, more)
    BY DEF Kinds!NoticeCounter
  <2> HIDE DEF more
  <2> QED
    BY <1>17, <2>1, <2>2 DEF TableOk, Kinds!With
<1>19. TableOk(Kinds!FeedTakedown)
  BY NamedFields DEF TableOk, Kinds!FeedTakedown
<1>20. TableOk(Kinds!EndorseGateway)
  BY NamedFields DEF TableOk, Kinds!EndorseGateway
<1>21. TableOk(Kinds!Receipt)
  BY NamedFields DEF TableOk, Kinds!Receipt
<1>22. TableOk(Kinds!Attest)
  BY NamedFields DEF TableOk, Kinds!Attest
<1>23. TableOk(Kinds!Anchor)
  BY NamedFields DEF TableOk, Kinds!Anchor
<1>24. TableOk(Kinds!Keygrant)
  BY NamedFields DEF TableOk, Kinds!Keygrant
<1>25. TableOk(Kinds!LiveManifest)
  <2>1. FieldOk(Kinds!Optional(Kinds!TextOf(0, 512)))
    BY TextFields, NamedFields
  <2> QED
    BY <2>1, NamedFields DEF TableOk, Kinds!LiveManifest
<1>26. TableOk(Kinds!LiveChat)
  <2>1. FieldOk(Kinds!Required(Kinds!TextOf(1, 2048)))
    BY TextFields, NamedFields
  <2> QED
    BY <2>1, NamedFields DEF TableOk, Kinds!LiveChat
<1>27. TableOk(Kinds!NoKeys)
  BY NamedFields DEF TableOk, Kinds!NoKeys
<1> QED
  BY <1>1, <1>2, <1>3, <1>4, <1>5, <1>6, <1>7, <1>8, <1>9, <1>10, <1>11, <1>12, <1>13, <1>14, <1>15,
     <1>16, <1>17, <1>18, <1>19, <1>20, <1>21, <1>22, <1>23, <1>24, <1>25, <1>26, <1>27

\* Each kind has a table made of such fields.
LEMMA RegistryOk ==
  /\ DOMAIN Kinds!Registry = Kinds!KindNames
  /\ \A k \in Kinds!KindNames : TableOk(Kinds!Registry[k].table)
<1>1. \A t, l, m, r : Kinds!Kind(t, l, m, r).table = t
  BY DEF Kinds!Kind
<1>2. \A t : Kinds!NoRefs(t).table = t /\ Kinds!OneRecord(t).table = t
  BY <1>1 DEF Kinds!NoRefs, Kinds!OneRecord
<1>3. TableOk(Kinds!Registry["rotation"].table)
  <2>1. Kinds!Registry["rotation"] = Kinds!Kind(Kinds!NoKeys, 0, Kinds!Unlimited, {})
    BY DEF Kinds!Registry, Kinds!KindNames
  <2> QED
    BY <1>1, <1>2, <2>1, TablesOk
<1>4. TableOk(Kinds!Registry["profile"].table)
  <2>1. Kinds!Registry["profile"] = Kinds!NoRefs(Kinds!Profile)
    BY DEF Kinds!Registry, Kinds!KindNames
  <2> QED
    BY <1>1, <1>2, <2>1, TablesOk
<1>5. TableOk(Kinds!Registry["delegate"].table)
  <2>1. Kinds!Registry["delegate"] = Kinds!Kind(Kinds!Delegate, 0, 1, {1})
    BY DEF Kinds!Registry, Kinds!KindNames
  <2> QED
    BY <1>1, <1>2, <2>1, TablesOk
<1>6. TableOk(Kinds!Registry["manifest"].table)
  <2>1. Kinds!Registry["manifest"] = Kinds!Kind(Kinds!Manifest, 0, 1, {1})
    BY DEF Kinds!Registry, Kinds!KindNames
  <2> QED
    BY <1>1, <1>2, <2>1, TablesOk
<1>7. TableOk(Kinds!Registry["supersede"].table)
  <2>1. Kinds!Registry["supersede"] = Kinds!OneRecord(Kinds!Supersede)
    BY DEF Kinds!Registry, Kinds!KindNames
  <2> QED
    BY <1>1, <1>2, <2>1, TablesOk
<1>8. TableOk(Kinds!Registry["retract"].table)
  <2>1. Kinds!Registry["retract"] = Kinds!OneRecord(Kinds!Retract)
    BY DEF Kinds!Registry, Kinds!KindNames
  <2> QED
    BY <1>1, <1>2, <2>1, TablesOk
<1>9. TableOk(Kinds!Registry["mirror"].table)
  <2>1. Kinds!Registry["mirror"] = Kinds!Kind(Kinds!Mirror, 1, Kinds!Unlimited, {})
    BY DEF Kinds!Registry, Kinds!KindNames
  <2> QED
    BY <1>1, <1>2, <2>1, TablesOk
<1>10. TableOk(Kinds!Registry["similarity"].table)
  <2>1. Kinds!Registry["similarity"] = Kinds!Kind(Kinds!Similarity, 2, 2, {2})
    BY DEF Kinds!Registry, Kinds!KindNames
  <2> QED
    BY <1>1, <1>2, <2>1, TablesOk
<1>11. TableOk(Kinds!Registry["comment"].table)
  <2>1. Kinds!Registry["comment"] = Kinds!Kind(Kinds!Comment, 1, 2, {1, 2})
    BY DEF Kinds!Registry, Kinds!KindNames
  <2> QED
    BY <1>1, <1>2, <2>1, TablesOk
<1>12. TableOk(Kinds!Registry["reaction"].table)
  <2>1. Kinds!Registry["reaction"] = Kinds!OneRecord(Kinds!Reaction)
    BY DEF Kinds!Registry, Kinds!KindNames
  <2> QED
    BY <1>1, <1>2, <2>1, TablesOk
<1>13. TableOk(Kinds!Registry["follow"].table)
  <2>1. Kinds!Registry["follow"] = Kinds!OneRecord(Kinds!Follow)
    BY DEF Kinds!Registry, Kinds!KindNames
  <2> QED
    BY <1>1, <1>2, <2>1, TablesOk
<1>14. TableOk(Kinds!Registry["playlist"].table)
  <2>1. Kinds!Registry["playlist"] = Kinds!NoRefs(Kinds!Playlist)
    BY DEF Kinds!Registry, Kinds!KindNames
  <2> QED
    BY <1>1, <1>2, <2>1, TablesOk
<1>15. TableOk(Kinds!Registry["channel"].table)
  <2>1. Kinds!Registry["channel"] = Kinds!NoRefs(Kinds!Channel)
    BY DEF Kinds!Registry, Kinds!KindNames
  <2> QED
    BY <1>1, <1>2, <2>1, TablesOk
<1>16. TableOk(Kinds!Registry["claim.author"].table)
  <2>1. Kinds!Registry["claim.author"] = Kinds!OneRecord(Kinds!ClaimAuthor)
    BY DEF Kinds!Registry, Kinds!KindNames
  <2> QED
    BY <1>1, <1>2, <2>1, TablesOk
<1>17. TableOk(Kinds!Registry["claim.license"].table)
  <2>1. Kinds!Registry["claim.license"] = Kinds!OneRecord(Kinds!ClaimLicense)
    BY DEF Kinds!Registry, Kinds!KindNames
  <2> QED
    BY <1>1, <1>2, <2>1, TablesOk
<1>18. TableOk(Kinds!Registry["claim.transfer"].table)
  <2>1. Kinds!Registry["claim.transfer"] = Kinds!OneRecord(Kinds!ClaimTransfer)
    BY DEF Kinds!Registry, Kinds!KindNames
  <2> QED
    BY <1>1, <1>2, <2>1, TablesOk
<1>19. TableOk(Kinds!Registry["claim.dispute"].table)
  <2>1. Kinds!Registry["claim.dispute"] = Kinds!OneRecord(Kinds!ClaimDispute)
    BY DEF Kinds!Registry, Kinds!KindNames
  <2> QED
    BY <1>1, <1>2, <2>1, TablesOk
<1>20. TableOk(Kinds!Registry["notice.takedown"].table)
  <2>1. Kinds!Registry["notice.takedown"] = Kinds!Kind(Kinds!NoticeTakedown, 1, Kinds!Unlimited, {})
    BY DEF Kinds!Registry, Kinds!KindNames
  <2> QED
    BY <1>1, <1>2, <2>1, TablesOk
<1>21. TableOk(Kinds!Registry["notice.counter"].table)
  <2>1. Kinds!Registry["notice.counter"] = Kinds!OneRecord(Kinds!NoticeCounter)
    BY DEF Kinds!Registry, Kinds!KindNames
  <2> QED
    BY <1>1, <1>2, <2>1, TablesOk
<1>22. TableOk(Kinds!Registry["feed.takedown"].table)
  <2>1. Kinds!Registry["feed.takedown"] = Kinds!NoRefs(Kinds!FeedTakedown)
    BY DEF Kinds!Registry, Kinds!KindNames
  <2> QED
    BY <1>1, <1>2, <2>1, TablesOk
<1>23. TableOk(Kinds!Registry["endorse.gateway"].table)
  <2>1. Kinds!Registry["endorse.gateway"] = Kinds!NoRefs(Kinds!EndorseGateway)
    BY DEF Kinds!Registry, Kinds!KindNames
  <2> QED
    BY <1>1, <1>2, <2>1, TablesOk
<1>24. TableOk(Kinds!Registry["receipt"].table)
  <2>1. Kinds!Registry["receipt"] = Kinds!OneRecord(Kinds!Receipt)
    BY DEF Kinds!Registry, Kinds!KindNames
  <2> QED
    BY <1>1, <1>2, <2>1, TablesOk
<1>25. TableOk(Kinds!Registry["attest"].table)
  <2>1. Kinds!Registry["attest"] = Kinds!OneRecord(Kinds!Attest)
    BY DEF Kinds!Registry, Kinds!KindNames
  <2> QED
    BY <1>1, <1>2, <2>1, TablesOk
<1>26. TableOk(Kinds!Registry["anchor"].table)
  <2>1. Kinds!Registry["anchor"] = Kinds!NoRefs(Kinds!Anchor)
    BY DEF Kinds!Registry, Kinds!KindNames
  <2> QED
    BY <1>1, <1>2, <2>1, TablesOk
<1>27. TableOk(Kinds!Registry["keygrant"].table)
  <2>1. Kinds!Registry["keygrant"] = Kinds!OneRecord(Kinds!Keygrant)
    BY DEF Kinds!Registry, Kinds!KindNames
  <2> QED
    BY <1>1, <1>2, <2>1, TablesOk
<1>28. TableOk(Kinds!Registry["live.manifest"].table)
  <2>1. Kinds!Registry["live.manifest"] = Kinds!Kind(Kinds!LiveManifest, 0, 1, {1})
    BY DEF Kinds!Registry, Kinds!KindNames
  <2> QED
    BY <1>1, <1>2, <2>1, TablesOk
<1>29. TableOk(Kinds!Registry["live.chat"].table)
  <2>1. Kinds!Registry["live.chat"] = Kinds!OneRecord(Kinds!LiveChat)
    BY DEF Kinds!Registry, Kinds!KindNames
  <2> QED
    BY <1>1, <1>2, <2>1, TablesOk
<1>30. DOMAIN Kinds!Registry = Kinds!KindNames
  BY DEF Kinds!Registry
<1> QED
  BY <1>3, <1>4, <1>5, <1>6, <1>7, <1>8, <1>9, <1>10, <1>11, <1>12, <1>13, <1>14, <1>15, <1>16, <1>17,
     <1>18, <1>19, <1>20, <1>21, <1>22, <1>23, <1>24, <1>25, <1>26, <1>27, <1>28, <1>29,
     <1>30 DEF Kinds!KindNames

\* Which keys are written, and as what.
LEMMA WrittenAs ==
  ASSUME NEW table, NEW m, NEW k \in DOMAIN table
  PROVE  LET w == Kinds!RewriteTable(table, m) IN
         /\ k \in DOMAIN w <=> Kinds!Written(table[k], m, k)
         /\ k \in DOMAIN w => w[k] = Kinds!Rewrite(table[k].as, m[k])
BY DEF Kinds!RewriteTable, Kinds!WrittenKeys

\* What is read as it is when it is there, and nothing else, is written when it is there.
LEMMA WrittenIfThere ==
  \A f, m, k : f.when \in {"always", "present"} => (Kinds!Written(f, m, k) <=> k \in DOMAIN m)
BY DEF Kinds!Written, Kinds!Has

\* A plain value is written as it is, a map inside as one.
LEMMA PlainStays ==
  \A s : s.shape \in PlainShapes => \A v : Kinds!Rewrite(s, v) = v
BY DEF PlainShapes, Kinds!Rewrite, Kinds!RewriteItem, Kinds!RewriteFlat

\* What is written of a map inside, key by key.
LEMMA SubmapRewritten ==
  \A name, v : /\ Kinds!Rewrite(Kinds!Submap(name), v) = Kinds!RewriteItem(Kinds!Submap(name), v)
               /\ Kinds!RewriteItem(Kinds!Submap(name), v).of
                    = [k \in Kinds!WrittenKeys(Kinds!SubTable(name), v.of) |->
                         Kinds!RewriteFlat(Kinds!SubTable(name)[k].as, v.of[k])]
<1>1. ASSUME NEW name, NEW v
      PROVE  /\ Kinds!Rewrite(Kinds!Submap(name), v) = Kinds!RewriteItem(Kinds!Submap(name), v)
             /\ Kinds!RewriteItem(Kinds!Submap(name), v).of
                  = [k \in Kinds!WrittenKeys(Kinds!SubTable(name), v.of) |->
                       Kinds!RewriteFlat(Kinds!SubTable(name)[k].as, v.of[k])]
  <2>. DEFINE s == Kinds!Submap(name)
              f == [k \in Kinds!WrittenKeys(Kinds!SubTable(name), v.of) |->
                      Kinds!RewriteFlat(Kinds!SubTable(name)[k].as, v.of[k])]
  <2>1. s.shape = "submap" /\ s.table = name
    BY DEF Kinds!Submap
  <2> HIDE DEF s
  <2>2. Kinds!RewriteItem(s, v) = Kinds!Map(f)
    BY <2>1 DEF Kinds!RewriteItem
  <2>3. Kinds!Rewrite(s, v) = Kinds!RewriteItem(s, v)
    BY <2>1 DEF Kinds!Rewrite
  <2> HIDE DEF f
  <2>4. Kinds!RewriteItem(s, v).of = f
    BY <2>2, Boxed
  <2> QED
    BY <2>3, <2>4 DEF s, f
<1> QED
  BY <1>1

\* A wrapped key is written as it was.
LEMMA WrapStays ==
  ASSUME NEW name \in {"Media", "Rendition", "Caption"}, NEW v, Kinds!Wrapped(v.of)
  PROVE  Kinds!Wrapped(Kinds!RewriteItem(Kinds!Submap(name), v).of)
<1>. DEFINE table == Kinds!SubTable(name)
            f == Kinds!RewriteItem(Kinds!Submap(name), v).of
<1>1. f = [k \in Kinds!WrittenKeys(table, v.of) |-> Kinds!RewriteFlat(table[k].as, v.of[k])]
  BY SubmapRewritten
<1>2. SubOk(table) /\ "wrapped_key" \in DOMAIN table /\ table["wrapped_key"] = Kinds!Optional(Kinds!Octets)
  <2>1. name \in Submaps
    BY DEF Submaps
  <2> QED
    BY <2>1, SubTablesOk, WrappedKeys
<1> HIDE DEF table, f
<1>3. Kinds!WrittenKeys(table, v.of) = DOMAIN table \cap DOMAIN v.of
  BY <1>2, SubWritten
<1>4. "wrapped_key" \in DOMAIN v.of /\ v.of["wrapped_key"].len = 64
  BY DEF Kinds!Wrapped, Kinds!Has
<1>5. \A x : Kinds!RewriteFlat(table["wrapped_key"].as, x) = x
  <2>1. table["wrapped_key"].as.shape = "octets"
    BY <1>2, Fields, FlatShapes
  <2> QED
    BY <2>1 DEF Kinds!RewriteFlat
<1>6. "wrapped_key" \in DOMAIN f /\ f["wrapped_key"] = v.of["wrapped_key"]
  BY <1>1, <1>2, <1>3, <1>4, <1>5
<1> QED
  BY <1>4, <1>6 DEF Kinds!Wrapped, Kinds!Has, f

\* What is written of a list of maps are the items written.
LEMMA ItemsRewritten ==
  ASSUME NEW table, NEW m, NEW k \in DOMAIN table, NEW name, table[k] = Kinds!Listed(Kinds!Submap(name)),
         NEW x \in Kinds!Items(Kinds!RewriteTable(table, m), k)
  PROVE  \E v : x = Kinds!RewriteItem(Kinds!Submap(name), v).of /\ v.of \in Kinds!Items(m, k)
<1>. DEFINE w == Kinds!RewriteTable(table, m)
            s == Kinds!Submap(name)
            f == [i \in DOMAIN m[k].of |-> Kinds!RewriteItem(s, m[k].of[i])]
<1>1. k \in DOMAIN w /\ \E i \in DOMAIN w[k].of : x = w[k].of[i].of
  BY DEF Kinds!Items, Kinds!Has
<1>2. w[k] = Kinds!Rewrite(table[k].as, m[k]) /\ k \in DOMAIN m
  BY <1>1, WrittenAs DEF Kinds!Written, Kinds!Has
<1>3. table[k].as = Kinds!Many(s) /\ Kinds!Many(s).shape = "list" /\ Kinds!Many(s).item = s
  <2>1. Kinds!Many(s).shape = "list" /\ Kinds!Many(s).item = s
    <3> HIDE DEF s
    <3> QED
      BY DEF Kinds!Many, Kinds!ListOf
  <2> QED
    BY <2>1, Fields
<1> HIDE DEF w, s
<1>4. w[k] = Kinds!Array(f)
  BY <1>2, <1>3 DEF Kinds!Rewrite
<1>5. w[k].of = f
  <2> HIDE DEF f
  <2> QED
    BY <1>4, Boxed
<1>6. PICK i \in DOMAIN m[k].of : x = Kinds!RewriteItem(s, m[k].of[i]).of
  BY <1>1, <1>5
<1>7. m[k].of[i].of \in Kinds!Items(m, k)
  BY <1>2 DEF Kinds!Items, Kinds!Has
<1> QED
  BY <1>6, <1>7 DEF s

\* The wrapped keys of an encrypted manifest stay.
LEMMA ManifestStays ==
  ASSUME NEW m, Kinds!FitsTable(Kinds!Manifest, m), Kinds!KeysWrapped(m)
  PROVE  Kinds!KeysWrapped(Kinds!RewriteTable(Kinds!Manifest, m))
<1>. DEFINE table == Kinds!Manifest
            w == Kinds!RewriteTable(table, m)
<1>1. /\ {"encryption", "original", "renditions", "captions"} \subseteq DOMAIN table
      /\ table["encryption"] = Kinds!Nullable(Kinds!Submap("Encryption"))
      /\ table["original"] = Kinds!Required(Kinds!Submap("Media"))
      /\ table["renditions"] = Kinds!Listed(Kinds!Submap("Rendition"))
      /\ table["captions"] = Kinds!Listed(Kinds!Submap("Caption"))
  BY DEF Kinds!Manifest
<1>2. "original" \in DOMAIN m
  <2>1. table["original"].when = "always"
    BY <1>1, Fields
  <2> HIDE DEF table
  <2>2. \A k \in DOMAIN table : k \notin DOMAIN m => table[k].when # "always"
    BY ReadsEach DEF table
  <2> QED
    BY <1>1, <2>1, <2>2
<1> HIDE DEF table, w
<1>3. ASSUME Kinds!Encrypted(w) PROVE Kinds!Encrypted(m)
  <2>1. "encryption" \in DOMAIN w /\ table["encryption"].when = "notnull"
    BY <1>1, <1>3, Fields DEF Kinds!Encrypted, Kinds!Has
  <2>2. Kinds!Written(table["encryption"], m, "encryption")
    BY <1>1, <2>1, WrittenAs DEF w
  <2>3. "encryption" \in DOMAIN m /\ m["encryption"] # Kinds!Null
    BY <2>1, <2>2 DEF Kinds!Written, Kinds!Has
  <2> QED
    BY <2>3 DEF Kinds!Encrypted, Kinds!Has
<1>4. w.original = Kinds!RewriteItem(Kinds!Submap("Media"), m.original)
  <2>1. table["original"].when = "always" /\ table["original"].as = Kinds!Submap("Media")
    BY <1>1, Fields
  <2>2. Kinds!Written(table["original"], m, "original")
    BY <1>2, <2>1, WrittenIfThere
  <2>3. w["original"] = Kinds!Rewrite(table["original"].as, m["original"])
    BY <1>1, <2>2, WrittenAs DEF w
  <2> QED
    BY <2>1, <2>3, SubmapRewritten
<1>5. ASSUME Kinds!Encrypted(w),
             NEW x \in {w.original.of} \cup Kinds!Items(w, "renditions") \cup Kinds!Items(w, "captions")
      PROVE  Kinds!Wrapped(x)
  <2>1. \A y \in {m.original.of} \cup Kinds!Items(m, "renditions") \cup Kinds!Items(m, "captions") : Kinds!Wrapped(y)
    BY <1>3, <1>5 DEF Kinds!KeysWrapped
  <2>2. CASE x = w.original.of
    BY <1>4, <2>1, <2>2, WrapStays
  <2>3. CASE x \in Kinds!Items(w, "renditions")
    <3>1. PICK v : x = Kinds!RewriteItem(Kinds!Submap("Rendition"), v).of
            /\ v.of \in Kinds!Items(m, "renditions")
      BY <1>1, <2>3, ItemsRewritten DEF w
    <3> QED
      BY <2>1, <3>1, WrapStays
  <2>4. CASE x \in Kinds!Items(w, "captions")
    <3>1. PICK v : x = Kinds!RewriteItem(Kinds!Submap("Caption"), v).of /\ v.of \in Kinds!Items(m, "captions")
      BY <1>1, <2>4, ItemsRewritten DEF w
    <3> QED
      BY <2>1, <3>1, WrapStays
  <2> QED
    BY <1>5, <2>2, <2>3, <2>4
<1> QED
  BY <1>5 DEF Kinds!KeysWrapped, w, table

\* So do a flag that is set, the kind a record replaces, and the title of a live stream.
LEMMA OthersStay ==
  ASSUME NEW m
  PROVE  /\ Kinds!Revoked(Kinds!RewriteTable(Kinds!Delegate, m)) <=> Kinds!Revoked(m)
         /\ "target_kind" \in DOMAIN m => Kinds!RewriteTable(Kinds!Supersede, m).target_kind = m.target_kind
         /\ Kinds!Has(Kinds!RewriteTable(Kinds!LiveManifest, m), "title") <=> Kinds!Has(m, "title")
<1>1. Kinds!Revoked(Kinds!RewriteTable(Kinds!Delegate, m)) <=> Kinds!Revoked(m)
  <2>. DEFINE table == Kinds!Delegate
              w == Kinds!RewriteTable(table, m)
  <2>1. "revoked" \in DOMAIN table /\ table["revoked"] = Kinds!Default(Kinds!Flag)
    BY DEF Kinds!Delegate
  <2> HIDE DEF table
  <2>2. table["revoked"].when = "true" /\ table["revoked"].as.shape = "bool"
    BY <2>1, Fields, FlatShapes
  <2>3. Kinds!Written(table["revoked"], m, "revoked") <=> "revoked" \in DOMAIN m /\ m["revoked"].is
    BY <2>2 DEF Kinds!Written, Kinds!Has
  <2>4. /\ "revoked" \in DOMAIN w <=> Kinds!Written(table["revoked"], m, "revoked")
        /\ "revoked" \in DOMAIN w => w["revoked"] = Kinds!Rewrite(table["revoked"].as, m["revoked"])
    BY <2>1, WrittenAs
  <2>5. "revoked" \in DOMAIN w => w["revoked"] = m["revoked"]
    BY <2>2, <2>4, PlainStays DEF PlainShapes
  <2> HIDE DEF w
  <2> QED
    BY <2>3, <2>4, <2>5 DEF Kinds!Revoked, Kinds!Has, w, table
<1>2. ASSUME "target_kind" \in DOMAIN m PROVE Kinds!RewriteTable(Kinds!Supersede, m).target_kind = m.target_kind
  <2>. DEFINE table == Kinds!Supersede
              w == Kinds!RewriteTable(table, m)
  <2>1. "target_kind" \in DOMAIN table /\ table["target_kind"] = Kinds!Required(Kinds!Unsigned)
    BY DEF Kinds!Supersede
  <2> HIDE DEF table
  <2>2. table["target_kind"].when = "always" /\ table["target_kind"].as.shape = "uint"
    BY <2>1, Fields, FlatShapes
  <2>3. Kinds!Written(table["target_kind"], m, "target_kind")
    BY <1>2, <2>2, WrittenIfThere
  <2>4. w["target_kind"] = Kinds!Rewrite(table["target_kind"].as, m["target_kind"])
    BY <2>1, <2>3, WrittenAs
  <2>5. w["target_kind"] = m["target_kind"]
    BY <2>2, <2>4, PlainStays DEF PlainShapes
  <2> QED
    BY <2>5 DEF table
<1>3. Kinds!Has(Kinds!RewriteTable(Kinds!LiveManifest, m), "title") <=> Kinds!Has(m, "title")
  <2>. DEFINE table == Kinds!LiveManifest
              w == Kinds!RewriteTable(table, m)
  <2>1. "title" \in DOMAIN table /\ table["title"] = Kinds!Optional(Kinds!TextOf(0, 512))
    BY DEF Kinds!LiveManifest
  <2> HIDE DEF table
  <2>2. table["title"].when = "present"
    BY <2>1, Fields
  <2>3. "title" \in DOMAIN w <=> "title" \in DOMAIN m
    BY <2>1, <2>2, WrittenAs, WrittenIfThere
  <2> QED
    BY <2>3 DEF Kinds!Has, table
<1> QED
  BY <1>1, <1>2, <1>3

\* The tables of the kinds whose rules relate their keys.
LEMMA RelatedTables ==
  /\ Kinds!Registry["manifest"].table = Kinds!Manifest
  /\ Kinds!Registry["delegate"].table = Kinds!Delegate
  /\ Kinds!Registry["supersede"].table = Kinds!Supersede
  /\ Kinds!Registry["live.manifest"].table = Kinds!LiveManifest
<1>1. \A t, l, m, r : Kinds!Kind(t, l, m, r).table = t
  BY DEF Kinds!Kind
<1>2. /\ Kinds!Registry["manifest"] = Kinds!Kind(Kinds!Manifest, 0, 1, {1})
      /\ Kinds!Registry["delegate"] = Kinds!Kind(Kinds!Delegate, 0, 1, {1})
      /\ Kinds!Registry["supersede"] = Kinds!OneRecord(Kinds!Supersede)
      /\ Kinds!Registry["live.manifest"] = Kinds!Kind(Kinds!LiveManifest, 0, 1, {1})
  BY DEF Kinds!Registry, Kinds!KindNames
<1> QED
  BY <1>1, <1>2 DEF Kinds!OneRecord

\* The rules of a record's kind hold for what is written of it.
LEMMA RulesStay ==
  ASSUME NEW r, NEW q, r.kind # "rotation", q.kind = r.kind, q.refs = r.refs,
         NEW table, table = Kinds!Registry[r.kind].table, q.body = Kinds!RewriteTable(table, r.body),
         Kinds!FitsTable(table, r.body), Kinds!Consistent(r)
  PROVE  Kinds!Consistent(q)
<1>1. CASE r.kind = "manifest"
  <2>1. Kinds!KeysWrapped(r.body) /\ table = Kinds!Manifest
    BY <1>1, RelatedTables DEF Kinds!Consistent
  <2>2. Kinds!KeysWrapped(q.body)
    BY <2>1, ManifestStays
  <2> QED
    BY <1>1, <2>2 DEF Kinds!Consistent
<1>2. CASE r.kind = "delegate"
  <2>1. (Kinds!Revoked(r.body) <=> Len(r.refs) = 1) /\ table = Kinds!Delegate
    BY <1>2, RelatedTables DEF Kinds!Consistent
  <2>2. Kinds!Revoked(q.body) <=> Len(q.refs) = 1
    BY <2>1, OthersStay
  <2> QED
    BY <1>2, <2>2 DEF Kinds!Consistent
<1>3. CASE r.kind = "supersede"
  <2>1. r.body.target_kind.is # 1 /\ table = Kinds!Supersede
    BY <1>3, RelatedTables DEF Kinds!Consistent
  <2>2. "target_kind" \in DOMAIN r.body
    <3>1. "target_kind" \in DOMAIN table /\ table["target_kind"] = Kinds!Required(Kinds!Unsigned)
      BY <2>1 DEF Kinds!Supersede
    <3> QED
      BY <3>1, Fields, ReadsEach
  <2>3. q.body.target_kind = r.body.target_kind
    BY <2>1, <2>2, OthersStay
  <2> QED
    BY <1>3, <2>1, <2>3 DEF Kinds!Consistent
<1>4. CASE r.kind = "live.manifest"
  <2>1. (r.refs = <<>> => Kinds!Has(r.body, "title")) /\ table = Kinds!LiveManifest
    BY <1>4, RelatedTables DEF Kinds!Consistent
  <2>2. q.refs = <<>> => Kinds!Has(q.body, "title")
    BY <2>1, OthersStay
  <2> QED
    BY <1>4, <2>2 DEF Kinds!Consistent
<1>5. CASE r.kind \notin {"manifest", "delegate", "supersede", "live.manifest"}
  BY <1>5 DEF Kinds!Consistent
<1> QED
  BY <1>1, <1>2, <1>3, <1>4, <1>5

\* Every value of a body is one of the codec.
Intact(body) == \A k \in DOMAIN body : WellFormed(body[k])

\* A record has a kind, a body of values and refs.
SoundRecord(r) == IsFcn(r) /\ {"kind", "body", "refs"} \subseteq DOMAIN r /\ Intact(r.body)

\* A record is one of a body of values, whatever was changed in it.
KindInv == doc.of = "kind" => SoundRecord(doc.is)

\* A changed field of a record leaves it one.
LEMMA SoundStays ==
  ASSUME NEW r, SoundRecord(r), NEW v
  PROVE  /\ SoundRecord([r EXCEPT !.refs = v])
         /\ Intact(v) => SoundRecord([r EXCEPT !.body = v])
<1>1. r = [x \in DOMAIN r |-> r[x]] /\ {"kind", "body", "refs"} \subseteq DOMAIN r
  BY DEF SoundRecord, IsFcn
<1>2. SoundRecord([r EXCEPT !.refs = v])
  <2>. DEFINE q == [r EXCEPT !.refs = v]
  <2>1. DOMAIN q = DOMAIN r /\ q.body = r.body /\ q = [x \in DOMAIN q |-> q[x]]
    BY <1>1
  <2> HIDE DEF q
  <2>2. SoundRecord(q)
    BY <1>1, <2>1 DEF SoundRecord, IsFcn
  <2> QED
    BY <2>2 DEF q
<1>3. ASSUME Intact(v) PROVE SoundRecord([r EXCEPT !.body = v])
  <2>. DEFINE q == [r EXCEPT !.body = v]
  <2>1. DOMAIN q = DOMAIN r /\ q.body = v /\ q = [x \in DOMAIN q |-> q[x]]
    BY <1>1
  <2> HIDE DEF q
  <2>2. SoundRecord(q)
    BY <1>1, <1>3, <2>1 DEF SoundRecord, IsFcn
  <2> QED
    BY <2>2 DEF q
<1> QED
  BY <1>2, <1>3

\* A map, and a list that is a function, is a value of the codec.
LEMMA BoxesWellFormed ==
  \A x : WellFormed(Kinds!Map(x)) /\ (IsFcn(x) => WellFormed(Kinds!Array(x)))
BY Boxed DEF WellFormed

\* Nor does a change in the body, or in a map inside it.
LEMMA ChangedIntact ==
  ASSUME NEW f, Intact(f), NEW e \in Changed(f) \cup Inside(f)
  PROVE  Intact(e)
<1>1. \A v \in Fillings : WellFormed(v)
  BY SamplesAssumption
<1>2. ASSUME NEW k \in DOMAIN f, NEW v, WellFormed(v) PROVE Intact([f EXCEPT ![k] = v])
  BY <1>2 DEF Intact
<1>3. \A k : Intact(Without(f, k))
  BY DEF Intact, Without
<1>4. CASE e \in Changed(f)
  <2>1. PICK k \in DOMAIN f : e = Without(f, k) \/ \E v \in Fillings : e = [f EXCEPT ![k] = v]
    BY <1>4 DEF Changed
  <2> QED
    BY <1>1, <1>2, <1>3, <2>1
<1>5. CASE e \in Inside(f)
  <2>1. PICK k \in DOMAIN f :
          e \in (CASE f[k].type = "map" -> {[f EXCEPT ![k] = Kinds!Map(m)] : m \in Changed(f[k].of)}
                   [] f[k].type = "array" /\ f[k].of # <<>> ->
                        IF f[k].of[1].type # "map" THEN {}
                        ELSE {[f EXCEPT ![k] = Kinds!Array([f[k].of EXCEPT ![1] = Kinds!Map(m)])] :
                                m \in Changed(f[k].of[1].of)}
                   [] OTHER -> {})
    BY <1>5 DEF Inside
  <2>2. CASE f[k].type = "map"
    <3>1. PICK m : e = [f EXCEPT ![k] = Kinds!Map(m)]
      BY <2>1, <2>2
    <3> QED
      BY <1>2, <3>1, BoxesWellFormed
  <2>3. CASE f[k].type = "array" /\ f[k].of # <<>>
    <3>1. PICK m : e = [f EXCEPT ![k] = Kinds!Array([f[k].of EXCEPT ![1] = Kinds!Map(m)])]
      BY <2>1, <2>3
    <3>. DEFINE g == [f[k].of EXCEPT ![1] = Kinds!Map(m)]
    <3>2. IsFcn(g)
      BY DEF IsFcn
    <3> HIDE DEF g
    <3>3. WellFormed(Kinds!Array(g))
      BY <3>2, BoxesWellFormed
    <3>4. e = [f EXCEPT ![k] = Kinds!Array(g)]
      BY <3>1 DEF g
    <3> QED
      BY <1>2, <3>3, <3>4
  <2> QED
    BY <2>1, <2>2, <2>3
<1> QED
  BY <1>4, <1>5

\* A record stays one, whatever field is changed or dropped.
LEMMA KindInvariant == DocSpec => []KindInv
<1>1. DocInit => KindInv
  <2>1. SUFFICES ASSUME DocInit, doc.of = "kind" PROVE SoundRecord(doc.is)
    BY DEF KindInv
  <2>2. PICK r \in Samples : doc = KindDoc(r, 0)
    BY <2>1 DEF DocInit, BundleDoc
  <2>3. doc.is = r
    BY <2>2 DEF KindDoc
  <2> QED
    BY <2>3, SamplesAssumption DEF SoundRecord, Intact
<1>2. Shaped /\ KindInv /\ [DocNext]_doc => KindInv'
  <2>1. SUFFICES ASSUME Shaped, KindInv, [DocNext]_doc, doc'.of = "kind" PROVE SoundRecord(doc'.is)
    BY DEF KindInv, SoundRecord, Intact, IsFcn, WellFormed
  <2>2. CASE UNCHANGED doc
    BY <2>1, <2>2 DEF KindInv
  <2>3. CASE ~UNCHANGED doc
    <3>1. doc.of = "kind" /\ Alter
      BY <2>1, <2>3, StepsKeepShape
    <3>2. SoundRecord(doc.is)
      BY <2>1, <3>1 DEF KindInv
    <3>3. PICK x : /\ doc'.is = x
                   /\ \/ \E f \in Changed(doc.is.body) \cup Inside(doc.is.body) : x = [doc.is EXCEPT !.body = f]
                      \/ \E v : x = [doc.is EXCEPT !.refs = v]
      <4>1. \A r, n : KindDoc(r, n).is = r
        BY DEF KindDoc
      <4>. DEFINE Refs(v) == [doc.is EXCEPT !.refs = v]
                  refs == doc.is.refs
      <4>2. \/ \E f \in Changed(doc.is.body) \cup Inside(doc.is.body) :
                 doc' = KindDoc([doc.is EXCEPT !.body = f], doc.hurt + 1)
            \/ doc' = KindDoc(Refs(Tail(refs)), doc.hurt + 1)
            \/ doc' = KindDoc(Refs(ReplaceAt(refs, 1, [type |-> "blob"])), doc.hurt + 1)
            \/ doc' = KindDoc(Refs(Append(refs, [type |-> "record"])), doc.hurt + 1)
        BY <3>1 DEF Alter
      <4>3. CASE \E f \in Changed(doc.is.body) \cup Inside(doc.is.body) :
                   doc' = KindDoc([doc.is EXCEPT !.body = f], doc.hurt + 1)
        BY <4>1, <4>3
      <4>4. CASE \E v : doc' = KindDoc(Refs(v), doc.hurt + 1)
        BY <4>1, <4>4
      <4> HIDE DEF Refs, refs
      <4>5. \/ \E f \in Changed(doc.is.body) \cup Inside(doc.is.body) :
                 doc' = KindDoc([doc.is EXCEPT !.body = f], doc.hurt + 1)
            \/ \E v : doc' = KindDoc(Refs(v), doc.hurt + 1)
        BY <4>2
      <4> QED
        BY <4>3, <4>4, <4>5
    <3>4. Intact(doc.is.body)
      BY <3>2 DEF SoundRecord
    <3>5. CASE \E f \in Changed(doc.is.body) \cup Inside(doc.is.body) : x = [doc.is EXCEPT !.body = f]
      <4>1. PICK f \in Changed(doc.is.body) \cup Inside(doc.is.body) : x = [doc.is EXCEPT !.body = f]
        BY <3>5
      <4>2. Intact(f)
        BY <3>4, ChangedIntact
      <4>3. SoundRecord([doc.is EXCEPT !.body = f])
        BY <3>2, <4>2, SoundStays
      <4> QED
        BY <3>3, <4>1, <4>3
    <3>6. CASE \E v : x = [doc.is EXCEPT !.refs = v]
      <4>1. PICK v : x = [doc.is EXCEPT !.refs = v]
        BY <3>6
      <4>2. SoundRecord([doc.is EXCEPT !.refs = v])
        BY <3>2, SoundStays
      <4> QED
        BY <3>3, <4>1, <4>2
    <3> QED
      BY <3>3, <3>5, <3>6
  <2> QED
    BY <2>2, <2>3
<1> QED
  BY <1>1, <1>2, ShapeInvariant, PTL DEF DocSpec

\* A parsed record that is written again is as sound, and the next time the same.
LEMMA RewriteHolds ==
  ASSUME NEW r, SoundRecord(r), Kinds!Parses(r)
  PROVE  LET w == Kinds!Rewritten(r) IN
         /\ Kinds!Parses(w) /\ Kinds!Rewritten(w) = w
         /\ \A k \in (DOMAIN r.body \cap DOMAIN Kinds!Registry[r.kind].table) \ DOMAIN w.body :
              r.body[k] \in {Kinds!Null, Kinds!Array(<<>>), Kinds!Bool(FALSE)}
<1>. DEFINE w == Kinds!Rewritten(r)
            table == Kinds!Registry[r.kind].table
            body == Kinds!RewriteTable(table, r.body)
<1>1. CASE ~(r.kind \in DOMAIN Kinds!Registry /\ r.kind # "rotation")
  <2>1. w = r
    BY <1>1 DEF Kinds!Rewritten
  <2> QED
    BY <2>1
<1>2. CASE r.kind \in DOMAIN Kinds!Registry /\ r.kind # "rotation"
  <2>1. w = [r EXCEPT !.body = body]
    BY <1>2 DEF Kinds!Rewritten
  <2>2. /\ r = [x \in DOMAIN r |-> r[x]] /\ {"kind", "body", "refs"} \subseteq DOMAIN r
        /\ \A k \in DOMAIN r.body : WellFormed(r.body[k])
    BY DEF SoundRecord, IsFcn, Intact
  <2>3. /\ Kinds!RefsFit(Kinds!Registry[r.kind], r.refs) /\ Kinds!FitsTable(table, r.body)
        /\ Kinds!Consistent(r)
    BY <1>2 DEF Kinds!Parses
  <2>4. TableOk(table)
    BY <1>2, RegistryOk
  <2> HIDE DEF w, table
  <2>5. /\ Kinds!FitsTable(table, body) /\ Kinds!RewriteTable(table, body) = body
        /\ \A k \in (DOMAIN r.body \cap DOMAIN table) \ DOMAIN body :
             r.body[k] \in {Kinds!Null, Kinds!Array(<<>>), Kinds!Bool(FALSE)}
    BY <2>2, <2>3, <2>4, TableStays
  <2>6. body = Kinds!RewriteTable(table, r.body)
    OBVIOUS
  <2> HIDE DEF body
  <2>7. w.kind = r.kind /\ w.refs = r.refs /\ w.body = body /\ [w EXCEPT !.body = body] = w
    BY <2>1, <2>2
  <2>8. Kinds!Consistent(w)
    BY <1>2, <2>3, <2>6, <2>7, RulesStay DEF table
  <2>9. Kinds!Parses(w)
    BY <2>3, <2>5, <2>7, <2>8 DEF Kinds!Parses, table
  <2>10. Kinds!Rewritten(w) = w
    <3>1. Kinds!Rewritten(w) = [w EXCEPT !.body = Kinds!RewriteTable(table, w.body)]
      BY <1>2, <2>7 DEF Kinds!Rewritten, table
    <3> QED
      BY <2>5, <2>7, <3>1
  <2> QED
    BY <2>5, <2>7, <2>9, <2>10 DEF w, table
<1> QED
  BY <1>1, <1>2

\* What a kind's wrapper parses and writes again is still valid, is written the same the
\* next time, and has lost nothing but what reads as absent.
THEOREM RewritesAreFaithful == DocSpec => []RewriteIsFaithful
<1>1. KindInv => RewriteIsFaithful
  BY RewriteHolds DEF KindInv, RewriteIsFaithful
<1> QED
  BY <1>1, KindInvariant, PTL

================================================================================
