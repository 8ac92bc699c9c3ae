---------------------------- MODULE RotationChain ----------------------------
(***************************************************************************)
(* Identity verification: Identity::verify_chain of the kernel             *)
(* (crates/evermesh-kernel/src/identity.rs) as a function of the rotation  *)
(* records a verifier holds and of when it first saw each, and a verifier  *)
(* that receives rotations in any order while its clock moves.             *)
(*                                                                         *)
(* A rotation is a record                                                  *)
(*   [id, parent, identity, signer, key, recovery, window]                 *)
(* whose body parses and which Record::verify accepts: the function skips  *)
(* all other records.  A key stands for its algorithm and its bytes; ids   *)
(* are numbers because only their bytewise order matters.                  *)
(***************************************************************************)
EXTENDS Integers, FiniteSets

CONSTANTS
  Rotation,     \* every rotation anybody publishes
  NoParent,     \* no record reference: a genesis
  Zero,         \* IdentityId::ZERO, the author identity of a genesis
  Unseen,       \* not received yet
  Untimed,      \* received, but observed_at answers None
  LastTime,     \* bound: clock values
  ThiefKeys,    \* keys of somebody who stole the genesis signing key and no other
  Outsiders,    \* keys only ever introduced by signers without authority
  OwnerRecovery \* the rotation the owner signs with the recovery key

ASSUME RotationAssumption ==
  /\ \A r \in Rotation : r.id \in Nat /\ r.window \in Nat
  /\ \A r, s \in Rotation : r.id = s.id => r = s
  /\ IsFiniteSet(Rotation) /\ OwnerRecovery \in Rotation
  /\ \A r \in Rotation : r.id # NoParent /\ r.id # Zero
  /\ LastTime \in Nat /\ Unseen # Untimed
  /\ Unseen \notin 0..LastTime /\ Untimed \notin 0..LastTime

VARIABLES
  seen,         \* for each rotation: Unseen, Untimed, or the time it was first seen
  now           \* the verifier's clock

vars == <<seen, now>>

Held(obs) == {r \in Rotation : obs[r] # Unseen}

-----------------------------------------------------------------------------
(* verify_chain *)

Error == [error |-> TRUE]

\* Step 1: self-signed records of the zero identity without refs.
Geneses(S) == {r \in S : r.parent = NoParent /\ r.identity = Zero /\ r.signer = r.key}

\* Step 2: the rotations of identity g indexed by parent.
Children(S, g, p) == {r \in S : r.parent = p.id /\ r.identity = g.id}

\* A rotation replaces the whole state, so p also stands for the state at p.
SigningChildren(S, g, p) == {r \in Children(S, g, p) : r.signer = p.key}

\* Seeded defect: whoever signs is let through.
AnySignersChildren(S, g, p) == {r \in Children(S, g, p) : r.signer # p.key}

RecoveryChildren(S, g, p) ==
  {r \in Children(S, g, p) : r.signer # p.key /\ r.signer \in p.recovery}

\* Seeded defect: a rotation is final by the window it declares itself.
IsFinalByOwnWindow(r, p, obs, t) ==
  obs[r] # Untimed /\ t - obs[r] >= 0 /\ t - obs[r] > r.window

\* Final after the window in force at the parent.  The elapsed time is compared as a
\* u64, like the window: a negative one, from a clock set back, exceeds nothing.
IsFinal(r, p, obs, t) ==
  obs[r] # Untimed /\ t - obs[r] >= 0 /\ t - obs[r] > p.window

FirstSeen(obs, r) == IF obs[r] = Untimed THEN LastTime + 1 ELSE obs[r]

\* Seeded defect: the rotation received first wins.
Earliest(C, obs) == {r \in C : \A x \in C : FirstSeen(obs, r) <= FirstSeen(obs, x)}

Lowest(C, obs) == {r \in C : \A x \in C : r.id <= x.id}

\* The child the chain continues with, if there is one.
Chosen(S, g, p, obs, t) ==
  LET signing == SigningChildren(S, g, p)
      recovery == RecoveryChildren(S, g, p)
      final == {r \in signing : IsFinal(r, p, obs, t)}
      candidates ==
        IF p.window = 0 THEN signing \cup recovery
        ELSE IF final # {} THEN final
        ELSE IF recovery # {} THEN recovery
        ELSE signing
  IN  Lowest(candidates, obs)

\* Step 3: the walk from genesis.  Parents are hashes, so there is no cycle and the
\* walk ends within one step per record held; its last rotation is the state.
Walk(S, g, obs, t) ==
  LET continue == [p \in S |->
        LET C == Chosen(S, g, p, obs, t) IN IF C = {} THEN p ELSE CHOOSE r \in C : TRUE]
      at[n \in Nat] == IF n = 0 THEN g ELSE continue[at[n - 1]]
  IN  at[Cardinality(S)]

VerifyChain(S, obs, t) ==
  IF Cardinality(Geneses(S)) # 1 THEN Error
  ELSE Walk(S, CHOOSE g \in Geneses(S) : TRUE, obs, t)

-----------------------------------------------------------------------------
(* Who may rotate *)

Parent(r) == CHOOSE x \in Rotation : x.id = r.parent

\* The holder of p's key, or of one of its recovery keys, signed r to follow p.
Follows(r, p) == r.parent = p.id /\ (r.signer = p.key \/ r.signer \in p.recovery)

\* Whatever the holders of keys in force can put on a chain: the least set with every
\* genesis and every rotation that follows a member.
Closed(L) ==
  Geneses(Rotation) \subseteq L /\ \A p \in L, r \in Rotation : Follows(r, p) => r \in L

Authorised == {r \in Rotation : \A L \in SUBSET Rotation : Closed(L) => r \in L}

\* The same without what the key of the genesis that the owner's recovery follows has
\* signed to replace it: who stole that key and no other has no part in it.
Fork == Parent(OwnerRecovery)

ClosedButForTheft(L) ==
  /\ Geneses(Rotation) \subseteq L
  /\ \A p \in L, r \in Rotation : Follows(r, p) /\ ~(p = Fork /\ r.signer = Fork.key) => r \in L

WithoutTheft == {r \in Rotation : \A L \in SUBSET Rotation : ClosedButForTheft(L) => r \in L}

ASSUME OutsidersAssumption == \A r \in Authorised : r.key \notin Outsiders

\* The owner's rotation is signed with a recovery key of a genesis, and no key of the
\* thief's is any good without the stolen one.
ASSUME TheftAssumption ==
  /\ Fork \in Geneses(Rotation) /\ OwnerRecovery.parent = Fork.id
  /\ OwnerRecovery.identity = Fork.id
  /\ OwnerRecovery.signer \in Fork.recovery \ {Fork.key}
  /\ \A r \in WithoutTheft : r.key \notin ThiefKeys

-----------------------------------------------------------------------------
(* A verifier *)

Init ==
  /\ seen = [r \in Rotation |-> Unseen]
  /\ now = 0

\* Relays deliver in any order; the caller may or may not keep the time.  Nothing
\* asks for the time of a genesis.
Receive(r) ==
  /\ seen[r] = Unseen
  /\ \E t \in {now, Untimed} :
       /\ r.parent = NoParent => t = Untimed
       /\ seen' = [seen EXCEPT ![r] = t]
  /\ UNCHANGED now

Tick == now < LastTime /\ now' = now + 1 /\ UNCHANGED seen

\* The clock is corrected backwards.
StepBack == now > 0 /\ now' = now - 1 /\ UNCHANGED seen

Next == (\E r \in Rotation : Receive(r)) \/ Tick \/ StepBack

Spec == Init /\ [][Next]_vars

Current == VerifyChain(Held(seen), seen, now)

Verified == Current # Error

-----------------------------------------------------------------------------
(* Properties *)

\* The path from genesis to a rotation: the rotation, its parent, and so on.
Path(r) ==
  {x \in Rotation : \A A \in SUBSET Rotation :
     r \in A /\ (\A y \in A, z \in Rotation : y.parent = z.id => z \in A) => x \in A}

\* The computed state comes from a held rotation whose whole path is held.
TypeOK ==
  /\ seen \in [Rotation -> {Unseen, Untimed} \cup 0..LastTime]
  /\ now \in 0..LastTime
  /\ Verified => Path(Current) \subseteq Held(seen)

\* Only holders of a key in force can move an identity: a rotation signed by a
\* stranger, or by a recovery key that an applied rotation has replaced, never puts
\* its key in charge, in whatever order the records arrive.
OnlyKeyHoldersRotate == Verified => Current.key \notin Outsiders

\* Every rotation held after genesis was first seen longer ago than any window.
Settled ==
  \A r, x \in Held(seen) :
    r.parent # NoParent => seen[r] # Untimed /\ now - seen[r] > x.window

\* Verifiers converge: once everything held is final, the state depends on the set
\* of records alone and not on when or in which order they came.
Converges ==
  Settled =>
    Current = VerifyChain(Held(seen), [r \in Rotation |-> now], now + LastTime + 1)

\* Theft recovery: while no rotation signed with the stolen genesis key has outlived
\* the window declared at genesis, a verifier that holds the owner's recovery
\* rotation does not accept the thief's key, however long the thief's branch is and
\* whatever window it declares for itself.
TheftRecoverable ==
  /\ Verified
  /\ OwnerRecovery \in Held(seen)
  /\ Fork.window > 0
  /\ \A r \in Held(seen) : r.parent = Fork.id /\ r.signer = Fork.key =>
       seen[r] = Untimed \/ now - seen[r] <= Fork.window
  => Current.key \notin ThiefKeys

\* "A thief holding a stolen signing key cannot outrun the recovery-key holder"
\* (spec/002-identity.md section 4, rule 2a): a verifier that has accepted the
\* owner's recovery rotation does not return to the thief's key.
RecoveryHolds ==
  [][Verified /\ OwnerRecovery \in Path(Current)
       => Current'.key \notin ThiefKeys]_vars

=============================================================================
