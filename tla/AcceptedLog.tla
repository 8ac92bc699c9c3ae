----------------------------- MODULE AcceptedLog -----------------------------
(***************************************************************************)
(* What a relay promises about the records it accepts, independently of    *)
(* connections, sockets and tasks (spec/006-relay.md sections 2 and 4):    *)
(* a record is accepted once, under a receipt sequence larger than every   *)
(* earlier one, and announced to the live subscribers and gossip peers at  *)
(* most once, after it was accepted.  Announcements need not follow        *)
(* receipt order, and a crash may leave an accepted record unannounced.    *)
(***************************************************************************)
EXTENDS Integers, Sequences

CONSTANT Rec

VARIABLES
  accepted,     \* set of [seq, rec]
  announced     \* the entries announced so far, in announcement order

vars == <<accepted, announced>>

Init == accepted = {} /\ announced = <<>>

Accept ==
  \E e \in accepted' :
    /\ e.seq \in Nat /\ e.rec \in Rec
    /\ \A x \in accepted : x.rec # e.rec /\ x.seq < e.seq
    /\ accepted' = accepted \cup {e}
    /\ UNCHANGED announced

Announce ==
  \E e \in accepted :
    /\ \A i \in 1..Len(announced) : announced[i] # e
    /\ announced' = Append(announced, e)
    /\ UNCHANGED accepted

Next == Accept \/ Announce

Spec == Init /\ [][Next]_vars

=============================================================================
