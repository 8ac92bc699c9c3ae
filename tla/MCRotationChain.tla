--------------------------- MODULE MCRotationChain ---------------------------
EXTENDS RotationChain

CONSTANTS k0, k1, k2, rec1, rec2, t1, t2, t3, x2

\* The contest window declared at genesis.
CONSTANT GenesisWindow

Rot(id, parent, signer, key, recovery, window) ==
  [id |-> id, parent |-> parent, identity |-> 5, signer |-> signer, key |-> key,
   recovery |-> recovery, window |-> window]

Genesis == [Rot(5, NoParent, k0, k0, {rec1}, GenesisWindow) EXCEPT !.identity = Zero]

\* The thief rotates with the stolen key, twice, once with a lower id than the
\* owner's rotation; the first branch drops the recovery key and the window.
Theft == Rot(6, 5, k0, t1, {t1}, 0)
TheftAgain == Rot(7, 6, t1, t2, {t1}, 0)
TheftLow == Rot(1, 5, k0, t3, {}, 1)

\* The owner answers with the recovery key, then replaces it.
Recover == Rot(4, 5, rec1, k1, {rec1}, 1)
Renew == Rot(3, 4, k1, k2, {rec2}, 1)

\* The recovery key it replaced signs once more.
Replaced == Rot(2, 3, rec1, x2, {}, 1)

MCRotation == {Genesis, Theft, TheftAgain, TheftLow, Recover, Renew, Replaced}
MCThiefKeys == {t1, t2, t3}
MCOutsiders == {x2}
MCOwnerRecovery == Recover

=============================================================================
