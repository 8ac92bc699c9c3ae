SPECIFICATION Spec
CONSTANTS
  k0 = k0
  k1 = k1
  k2 = k2
  rec1 = rec1
  rec2 = rec2
  t1 = t1
  t2 = t2
  t3 = t3
  x2 = x2
  NoParent = NoParent
  Zero = Zero
  Unseen = Unseen
  Untimed = Untimed
  Rotation <- MCRotation
  ThiefKeys <- MCThiefKeys
  Outsiders <- MCOutsiders
  OwnerRecovery <- MCOwnerRecovery
  GenesisWindow = 1
  LastTime = 3

INVARIANTS
  OnlyKeyHoldersRotate
  Converges
  TheftRecoverable
