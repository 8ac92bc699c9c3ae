SPECIFICATION Spec
CONSTANTS
  m = m
  edit = edit
  forged = forged
  away = away
  like = like
  love = love
  unlike = unlike
  add = add
  del = del
  ours = ours
  ch = ch
  alice = alice
  bob = bob
  org = org
  gw = gw
  f = f
  p1 = p1
  p2 = p2
  None = None
  Rec = {m, edit, forged, away, like, love, unlike, add, del, ours}
  KindOf <- MCKindOf
  AuthorOf <- MCAuthorOf
  RefsOf <- MCRefsOf
  BatchOf <- MCBatchOf
  TargetKind <- MCTargetKind
  Feed = {f}
  Files <- MCFiles
  Blob = {}
  Local = {m}
  Own = {ours}
  Run = {p1, p2}
  MaxClock = 1
  MaxStored = 3
SYMMETRY MCRunSymmetry
INVARIANTS
  StoredIsIndexed
  LastReactionCounts
PROPERTIES
  OnlyTheAuthorChanges
  RetractionStands
  BatchAppliedOnce
