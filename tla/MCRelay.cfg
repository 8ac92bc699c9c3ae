SPECIFICATION Spec
CONSTANTS
  r1 = r1
  r2 = r2
  bad = bad
  alice = alice
  Absent = Absent
  None = None
  pub = pub
  sub = sub
  s1 = s1
  Client = {pub, sub}
  Sends <- MCSends
  SubId = {s1}
  Rec <- MCRec
  Forged <- MCForged
  KindOf <- MCKindOf
  AuthorOf <- MCAuthorOf
  RefsOf <- MCRefsOf
  Filters <- MCLatest
  KindDays <- NoKindDays
  DefaultDays = 365
  DefaultLimit = 500
  MaxInt = 1000
  MaxSeq = 2
  Capacity = 1
  RatePerKey = 0
  InCap = 1
  OutCap = 1
SYMMETRY MCRecordSymmetry
INVARIANTS
  OkMeansStored
  NoSilentGap
PROPERTIES
  ImplementsLog
