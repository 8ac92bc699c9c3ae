SPECIFICATION FairSpec
CONSTANTS
  r1 = r1
  r2 = r2
  bad = bad
  alice = alice
  Absent = Absent
  None = None
  pub = pub
  sub = sub
  s1 = s1
  Client = {pub, sub}
  Sends <- MCSendsLimited
  SubId = {s1}
  Rec <- MCRecOne
  Forged <- MCNoForged
  KindOf <- MCKindOf
  AuthorOf <- MCAuthorOf
  RefsOf <- MCRefsOf
  Filters <- MCOnlyFirst
  KindDays <- NoKindDays
  DefaultDays = 365
  DefaultLimit = 500
  MaxInt = 1000
  MaxSeq = 2
  Capacity = 1
  RatePerKey = 1
  InCap = 1
  OutCap = 1
PROPERTIES
  EventuallyDelivered
