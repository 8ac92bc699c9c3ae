SPECIFICATION FairSpec
CONSTANTS
  r1 = r1
  r2 = r2
  alice = alice
  Absent = Absent
  NoReq = NoReq
  Rec <- MCRec
  Refused <- MCRefused
  KindOf <- MCKindOf
  AuthorOf <- MCAuthorOf
  RefsOf <- MCRefsOf
  Filters = {}
  KindDays <- NoKindDays
  DefaultDays = 365
  DefaultLimit = 1
  MaxInt = 1000
  MaxSeq = 2
  Capacity = 1
  MaxBreaks = 2
INVARIANTS
  GapsHaveCauses
  ConnectionCarriesAll
PROPERTIES
  EventuallyPassed
CHECK_DEADLOCK FALSE
