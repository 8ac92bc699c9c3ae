SPECIFICATION Spec
CONSTANTS
  r1 = r1
  r2 = r2
  r3 = r3
  a1 = a1
  a2 = a2
  Absent = Absent
  Rec <- MCRec
  KindOf <- MCKindOf
  AuthorOf <- MCAuthorOf
  RefsOf <- MCRefsOf
  Filters <- MCFilters
  KindDays <- MCKindDays
  DefaultDays = 1
  DefaultLimit = 2
  MaxInt = 5
  MaxSeq = 5
  LastDay = 4
INVARIANTS
  BackfillAgreesWithLive
PROPERTIES
  SeqStrictlyIncreasing
  PruneIsExact
