SPECIFICATION Spec
CONSTANTS
  north = north
  south = south
  r1 = r1
  r2 = r2
  Req = Req
  Answer = Answer
  None = None
  Rec <- MCRec
  Relays <- MCRelays
  Links <- MCLinks
  HomesOf <- MCHomes
  Room = 1
  Capacity = 1
  BackfillLimit = 1
  MaxBreaks = 2
INVARIANTS
  NothingLostSilently
  CyclesAreHarmless
PROPERTY
  GossipSettles
CHECK_DEADLOCK FALSE
