SPECIFICATION Spec
CONSTANTS
  t1 = t1
  t2 = t2
  video = video
  mirror = mirror
  clip = clip
  cover = cover
  small = small
  None = None
  Tasks = {t1, t2}
  Manifests <- MCManifests
  Blobs <- MCBlobs
  MediaOf <- MCMediaOf
  ThumbOf <- MCThumbOf
  RootOf <- MCRootOf
  Budgets = {small}
  Chunks = 2
  MaxPins = 2
  MaxCrashes = 1
SYMMETRY Interchangeable
INVARIANTS
  PlayableIsVerified
  PinKeepsItsFile
  PinIsListed
CHECK_DEADLOCK FALSE
