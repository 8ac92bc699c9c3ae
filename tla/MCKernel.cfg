SPECIFICATION Spec
CONSTANTS
  r1 = r1
  r2 = r2
  bad = bad
  Utf8 <- MCUtf8
  MaxDepth = 3
  MaxString = 4
  HashSize = 1
  KeySize = 1
  SigSize = 2
  Sign <- MCSign
  MaxI64 <- MCMaxI64
  IdSize = 1
  MaxSubId = 2
  Name <- MCName
  Alphabet <- MCAlphabet
  MaxBytes = 4
  Noise <- MCNoise
  Atoms <- MCAtoms
  Keys <- MCKeys
  MaxWraps = 1
  Strays <- MCStrays
  Drafts <- MCDrafts
  Frames <- MCFrames
  MaxBlob = 9
  Exports <- MCExports
  MaxHurt = 2
  Samples <- MCSamples
  Fillings <- MCFillings
  Renditions <- MCRenditions
  Announces <- MCAnnounces
  MaxEntries = 3
  PartSize = 2
  Threshold = 2
  Valid = {r1, r2}
  ChunkSize = 2
  ReadBufSize = 3
  DigestSize = 1
  Prefix = 30
  LargestI64 = 100
CHECK_DEADLOCK FALSE
INVARIANTS
  EncodingIsBijective
  ReadersHaveOneMeaning
  BlobsVerify
  PublicationHolds
  SalvageIsComplete
  RewriteIsFaithful
  DerivationBindsMedia
