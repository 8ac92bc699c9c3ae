SPECIFICATION PartsSpec
CONSTANTS
  c1 = c1
  c2 = c2
  c3 = c3
  e1 = e1
  e2 = e2
  alice = alice
  Calls = {c1, c2, c3}
  Exports = {e1, e2}
  Handles = {alice}
  Own = Own
  None = None
  Window = 2
  MaxAttempts = 1
  MaxClock = 2
  MaxCrashes = 1
  r1 = r1
  r2 = r2
  Rec = {r1, r2}
  NoCall = NoCall
  MaxPublish = 2
  MaxBreaks = 1
  u1 = u1
  u2 = u2
  film = film
  song = song
  frame = frame
  art = art
  banned = banned
  small = small
  opus = opus
  init = init
  part = part
  Uploads = {u1, u2}
  OnlyUpload = u1
  OnlyFile = film
  Halves = {init, part}
  Contents = {film, song, frame, art, banned, small, opus, init, part}
  Files = {film, song, banned}
  Covers = {None, art, banned}
  Video = {film}
  ThumbOf <- MCThumbOf
  Targets <- MCTargets
  AudioTargets <- MCAudioTargets
  RenditionOf <- MCRenditionOf
  SegmentsOf <- MCSegmentsOf
  Matches = {banned, part}
  Ffmpeg = TRUE
  p1 = p1
  p2 = p2
  g1 = g1
  ones = ones
  twos = twos
  Puts = {p1, p2}
  Gets = {g1}
  Chunks = {ones, twos}
  MaxBytes = 1
CHECK_DEADLOCK FALSE
INVARIANTS
  AccountsHold
  ExportRate
  PublishHolds
  StoreIsSound
  PublishedIsPlayable
  SidecarHolds
PROPERTIES
  ReachesTheRelay
  EveryCallReturns
  EveryUploadSettles
