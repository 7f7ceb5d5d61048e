\* A browser that logs in twice, a device clock that jumps once by four seconds
\* (a unit is a quarter of a second for the clock), two calls of syncTime() at a
\* time or a second tab; a countdown of two seconds and a rally of two captains,
\* heard for four; up to twenty-one sockets; two messages sent up to three times;
\* a panel that comes up twice and saves twice; two posts with up to two
\* pictures, and four changes of their form; strokes of up to five places, of which three short
\* ones fit.
\* Every part may come to an end: sessions, changes, time and messages are bounded.
SPECIFICATION Spec
CONSTANTS
  s1 = s1
  Syncs = {s1, s2}
  Skews = {0, 16}
  Delays <- SlowWayBack
  PingTimeout = 6
  SampleCount = 2
  ExtraSampleCount = 1
  DeviationLimit = 1
  JumpLimit = 2
  DriftLimit = 4
  MaxJumps = 1
  MaxFailures = 2
  MaxSessions = 2
  MaxTold = 1
  TotalSeconds = 2
  Marches = {0, 1}
  Fires <- TwoCaptains
  LeadIn = 2
  PreCount = 1
  MaxOffset = 2
  Threshold = 1
  ClockOffsets <- Offsets
  PersonalOffsets = {0, 1}
  EndOfTime = 4
  MaxShows = 1
  MaxMoves = 3
  MaxPauses = 1
  MaxFailedBuffers = 1
  NoPlan = NoPlan
  Crowds = {0, 1, 2, 19, 20, 21}
  RoundTrips = {1, 9}
  OutlierRtt = 5
  FallbackRtt = 2
  Margin = 2
  MaxGrace = 15
  Percent = 95
  Messages = {m1, m2}
  TooLong = TooLong
  Blank = Blank
  MaxSends = 3
  MaxEdits = 3
  Seconds = {1, 2}
  MaxMounts = 2
  MaxSaves = 2
  Posts = {p1}
  Languages = {l1, l2}
  First = l1
  Texts = {d1, d2}
  NoText = NoText
  MaxPictures = 2
  MaxPosts = 2
  MaxChanges = 4
  Places = {1, 4, 10}
  MaxPathLength = 17
  ServerLength = 17
  MaxTrack = 5
INVARIANTS
  TypeOK
  BrowserSound
PROPERTIES
  BrowserSettles
CHECK_DEADLOCK FALSE
