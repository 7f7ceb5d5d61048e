\* Three uploads against a quota of two, an image and a background with two
\* saved boards and two requests that delete them, or one beside a purge, two changes of a list; a
\* number and a phrase for three browsers and one slot, two releases; a group
\* of at most two with three captains and two requests, four requests about
\* three groups of at most two; two containers, three migrations and one change
\* of a text.
\* Every part may come to an end: the requests are made once.
SPECIFICATION Spec
CONSTANTS
  Uploads = {a, b, c}
  Quota = 4
  FileLimit = 2
  Images = {i1}
  Backgrounds = {f1}
  Posts = {p1}
  Boards = {b1, b2}
  Removers = {m1, m2}
  None = None
  Nicknames = {k1}
  Requests = {r1, r2}
  Clients = {c1}
  MaxSecond = 2
  n1 = n1
  w1 = w1
  ko = ko
  a1 = a1
  m1 = m1
  Numbers = {n1}
  Phrases = {w1}
  Voices = {ko}
  VoiceOf <- SpokenBy
  Asks = {a1, a2, a3}
  Slots = 1
  MaxAttempts = 2
  MaxReleases = 2
  NoAsk = NoAsk
  Captains = {u1, u2, u3}
  Leavers = {u1}
  Times = {0, 1}
  MaxMembers = 2
  Calls = {q1, q2}
  RallyIds = {g1, g2, g3}
  MaxGroups = 2
  Edits = {e1, e2, e3, e4}
  Unset = Unset
  Runners = {x1, x2}
  SqlFiles = {1, 2, 3}
  Statements <- TwoOfEach
  Atomic = {3}
  Guarded = {1}
  MaxDeploys = 1
  NoRunner = NoRunner
INVARIANTS
  TypeOK
  StorageSound
PROPERTIES
  WaitersEnd
  FilesSurvive
  ListsTrue
CHECK_DEADLOCK FALSE
