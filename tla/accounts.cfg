\* Three logins and two refreshes of one account; a tab that has two requests
\* under way; two users, one of whom watches; windows of two ticks.
\* Every part may come to an end: logins, edits and the clock are bounded.
SPECIFICATION Spec
CONSTANTS
  Logins = {l1, l2, l3}
  Refreshes = {r1, r2}
  MaxSessions = 1
  Tabs = {t1}
  Slots = {s1, s2}
  MaxLogins = 1
  MaxJti = 3
  Users = {u1, u2}
  Sockets = {v, w}
  Viewer = v
  MaxEdits = 1
  Accounts = {a}
  Ips = {x, y, z}
  AccountLimit = 2
  PairLimit = 2
  SweepFloor = 2
  MaxKeys = 2
  Callers = {c, d}
  CallerLimit = 2
  GlobalLimit = 3
  EventSockets = {e}
  EventLimit = 2
  Window = 2
  MaxTime = 4
  MaxEvictions = 1
INVARIANTS
  TypeOK
  PresenceTrue
  LimitsHold
PROPERTIES
  TokensSound
  SessionLasts
  SessionSettles
CHECK_DEADLOCK FALSE
