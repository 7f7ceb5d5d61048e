\* Everything at once: requests of every kind, failing queries, a browser that
\* comes and goes, restarts, leases that end under a slow start.
SPECIFICATION Spec
CONSTANTS
  Groups = {g1}
  CdCalls = {c1}
  RallyCalls = {r1}
  Requests = {"start", "stop", "remove", "publish"}
  Schedules <- OneOrTwoFires
  Totals = {1}
  Graces = {0}
  ReleaseGrace = 1
  EarlyFire = 1
  Lead = 1
  IdleGrace = 1
  Faults = {"overlap", "dbError", "slowDb", "clientDrop", "probeError", "restart"}
INVARIANTS
  TypeOK
  LeaseOfHolder
PROPERTIES
  RallyLosesLockByItself
