\* The alliance countdown alone: three requests, a browser that comes and
\* goes, restarts, timers that fire a tick early.
SPECIFICATION Spec
CONSTANTS
  Groups = {}
  CdCalls = {c1, c2, c3}
  RallyCalls = {}
  Requests = {}
  Schedules <- NoSchedules
  Totals = {1, 2}
  Graces = {0, 1}
  ReleaseGrace = 1
  EarlyFire = 1
  Lead = 1
  IdleGrace = 1
  Faults = {"clientDrop", "restart"}
INVARIANTS
  ActiveHoldsLock
  LeaseEndsWithCountdown
  CountdownSeen
  BusySeen
PROPERTIES
  EndsOnTimeOrByStop
SYMMETRY CallSymmetry
