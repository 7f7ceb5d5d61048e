\* Two groups, one request at a time about each, next to the alliance countdown.
SPECIFICATION Spec
CONSTANTS
  Groups = {g1, g2}
  CdCalls = {c1}
  RallyCalls = {r1, r2}
  Requests = {"start", "stop"}
  Schedules <- OneFire
  Totals = {1}
  Graces = {0}
  ReleaseGrace = 1
  EarlyFire = 1
  Lead = 1
  IdleGrace = 1
  Faults = {}
INVARIANTS
  RunningIsBacked
  OnlyHolderIsHeard
SYMMETRY BattleSymmetry
