\* One group, one request at a time about it, next to the alliance countdown.
SPECIFICATION Spec
CONSTANTS
  Groups = {g1}
  CdCalls = {c1}
  RallyCalls = {r1}
  Requests = {"start", "stop"}
  Schedules <- OneFire
  Totals = {1}
  Graces = {0}
  ReleaseGrace = 1
  EarlyFire = 1
  Lead = 1
  IdleGrace = 1
  Faults = {}
PROPERTIES
  GateSpec
  RunningEnds
  CountdownEnds
  BusyClears
  JobsEnd
