\* A countdown:stop during the probe of a start, and a second start.
SPECIFICATION Spec
CONSTANTS
  Groups = {}
  CdCalls = {c1, c2, c3}
  RallyCalls = {}
  Requests = {}
  Schedules <- NoSchedules
  Totals = {1, 2}
  Graces = {0, 1}
  ReleaseGrace = 1
  EarlyFire = 1
  Lead = 1
  IdleGrace = 1
  Faults = {}
PROPERTIES NeverReplaced
