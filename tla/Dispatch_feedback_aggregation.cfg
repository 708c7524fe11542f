\* Standing invariant 3 with citizen feedback.
SPECIFICATION Spec
CONSTANTS
  r1 = r1
  r2 = r2
  i1 = i1
  i2 = i2
  w1 = w1
  w2 = w2
  m1 = m1
  m2 = m2
  None = None
  Incidents = {i1, i2}
  Reports = {r1, r2}
  Links <- OverlappingReports
  WorkOrders = {o1, o2}
  Workers = {w1}
  Mutations = {}
  Author <- NoMutation
  Photos = {p1}
  ConfirmWindow = 1
  MaxTime = 1
  PatchTargets = {"resolved"}
INVARIANTS
  ReportsAggregated
CHECK_DEADLOCK FALSE
