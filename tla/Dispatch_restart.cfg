\* A completed order and a start that was captured offline.
SPECIFICATION Spec
CONSTANTS
  r1 = r1
  r2 = r2
  i1 = i1
  i2 = i2
  w1 = w1
  w2 = w2
  m1 = m1
  m2 = m2
  None = None
  Incidents = {i1}
  Reports = {r1}
  Links <- OneReport
  WorkOrders = {o1}
  Workers = {w1}
  Mutations = {m1}
  Author <- OnlyW1
  Photos = {p1}
  ConfirmWindow = 1
  MaxTime = 2
  PatchTargets = {"resolved"}
PROPERTIES
  CompletedOrderStaysCompleted
CHECK_DEADLOCK FALSE
