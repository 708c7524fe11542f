\* Three requests at a time: any of seven calls over two incidents, two reports
\* that share one, and a work order; or, over one order, a resolution and a start
\* from offline devices, the REST endpoints, two supervisors and a dispatcher.
SPECIFICATION RacesSpec
CONSTANTS
  Focuses = {"statuses", "orders"}
  t1 = t1
  t2 = t2
  t3 = t3
  r1 = r1
  r2 = r2
  i1 = i1
  i2 = i2
  o1 = o1
  w1 = w1
  w2 = w2
  p1 = p1
  p2 = p2
  m1 = m1
  m2 = m2
  None = None
  Incidents = {i1, i2}
  Reports = {r1, r2}
  Links <- SharedSecond
  Orders = {o1}
  OrderOf <- OrderOnSecond
  Requests = {t1, t2, t3}
  Calls <- SomeCalls
  StartStatuses = {"in_progress", "resolved"}
  Null = Null
  WorkOrders = {o1}
  Workers = {w1, w2}
  Photos = {p1, p2}
  TakenBy <- Owners
  Mutations = {m1, m2}
  Author <- Authors
  Target <- Targets
  Evidence <- ResolutionAndStart
  Handlers = {t1, t2, t3}
SYMMETRY SymmetricRequests
INVARIANTS
  RacesTypeOK
  SingleChildAggregated
  ForeignProofNeedsOverlap
  QueueFollowsLog
PROPERTIES
  LoneHandlerRepairs
  ResolveCompletesItsOrder
  UndisturbedHandlersAreSerial
CHECK_DEADLOCK FALSE
