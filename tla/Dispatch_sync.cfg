\* One order, two workers with one offline mutation each: conflicts, reviews,
\* adjudication, retries, and the satisfaction loop under a fair clock and cron.
SPECIFICATION Spec
CONSTANTS
  r1 = r1
  r2 = r2
  i1 = i1
  i2 = i2
  w1 = w1
  w2 = w2
  m1 = m1
  m2 = m2
  None = None
  Incidents = {i1}
  Reports = {r1}
  Links <- OneReport
  WorkOrders = {o1}
  Workers = {w1, w2}
  Mutations = {m1, m2}
  Author <- OneEach
  Photos = {p1}
  ConfirmWindow = 1
  MaxTime = 2
  PatchTargets = {"resolved"}
INVARIANTS
  TypeOK
  ReviewMatchesLog
PROPERTIES
  OutcomesAreFinal
  ResolutionIsAnswered
CHECK_DEADLOCK FALSE
