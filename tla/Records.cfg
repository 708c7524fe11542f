\* A citizen's submissions become incidents, incidents become reports' statuses,
\* are linked as causes and published: each component with everything that races.
SPECIFICATION RecordsSpec
CONSTANTS
  Focuses = {"reports", "causal", "ledger", "intake"}
  r1 = r1
  r2 = r2
  i1 = i1
  i2 = i2
  i3 = i3
  n1 = n1
  n2 = n2
  n3 = n3
  roads = roads
  water = water
  pothole = pothole
  leak = leak
  other = other
  Incidents = {i1, i2, i3}
  Reports = {r1, r2}
  Links <- ThreeAndOne
  Nodes = {n1, n2, n3}
  BasePriority <- Priorities
  LinkRequests = {q1, q2, q3}
  NoLink = NoLink
  Milestones = {reported, assigned, resolved}
  Points = {x, y}
  Offsets = {1, 2}
  Times = {3, 4}
  Created = 0
  Publishers = {p1, p2, p3}
  Genesis = Genesis
  Submissions = {s1, s2}
  Payloads <- Sent
  Departments <- RoadsAndWater
  Approved <- ApprovedCategories
  Pothole = pothole
  Unclassified = Unclassified
  MoveTargets = {"resolved", "rejected"}
  MaxEra = 1
INVARIANTS
  RecordsTypeOK
  NoChildLeftBehind
  CountNeverOverstates
  ChainVerifies
  OneNoise
  TamperEvident
  NoLoneDuplicate
  FiledAggregated
PROPERTIES
  ReportsFollowProgress
  CheckedLinkKeepsAcyclic
  FarMergeNeedsEverything
CHECK_DEADLOCK FALSE
