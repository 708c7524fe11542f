\* Administrators set weight matrices, approve categories and import staff, each
\* racing others of its kind and losing calls; the rate limiter counts requests.
SPECIFICATION AdministrationSpec
CONSTANTS
  Focuses = {"governance", "rates", "import"}
  m1 = m1
  m2 = m2
  m3 = m3
  f1 = f1
  f2 = f2
  p1 = p1
  p2 = p2
  p3 = p3
  e1 = e1
  w1 = w1
  d1 = d1
  z1 = z1
  Setters = {m1, m2, m3}
  Ratio <- OneOnTheEdge
  Categories = {c1}
  Rubrics = {k1, k2}
  Approvers = {a1}
  Readers = {b1}
  NoMatrix = NoMatrix
  NoValue = NoValue
  Callers = {h1, h2}
  MaxRequests = 3
  MaxFaults = 1
  MaxCount = 6
  Imports = {q1, q2, q3}
  Files = {f1, f2}
  Rows <- TwoFiles
  CitizenPhones = {}
  WardNumbers = {w1}
  ZoneCodes = {z1}
  DepartmentCodes = {d1}
  NoWard = NoWard
  NoEmail = NoEmail
  Malformed = Malformed
INVARIANTS
  AdministrationTypeOK
  StaleOnlyIfExcused
  WindowAdmitsTheLimit
  OneProfilePerPhone
  SeatsMatchCorporators
  ImportsAreWhole
  ForecastBinds
PROPERTIES
  ReplacesWhatItRead
  CachesCatchUp
  WindowsEnd
CHECK_DEADLOCK FALSE
