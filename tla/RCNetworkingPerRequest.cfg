SPECIFICATION Spec
CONSTANTS
  m1 = m1
  m2 = m2
  s1 = s1
  Managers = {m1, m2}
  Key = {k1}
  Body <- Bodies
  Seconds = {1}
  NoRecord = NoRecord
  MaxTime = 0
  MaxCalls = 3
  Sessions = {s1}
  NoSession = NoSession
  SessionOf <- SessionPerRequest
  Policy <- NoLayers
  MemorySeconds = 1
  DiskSeconds = 1
  ServiceKeepsBody = FALSE
  ParamVerdicts = {"noError"}
  BodyVerdicts = {"noError", "noContent"}
  Failures = {"timeout"}
  Discipline = "any"
SYMMETRY ManagerSymmetry
INVARIANTS
  EveryCallCarried
  LoadingMeansInFlight
CHECK_DEADLOCK FALSE
