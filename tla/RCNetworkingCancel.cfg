SPECIFICATION Spec
CONSTANTS
  m1 = m1
  m2 = m2
  s1 = s1
  Managers = {m1, m2}
  Key = {k1}
  Body <- Bodies
  Seconds = {1}
  NoRecord = NoRecord
  MaxTime = 1
  MaxCalls = 2
  Sessions = {s1}
  NoSession = NoSession
  SessionOf <- SessionPerRequest
  Policy <- BothLayers
  MemorySeconds = 1
  DiskSeconds = 1
  ServiceKeepsBody = TRUE
  ParamVerdicts = {"noError", "paramsError"}
  BodyVerdicts = {"noError", "noContent", "needLogin"}
  Failures = {"timeout"}
  Discipline = "notLoading"
PROPERTY
  CancelsOnlyOwn
CHECK_DEADLOCK FALSE
