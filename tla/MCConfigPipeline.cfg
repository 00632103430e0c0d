SPECIFICATION Spec
CHECK_DEADLOCK FALSE
CONSTANTS
  c1 = c1
  c2 = c2
  bad = bad
  r1 = r1
  r2 = r2
  r3 = r3
  u1 = u1
  h1 = h1
  h2 = h2
  None = None
  Boot = Boot
  Malformed = Malformed
  Configs = {c1, c2, bad}
  RevIds = {r1, r2, r3, u1}
  HashId <- MCHashId
  Compilable <- MCCompilable
  HistoryLimit <- MCHistoryLimit
  DefaultLimit = 1
  FirstConfigs = {c1}
  Calls = {h1, h2}
  EarlyCalls = FALSE
  FilesMayFail = FALSE
  Disturbances = {"edit", "publish", "rollback", "update", "reload", "control crash", "gateway crash"}
  MaxEvents = 2
INVARIANTS
  TypeOK
PROPERTIES
  ServedIsRecorded
  ImplementsPublisher
  ImplementsGateway
