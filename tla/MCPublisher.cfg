SPECIFICATION Spec
CONSTANTS
  c1 = c1
  c2 = c2
  c3 = c3
  bad = bad
  r1 = r1
  r3 = r3
  r4 = r4
  u1 = u1
  None = None
  Configs = {c1, c2, c3}
  LegacyConfigs = {c1}
  RevIds = {r1, r3, u1}
  HashId <- MCHashId
  Compilable <- MCCompilable
  HistoryLimit <- MCHistoryLimit
  DefaultLimit = 2
  GatewayConfigured = TRUE
  SavesMayFail = FALSE
INVARIANTS
  TypeOK
  LedgerSound
  DiskSound
PROPERTIES
  LedgerSteps
