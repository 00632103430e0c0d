SPECIFICATION Spec
CONSTANTS
  c1 = c1
  c2 = c2
  c3 = c3
  bad = bad
  r1 = r1
  r3 = r3
  r4 = r4
  u1 = u1
  None = None
  Configs = {c1, c2, bad}
  LegacyConfigs = {c1}
  RevIds = {r1, r4, u1}
  HashId <- MCHashId
  Compilable <- MCCompilable
  HistoryLimit <- MCShortHistory
  DefaultLimit = 1
  GatewayConfigured = FALSE
  SavesMayFail = TRUE
INVARIANTS
  DiskRestorable
