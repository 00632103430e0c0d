CONSTANTS
  q1 = q1
  q2 = q2
  q3 = q3
  Requests = {q1, q2, q3}
  Priority <- MCPriority
  Schedulers = {s1, s2}
  ChannelCap = 1
  MaxCancels = 1
  Regulars = {q1}
  Faulty = {q3}
  Keys = {k1, k2, k3}
  Sizes = {0, 1, 3}
  MaxItems = 2
  MaxBytes = 2
  TTL = 1
  MaxClock = 2
  MaxPuts = 3
  Clients = {c1, c2}
  Cost = 2
  Burst = 2
  MaxBuckets = 1
  StaleTTL = 4
  CleanupEvery = 3
  MaxTicks = 6
  MaxGrants = 4

SPECIFICATION MCSpec

\* The requests end, and so does the clock.
CHECK_DEADLOCK FALSE
INVARIANTS
  TypesOK
  AdmissionSound
PROPERTIES
  AcceptedRuns
  CacheServes
