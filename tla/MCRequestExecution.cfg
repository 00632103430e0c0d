SPECIFICATION FairSpec
CHECK_DEADLOCK FALSE
CONSTANTS
  r1 = r1
  r2 = r2
  pa = pa
  pb = pb
  m1 = m1
  m2 = m2
  m3 = m3
  k1 = k1
  None = None
  Providers = {pa, pb}
  Models = {m1, m2, m3}
  Serving <- MCServing
  Keys = {k1}
  MaxFallbackAttempts = 1
  SSEAfterRetry = TRUE
  Requests = {r1, r2}
  HardRetryCap = 2
  Profiles <- MCProfiles
INVARIANTS
  TypeOK
  PathsSound
PROPERTIES
  ImplementsPromise
  EveryRequestEnds
