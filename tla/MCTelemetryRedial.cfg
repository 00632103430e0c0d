SPECIFICATION MCSpec
CHECK_DEADLOCK FALSE
CONSTANTS
  e1 = e1
  e2 = e2
  k1 = k1
  None = None
  Live = {e1, e2}
  Shape <- MCShape
  RowShape <- MCRowShape
  Keys = {k1}
  Batches <- MCBatches
  Limit = 2
  MaxRows = 2
  MaxCrashes = 1
  Loop = loop
  Flushers = {f1}
  Callers = {c1}
  BatchSize = 1
  QueueSize = 1
  MaxAttempts = 2
  AskCap = 1
  MaxEvents = 2
  MaxDials = 2
  MaxOutages = 1
PROPERTIES
  RedialsAfterLoss
