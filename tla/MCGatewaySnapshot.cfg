SPECIFICATION FairSpec
CONSTANTS
  s1 = s1
  s2 = s2
  old = old
  h1 = h1
  h2 = h2
  l1 = l1
  l2 = l2
  None = None
  Boot = Boot
  Snapshots = {s1, s2, old}
  GoodBody = {s1, s2, old}
  GoodSchema = {s1, s2}
  Probed = {s1, old}
  Calls = {h1, h2}
  LoopIds = {l1, l2}
  EarlyCalls = TRUE
  FilesMayFail = TRUE
INVARIANTS
  TypeOK
  SnapshotSound
  AppliedIsInForce
PROPERTIES
  NobodyWaits
