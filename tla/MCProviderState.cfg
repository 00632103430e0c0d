SPECIFICATION FairSpec
CONSTANTS
  r1 = r1
  pa = pa
  pb = pb
  k1 = k1
  ses = ses
  s1 = s1
  s2 = s2
  None = None
  Requests = {r1}
  Providers = {pa, pb}
  Keys = {k1}
  Sessions = {ses}
  Snapshots = {s1, s2}
  Policy <- MCPolicy
  Answers <- MCAnswers
  ProbeAnswers <- MCProbeAnswers
  MaxFailCount = 1
  KeyCooldown = 1
  MaxAttempts = 2
  Horizon = 2
  CountCap = 2
  MaxEvents = 1
INVARIANTS
  TypeOK
PROPERTIES
  KeyBlameIsCurrent
  CandidatesComplete
  FailuresEnd
