SPECIFICATION RecoverySpec
CONSTANTS
  MaxMeetings = 2
  ConcurrentMeetingLimit = 1
  Sessions = {s1, s2}
  s1 = s1
  SessionCap = 1
  Creators = {c1, c2}
  Editors = {e1}
  None = None
  Workers = {w1}
  MaxProvisioningRetries = 2
  MaxEdited = 2
INVARIANT TypeOK
INVARIANT LiveIsProvisioned
PROPERTY PromiseSpec
PROPERTY LiveEnds
PROPERTY EndedIsNoticed
PROPERTY CompletedGetsBilled
PROPERTY StuckIsReleased
CHECK_DEADLOCK FALSE
