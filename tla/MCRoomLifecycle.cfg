SPECIFICATION MCSpec
CONSTANTS
  MaxMeetings = 2
  ConcurrentMeetingLimit = 2
  Requests = {r1, r2}
  r1 = r1
  MaxAutoRetries = 2
  Left = Left
  None = None
INVARIANT PointsToStarted
INVARIANT LockIsReleased
INVARIANT LearnersOnlyRebuild
INVARIANT OneMeetingAlone
PROPERTY DriftRepaired
CHECK_DEADLOCK FALSE
