SPECIFICATION Spec
CONSTANTS
  MaxMeetings = 3
  ConcurrentMeetingLimit = 3
  Requests = {r1, r2}
  MaxAutoRetries = 2
  Left = Left
  None = None
INVARIANT OneMeetingPerRoom
CHECK_DEADLOCK FALSE
