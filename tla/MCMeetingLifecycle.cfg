SPECIFICATION MCSpec
CONSTANTS
  MaxMeetings = 2
  Workers = {w1, w2}
  ConcurrentMeetingLimit = 1
  MaxProvisioningRetries = 2
  MaxEdited = 1
  None = None
SYMMETRY Symmetry
INVARIANT ConcurrencyLimit
INVARIANT BilledIsOver
PROPERTY EndedForever
PROPERTY FSMSpec
CHECK_DEADLOCK FALSE
