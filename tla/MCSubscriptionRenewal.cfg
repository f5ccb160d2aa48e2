SPECIFICATION Spec
CONSTANTS
  Workers = {w1, w2}
  FinalizeRetries = 1
  DunningRetries = 2
  MaxBindings = 2
  MaxCycle = 3
  MaxEvents = 2
  MaxVersion = 3
  MaxFailures = 1
  MaxBusy = 2
  BusyAfter = 1
SYMMETRY Symmetry
INVARIANT PaidIsCovered
INVARIANT RenewedOnce
PROPERTY PeriodMonotone
PROPERTY ScheduledIsNotClaimed
PROPERTY OlderFailureIgnored
CHECK_DEADLOCK FALSE
