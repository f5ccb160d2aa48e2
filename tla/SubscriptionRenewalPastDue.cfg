SPECIFICATION Spec
CONSTANTS
  Workers = {w1}
  FinalizeRetries = 1
  DunningRetries = 2
  MaxBindings = 1
  MaxCycle = 3
  MaxEvents = 2
  MaxVersion = 3
  MaxFailures = 0
  MaxBusy = 2
  BusyAfter = 0
PROPERTY PaidIsNotPastDue
CHECK_DEADLOCK FALSE
