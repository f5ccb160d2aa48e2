SPECIFICATION FairSpec
CONSTANTS
  Workers = {w1}
  FinalizeRetries = 1
  DunningRetries = 2
  MaxBindings = 1
  MaxCycle = 3
  MaxEvents = 2
  MaxVersion = 3
  MaxFailures = 1
  MaxBusy = 2
  BusyAfter = 2
PROPERTY ScheduledCompletes
CHECK_DEADLOCK FALSE
