SPECIFICATION CapacitySpec
CONSTANTS
  FreePlan = free
  PaidPlans = {paid}
  NoPlan = NoPlan
  FreeLimit = 1
  PaidLimit = 3
  DefaultLimit = 2
  RoomsDiffer = FALSE
  Listeners = {l1}
  MaxDay = 0
  MaxMoves = 3
  MaxFaults = 0
INVARIANT PlanGivesLimit
CHECK_DEADLOCK FALSE
