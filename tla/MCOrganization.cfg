SPECIFICATION MCSpec
CONSTANTS
  Enders = {e1, e2, e3}
  Nobody = Nobody
  Meetings = {m1}
  Grants = {g}
  GrantedMinutes = 2
  MaxMinutes = 2
  Durations = {0, 1, 2}
  CeilingMinutes = 1
  MaxSwitches = 1
  None = None
  FreePlan = free
  PaidPlans = {paid}
  NoPlan = NoPlan
  FreeLimit = 1
  PaidLimit = 3
  DefaultLimit = 2
  RoomsDiffer = TRUE
  Listeners = {l1, l2}
  MaxDay = 1
  MaxMoves = 3
  MaxFaults = 1
  l1 = l1
INVARIANT CapacityTypeOK
INVARIANT CompletedAfterBbb
INVARIANT GrantConserved
INVARIANT UsageCoversSamples
INVARIANT BilledInOneWay
INVARIANT AnnouncedIsBilled
INVARIANT OneDailyGrant
INVARIANT LimitFollows
PROPERTY FirstEnderKept
PROPERTY EndedIsCompleted
PROPERTY CompletedGetsFact
PROPERTY TodayIsGranted
CHECK_DEADLOCK FALSE
