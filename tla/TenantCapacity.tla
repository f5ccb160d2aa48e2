-------------------------- MODULE TenantCapacity --------------------------
(***************************************************************************)
(* What a tenant's plan gives it: the organization's concurrentMeetingLimit,*)
(* a cached copy of the plan's policy, and the grant of each day of a      *)
(* provider-free plan.                                                     *)
(*                                                                         *)
(* The subscription announces some of its changes on an in-memory event;   *)
(* handlers of it, the creation of the organization, administrators'       *)
(* edits, the hourly sweep and the pass at start all read the organization *)
(* and the subscription, and write what they derive, one await at a time.  *)
(* One tenant; the policy has a row for every plan and none for the tenant.*)
(***************************************************************************)
EXTENDS Naturals

CONSTANTS
  FreePlan,      \* the provider-free plan
  PaidPlans,
  NoPlan,        \* no plan in force: the policy is the platform's default
  FreeLimit, PaidLimit,  \* maxConcurrentMeetings of the plans' policies
  DefaultLimit,  \* concurrentMeetingLimit of a new organization
  RoomsDiffer,   \* the policy's room capacity is not a new organization's
  Listeners,     \* bound: SubscriptionPlanChangedEvents handled at once
  MaxDay,        \* bound: days
  MaxMoves,      \* bound: changes of the plan and edits of the organization
  MaxFaults      \* bound: failed tasks and restarts

Plans == {FreePlan} \cup PaidPlans

ASSUME CapacityAssumption ==
  /\ FreePlan \notin PaidPlans /\ NoPlan \notin Plans
  /\ {FreeLimit, PaidLimit, DefaultLimit} \subseteq Nat \ {0}
  /\ RoomsDiffer \in BOOLEAN
  /\ Listeners \cap {"create", "edit", "sweep", "boot"} = {}
  /\ MaxDay \in Nat /\ MaxMoves \in Nat /\ MaxFaults \in Nat

VARIABLES
  sub,      \* the channel's live subscription, or its last one
  limit,    \* concurrentMeetingLimit of the organization's row; 0: no row
  daily,    \* grants of each day
  today,
  task,     \* the tasks that run, each with what it has read
  strayed,  \* history: a cause of a wrong limit, since the last announcement or start
  moves, faults

capacityVars == <<sub, limit, daily, today, task, strayed, moves, faults>>

Slots == Listeners \cup {"create", "edit", "sweep", "boot"}
Idle == [pc |-> "idle", copy |-> 0, plan |-> NoPlan, day |-> 0]
At(t, pc) == task[t].pc = pc
Begin(t, pc, copy) == task' = [task EXCEPT ![t] = [Idle EXCEPT !.pc = pc, !.copy = copy]]
Finish(t) == task' = [task EXCEPT ![t] = Idle]

Live == sub.status \in {"pending", "active", "past_due"}
\* tier 2 of the policy: status IN ('trialing', 'active')
PlanInForce == IF sub.status = "active" THEN sub.plan ELSE NoPlan
PlanLimit(p) == IF p = FreePlan THEN FreeLimit ELSE PaidLimit
DailyOnly == PlanInForce = FreePlan
\* the administrator's transaction has updated the row and not committed
RowLocked == task["edit"].pc \in {"resolve", "commit"}

CapacityInit ==
  /\ sub = [plan |-> NoPlan, status |-> "none"]
  /\ limit = 0 /\ daily = [d \in 0 .. MaxDay |-> 0] /\ today = 0
  /\ task = [t \in Slots |-> Idle]
  /\ strayed = FALSE /\ moves = 0 /\ faults = 0
-----------------------------------------------------------------------------
(* The subscription.                                                       *)

Becomes(p, status) ==
  /\ moves < MaxMoves /\ moves' = moves + 1
  /\ sub' = [plan |-> p, status |-> status]
  /\ UNCHANGED <<limit, daily, today, faults>>

\* the event is published after the commit; its handler runs by itself
Announce ==
  /\ \E l \in Listeners : At(l, "idle") /\ Begin(l, "read", 0)
  /\ strayed' = FALSE

\* mutant: the activation is not announced
ProvisionFree_Silent ==
  /\ sub.status = "none"
  /\ Becomes(FreePlan, "active") /\ UNCHANGED <<task, strayed>>

\* at registration
ProvisionFree == sub.status = "none" /\ Becomes(FreePlan, "active") /\ Announce

SubscribeToPlan(p) == ~Live /\ Becomes(p, "pending") /\ Announce

\* a provider-free plan is active at once, another waits for the provider
ChangePlan(p) ==
  /\ Live /\ p # sub.plan
  /\ Becomes(p, IF p = FreePlan THEN "active" ELSE "pending") /\ Announce

\* a charge of the provider is applied: SubscriptionRenewedEvent, no change
Activate ==
  /\ sub.status \in {"pending", "past_due"}
  /\ Becomes(sub.plan, "active") /\ UNCHANGED <<task, strayed>>

PastDue ==
  /\ sub.status = "active" /\ sub.plan # FreePlan
  /\ Becomes(sub.plan, "past_due") /\ UNCHANGED <<task, strayed>>

CancelPlan == Live /\ Becomes(sub.plan, "cancelled") /\ UNCHANGED <<task, strayed>>
-----------------------------------------------------------------------------
(* The organization's limit.                                               *)

\* the tenant's row is inserted, its plan looked up later
CreateOrg ==
  /\ limit = 0 /\ limit' = DefaultLimit
  /\ Begin("create", "resolve", DefaultLimit)
  /\ UNCHANGED <<sub, daily, today, strayed, moves, faults>>

\* mutant: no early return when the channel has no organization
ReadOrg_NoGuard(l) ==
  /\ At(l, "read") /\ Begin(l, "resolve", limit)
  /\ UNCHANGED <<sub, limit, daily, today, strayed, moves, faults>>

ReadOrg(l) ==
  /\ At(l, "read")
  /\ IF limit = 0 THEN Finish(l) ELSE Begin(l, "resolve", limit)
  /\ UNCHANGED <<sub, limit, daily, today, strayed, moves, faults>>

\* getEffectivePolicy
Resolve(t) ==
  /\ At(t, "resolve")
  /\ task' = [task EXCEPT ![t].plan = PlanInForce,
                          ![t].pc = CASE t = "create" -> "cache"
                                      [] t = "edit" -> "commit"
                                      [] OTHER -> "save"]
  /\ strayed' = (strayed \/ (t # "edit" /\ Live /\ PlanInForce = NoPlan))
  /\ UNCHANGED <<sub, limit, daily, today, moves, faults>>

\* syncOrganizationCache saves the whole row it was given
SyncRooms ==
  /\ At("create", "cache") /\ task' = [task EXCEPT !["create"].pc = "save"]
  /\ IF RoomsDiffer
     THEN /\ ~RowLocked /\ limit' = task["create"].copy
          /\ strayed' = (strayed \/ task["create"].copy # limit)
     ELSE UNCHANGED <<limit, strayed>>
  /\ UNCHANGED <<sub, daily, today, moves, faults>>

\* syncConcurrentMeetingLimit: a plan's limit only, and only if the copy
\* differs from it; a handler goes on to the day's grant
SaveLimit(t) ==
  LET p == task[t].plan
      Writes == p # NoPlan /\ task[t].copy # PlanLimit(p)
  IN /\ At(t, "save")
     /\ IF Writes THEN ~RowLocked /\ limit' = PlanLimit(p) ELSE UNCHANGED limit
     /\ strayed' = \/ strayed
                   \/ Writes /\ p # PlanInForce
                   \/ ~Writes /\ p # NoPlan /\ task[t].copy # limit
     /\ IF t \in Listeners THEN Begin(t, "allow", 0) ELSE Finish(t)
     /\ UNCHANGED <<sub, daily, today, moves, faults>>

\* an administrator's edit, of the limit or of something else ("update"), or
\* of the billing fields: each saves the whole row it has read
ReadForEdit(pc) ==
  /\ At("edit", "idle") /\ limit # 0
  /\ moves < MaxMoves /\ moves' = moves + 1
  /\ \E n \in {limit} \cup IF pc = "update" THEN {DefaultLimit} ELSE {} :
        Begin("edit", pc, n)
  /\ UNCHANGED <<sub, limit, daily, today, strayed, faults>>

UpdateRow ==
  /\ At("edit", "update") /\ task' = [task EXCEPT !["edit"].pc = "resolve"]
  /\ UNCHANGED <<sub, limit, daily, today, strayed, moves, faults>>

CommitUpdate ==
  LET p == task["edit"].plan
  IN /\ At("edit", "commit") /\ Finish("edit")
     /\ limit' = IF p = NoPlan THEN task["edit"].copy ELSE PlanLimit(p)
     /\ strayed' = \/ strayed
                   \/ IF p = NoPlan THEN limit' # limit ELSE p # PlanInForce
     /\ UNCHANGED <<sub, daily, today, moves, faults>>

SaveBilling ==
  /\ At("edit", "billing") /\ Finish("edit")
  /\ limit' = task["edit"].copy
  /\ strayed' = (strayed \/ limit' # limit)
  /\ UNCHANGED <<sub, daily, today, moves, faults>>
-----------------------------------------------------------------------------
(* The grant of the day.                                                   *)

\* the handler: the window is that of the moment of the call
Allow(l) ==
  /\ At(l, "allow")
  /\ IF DailyOnly THEN task' = [task EXCEPT ![l].pc = "lock", ![l].day = today]
                  ELSE Finish(l)
  /\ UNCHANGED <<sub, limit, daily, today, strayed, moves, faults>>

\* the hourly sweep
StartSweep ==
  /\ At("sweep", "idle") /\ DailyOnly /\ limit # 0
  /\ task' = [task EXCEPT !["sweep"] = [Idle EXCEPT !.pc = "lock", !.day = today]]
  /\ UNCHANGED <<sub, limit, daily, today, strayed, moves, faults>>

\* mutant: no advisory lock
Ensure_NoLock(t) ==
  /\ At(t, "lock")
  /\ IF daily[task[t].day] > 0 THEN Finish(t)
                               ELSE task' = [task EXCEPT ![t].pc = "insert"]
  /\ UNCHANGED <<sub, limit, daily, today, strayed, moves, faults>>

\* mutant: the organization's grants are looked up without the day
Ensure_AnyDay(t) ==
  /\ At(t, "lock")
  /\ IF \E d \in 0 .. MaxDay : daily[d] > 0
     THEN Finish(t) ELSE task' = [task EXCEPT ![t].pc = "insert"]
  /\ UNCHANGED <<sub, limit, daily, today, strayed, moves, faults>>

\* the advisory lock of the day is held until the transaction ends
Ensure(t) ==
  /\ At(t, "lock")
  /\ \A u \in Slots : At(u, "insert") => task[u].day # task[t].day
  /\ IF daily[task[t].day] > 0 THEN Finish(t)
                               ELSE task' = [task EXCEPT ![t].pc = "insert"]
  /\ UNCHANGED <<sub, limit, daily, today, strayed, moves, faults>>

Insert(t) ==
  /\ At(t, "insert") /\ Finish(t)
  /\ daily' = [daily EXCEPT ![task[t].day] = @ + 1]
  /\ UNCHANGED <<sub, limit, today, strayed, moves, faults>>

Midnight ==
  /\ today < MaxDay /\ today' = today + 1
  /\ UNCHANGED <<sub, limit, daily, task, strayed, moves, faults>>
-----------------------------------------------------------------------------
\* a task throws; an uncommitted transaction is rolled back
Fails(t) ==
  /\ ~At(t, "idle") /\ Finish(t)
  /\ faults < MaxFaults /\ faults' = faults + 1
  /\ strayed' = \/ strayed
                \/ t # "edit" /\ task[t].pc \in {"read", "resolve", "cache", "save"}
  /\ UNCHANGED <<sub, limit, daily, today, moves>>

\* events are lost with the process; the pass at start reads every row
Restart ==
  /\ faults < MaxFaults /\ faults' = faults + 1
  /\ task' = [t \in Slots |-> IF t = "boot" /\ limit # 0
                              THEN [Idle EXCEPT !.pc = "resolve", !.copy = limit] ELSE Idle]
  /\ strayed' = FALSE
  /\ UNCHANGED <<sub, limit, daily, today, moves>>

TaskStep(t) ==
  \/ Resolve(t) \/ SaveLimit(t) \/ Ensure(t) \/ Insert(t)
  \/ t \in Listeners /\ (ReadOrg(t) \/ Allow(t))
  \/ t = "create" /\ SyncRooms
  \/ t = "edit" /\ (UpdateRow \/ CommitUpdate \/ SaveBilling)

CapacityNext ==
  \/ ProvisionFree \/ Activate \/ PastDue \/ CancelPlan
  \/ \E p \in PaidPlans : SubscribeToPlan(p)
  \/ \E p \in Plans : ChangePlan(p)
  \/ CreateOrg \/ StartSweep \/ Midnight \/ Restart
  \/ \E pc \in {"update", "billing"} : ReadForEdit(pc)
  \/ \E t \in Slots : TaskStep(t) \/ Fails(t)

\* what writes a day's grant goes on, and the sweep comes round
CapacityFairness ==
  /\ WF_capacityVars(StartSweep)
  /\ \A t \in Listeners \cup {"sweep"} : WF_capacityVars(TaskStep(t))
CapacitySpec == CapacityInit /\ [][CapacityNext]_capacityVars
-----------------------------------------------------------------------------
\* Types; a task that derives a limit has read an organization.
CapacityTypeOK ==
  /\ sub \in [plan : Plans \cup {NoPlan},
              status : {"none", "pending", "active", "past_due", "cancelled"}]
  /\ limit \in Nat /\ daily \in [0 .. MaxDay -> Nat] /\ today \in 0 .. MaxDay
  /\ strayed \in BOOLEAN /\ moves \in 0 .. MaxMoves /\ faults \in 0 .. MaxFaults
  /\ task \in [Slots -> [pc : {"idle", "read", "resolve", "cache", "save", "update",
                               "commit", "billing", "allow", "lock", "insert"},
                         copy : Nat, plan : Plans \cup {NoPlan}, day : 0 .. MaxDay]]
  /\ \A t \in Slots :
        task[t].pc \in {"resolve", "cache", "save", "commit"} => task[t].copy > 0

\* No day is granted twice, whoever asks and whenever the day turns (INV-026).
OneDailyGrant == \A d \in 0 .. MaxDay : daily[d] <= 1

\* A day on a provider-free plan gets its grant, or the plan or the day ends.
TodayIsGranted ==
  \A d \in 0 .. MaxDay :
     today = d /\ DailyOnly /\ limit # 0 ~> daily[d] > 0 \/ today # d \/ ~DailyOnly

Quiet == \A t \in Slots : task[t].pc \in {"idle", "allow", "lock", "insert"}
\* When no write is under way, the limit is that of the plan in force, unless
\* one of the named causes came since the last announcement or start: a plan
\* looked up before its first charge or while past due, a failed or an overtaken
\* write, an edit while no plan is in force.
LimitFollows == Quiet /\ limit # 0 /\ PlanInForce # NoPlan /\ ~strayed
                   => limit = PlanLimit(PlanInForce)

\* ADR-031, decision 5: whatever the order, the limit is that of the plan.
PlanGivesLimit == Quiet /\ limit # 0 /\ PlanInForce # NoPlan /\ faults = 0
                     => limit = PlanLimit(PlanInForce)
=============================================================================
