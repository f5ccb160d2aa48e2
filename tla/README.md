# Verification of the Saa9vi meeting and subscription core

Saa9vi is a multi-tenant tutoring platform: a Vendure server with plugins for live classes on
BigBlueButton (`bigbluebutton-plugin`, "BBB" below), for paid plans (`subscription`), for a
marketplace, payments, courses and reviews. This directory models the parts of it where several
processes write the same rows: the life of a meeting, of a room, of what a meeting costs, and of a
subscription and of what its plan gives a tenant, of the scheduled sessions that start meetings, of the
payments of an order and of the marketplace index. The modules are TLA+, checked by TLC on small
instances and, where it says so, proved by TLAPS for all of them.

All paths are relative to `src/src/plugins/`; line numbers are those of the commit the modules were
written from. `PROJECT.json` maps each definition to its lines.

- [1 Inventory](#1-inventory)
- [2 The modules](#2-the-modules)
- [3 The runs](#3-the-runs)
- [4 The proofs](#4-the-proofs)
- [5 Where code and text disagree](#5-where-code-and-text-disagree)
- [6 What is not modelled](#6-what-is-not-modelled)
- [7 Plan](#7-plan)

## 1 Inventory

### Processes and what they share

A server process answers GraphQL and webhook requests, a worker process takes jobs from BullMQ
queues (several of a queue at a time) and runs the scheduled tasks. Both write one PostgreSQL database
under READ COMMITTED and use one Redis. The BBB servers and Razorpay act on their own and report
with webhooks. There is no lock that everything respects; each place uses a device of its own:

| device | where | what it does not cover |
|---|---|---|
| row lock of the organization | `reserveProvisioningCapacity` | everyone who writes meetings without counting |
| row lock and re-check of the state | `completeMeetingLifecycle` | the worker's, the passes' and the administrators' writes |
| unique index, ON CONFLICT DO NOTHING | usage ledger, metered usage, billing attempts | rooms: the index the code counts on is not there |
| Redis lock with heartbeat | `requestProvisioning` | the insert of the meeting, which comes after its release |
| version column, compare and set | `OrganizationSubscription` | dunning, `updateBinding` |
| row lock of the organization and a count | scheduled sessions | everything else about a session |
| advisory lock of the day, for a transaction | the daily grant | nothing else that writes grants |
| persisted inbox and a queue job | the webhooks of BBB and of Razorpay | what happens between the two |
| repair by a task every 5 minutes | the passes of `bbb-reconciliation.service.ts` | what the passes themselves overwrite |

### Components

For each: state; operations; whom it talks to; what is hard; what makes it correct.

**Meeting lifecycle** (`bbb-meeting.service.ts`, `bbb-provisioning-worker.service.ts`,
`bbb-meeting-lifecycle.service.ts`, `bbb-reconciliation.service.ts`). A `bbb_meeting` row
(state, retryCount) and its provisioning job. Created Pending and enqueued after the commit;
promoted by a worker within the organization's limit, created on a BBB server, made Active or
Failed; completed by the meeting-ended webhook, a request that finds it gone, an end request or the
billing ceiling; put back, failed or made Stale by passes. Hard: a job is delivered again after a
crash, the worker and the passes write rows they read before a BBB call, the completion is asked
for by several callers at once. Correct: the limit holds, what ended does not run again, what is
billed is over, every completed meeting is billed, nothing counts against the limit for ever.

**Ending a meeting** (`endMeeting`). The BBB call, the stamp of who ended it, the completion. Hard:
concurrent requests, a refusal of BBB, two database connections in one request. Correct: nothing is
completed while BBB runs it, the first requester stays recorded, every request returns.

**Rooms and joining** (`bbb-room.service.ts`, `bbb-room-lock.service.ts`, `joinRoom`,
`startRoomAsModerator`). A room row (Idle, Provisioning, Active, Failed; current meeting; retry
count; debounce) and its Redis lock. Hard: the room is judged from a meeting read earlier, the
meeting is inserted after the lock is released, the worker tells the room after its own commit and
may die in between, and reconciliation writes rooms without any lock. Correct: one unfinished
meeting per room, the row never half written, the lock released on every path, learners never provision
a class, a room and its meeting agree again without anybody's help.

**Billing of meetings** (`bbb-grant-consumption.service.ts`, `bbb-metering.service.ts`, the two
billing passes). The usage ledger and the grants, or the per-minute samples and frozen usage rows,
by the organization's billing mode. Hard: completions and recoveries overlap, calls die between the
fact and its event, samples are written late and pruned, the mode is switched at any time. Correct:
a grant is charged once for each ledger row, a frozen row counts all samples and is never changed,
no meeting is billed in both ways, every completed one in one.

**Subscription renewal and provider webhooks** (`subscription-renewal.service.ts`,
`razorpay-webhook.processor.ts`, `provider-webhook-queue.service.ts`, `subscription.service.ts`,
the dunning and renewal tasks). One `organization_subscription` row with its version, the provider
bindings, the webhook inbox, the billing attempts and the reconciliation incidents. Hard: the
provider charges on its own and its events come late, twice and in any order; webhook jobs, the
renewal sweep, dunning and the tenant's plan changes write the row between each other's read and
write; a lost update is retried a bounded number of times. Correct: a paid cycle is never lost, its
minutes are granted at most once, the period never goes back, a scheduled cancellation is not
charged and does complete.

**What a plan gives a tenant** (`bbb-platform-capacity-policy.service.ts`, `bbb-organization.service.ts`,
`bbb-subscription.listener.ts`, `bbb-daily-allowance.service.ts`, the pass at start, and the writers of the
subscription). `concurrentMeetingLimit` of the organization's row, a copy of the plan's policy, and one grant
for each day of a provider-free plan. Hard: the plan is announced on an event that lives in memory and is
handled by itself, while the registration, administrators and the hourly sweep save whole rows they read
before; some changes of the plan are not announced; the day turns between a look and an insert. Correct: one
grant a day, and every day on such a plan; the limit is that of the plan in force unless a named cause came
between.

**Scheduled sessions and BBB webhooks** (`bbb-scheduled-session.service.ts`,
`bbb-session-provisioning.listener.ts`, `bbb-webhook-processor.service.ts` and its controller). A
`bbb_scheduled_session` row (DRAFT, SCHEDULED, LIVE, FINISHED, CANCELLED; the meeting it started), the
webhook inbox, and the events of a meeting, which live in memory. Hard: requests save rows they read
earlier, events come late, are lost with the process, or find the session elsewhere; a webhook is stored,
queued and processed by three steps that fail separately. Correct: a session is LIVE only with a meeting
that BBB created, goes its road, leaves LIVE when its meeting is completed; the cap of the organization
holds; a meeting that BBB ended does not stay Active.

**Payments** (`plugins/payments`). The Vendure order with its payments, Razorpay's payments, the inbox of
settling webhooks and its queue. Hard: one payment arrives by the browser and by two kinds of webhook, the
order changes between its read and the payment, the enqueue fails, workers stall. Correct: a delivery that
was decided has its payment on the order or an operator alerted, one that is undecided is still owed.

**Marketplace index and rating** (`plugins/marketplace`). One document per public session, the rating
baseline in the Settings Store (mean, version, generation), the index queue and the refresh queue. Hard:
jobs of a session overlap, the baseline is written and read one value at a time, a refresh dies between two
of its writes and is run again. Correct: a refresh advances the version once, every document comes in line
with its session and with the baseline.

**Reconciliation** (`bbb-reconciliation.service.ts`). Keeps no state; its passes are actions of the
module whose state they repair. **BBB API surface** (`bbb-admin.resolver.ts`): the transaction
around a mutation matters to EndMeeting, the reset and billing-mode mutations are actions of their
modules.

Not modelled, or in part only (see section 6): the creation of grants and entitlement, server pool, members
and access, the rest of organizations, capacity policy and subscription plans, analytics, advertising wallet
and commissions, reviews, tenants, customer deletion, learning and CMS, platform checkers, load simulation and
user interface.

### How the components meet

    request --> Rooms --insert, enqueue--> Meeting lifecycle --/create--> BBB servers
                  ^                           |   |   ^                      |
                  |   onMeetingActive/Failed  |   |   +--- webhooks ---------+
                  +---------------------------+   |
                                     completion   +--> Billing <-- samples
                  Reconciliation writes meetings, rooms and bills from what it read.
    Razorpay --webhooks--> inbox --queue--> Subscription <-- renewal, dunning, tenant
                                               |
                                               +--> SubscriptionRenewedEvent --> grants --> Billing
                                               +--> SubscriptionPlanChangedEvent --> limit of the
                                                       organization (--> Meeting lifecycle), grant of the day
    Scheduled sessions --start--> Meeting lifecycle --provisioned, completed (events)--> Scheduled sessions
                       --status changed--> Marketplace index <--reindex-- baseline refresh
    Razorpay --webhooks--> payment inbox --queue--> order <--browser

## 2 The modules

| module | what it is |
|---|---|
| `MeetingFSM` | the abstract specification: which changes a meeting row can make, and the limit |
| `MeetingLifecycle` | the meeting rows and all their writers; implements `MeetingFSM` |
| `EndMeeting` | one end request after another at the level of transactions and row locks |
| `RoomLifecycle` | one room, its requests, callbacks and repairs; extends `MeetingFSM` for its meetings |
| `MeetingBilling` | grants, samples, ledger and usage rows, and their recovery |
| `SubscriptionRenewal` | one subscription row and all its writers, with the provider |
| `TenantCapacity` | the limit and the daily grants of one tenant, and what writes them |
| `SessionFSM` | the abstract specification of scheduled sessions: the road of a status, and the cap |
| `BbbWebhookInbox` | the end of a meeting on BBB and the inbox that hears of it; extends `MeetingFSM` |
| `SessionLifecycle` | sessions, their requests and listeners; extends `BbbWebhookInbox`, implements `SessionFSM` |
| `OrderPayment` | one order, its payments, the payment inbox and its jobs |
| `MarketplaceRanking` | the index, the baseline, and the two queues that write them |
| `MeetingFSMProofs`, `MeetingLifecycleProofs`, `OrganizationProofs` (of `EndMeeting` and `TenantCapacity`), `RoomLifecycleProofs`, `MeetingBillingProofs`, `SubscriptionRenewalProofs`, `SessionLifecycleProofs`, `StorefrontProofs` (of `OrderPayment` and `MarketplaceRanking`) | theorems |
| `MCSubscriptionRenewal` | an instance with symmetry |
| `MCMeetingLifecycle`, `MCRoomLifecycle`, `MCSessionLifecycle`, `MCOrganization`, `MCStorefront` | several small instances in one run: a variable `shape`, chosen at the start, says who may move. `MCOrganization` has `EndMeeting`, `MeetingBilling` and `TenantCapacity` side by side, `MCStorefront` the order and the index; they share no variable |
| `MCRecovery` | the instances of `MCSessionLifecycle` and, beside them, a meeting of `MeetingLifecycle`: the liveness of what reconciliation, listeners and restarts make good |

One action is one database transaction, one autocommitted statement or one call to a server. What
the code holds in a variable across an `await` is state of the module, and is used there even when
the row has changed since. Definitions with an underscore (`Promote_OffByOne`, `MayFinalize_AnyCycle`)
are seeded faults: each differs from the definition it is named after in the way a plausible bug
would, and a run finds the property that guards against it violated when it takes its place.

### MeetingFSM and MeetingLifecycle

`state` maps each row to its state, "Absent" before the insert. The worker's job is
`worker[w] = [pc, m]`: `read` after `TakeJob` saw Pending, `promoted` after the counting
transaction, `created` after BBB answered, then `activated` or `failed` until the room is told.
`WorkerCrash` puts the job back in the queue from any of these; a `/create` that fails, like
everything the try block throws, is `FailProvisioning`. `stuck` and `remote` are what the two
reconciliation passes read, `billing` the calls that started after a completion's commit, `hooks`
the webhook events in their queue, `held` the rows an end request's own transaction has locked,
`edit` what an administrator's update read. The save that follows writes the state and the retry count
of the copy: a row that it puts back to another state is in `edited` from then on. Nothing in the code
repairs such a row, so the properties promise nothing of it and everything of the others; `FSMSpec` maps it
to the state "Edited" of `MeetingFSM`, from which it does not return. `FSMSpec` of the module `MeetingFSM`
has no such step, and it is on this machine that `RoomLifecycle` and `SessionLifecycle` build: what they say
is said of meetings that no administrator saves over.

Two facts of the code are modelled as they are and not as its table of transitions says: the retry
pass writes Provisioning back to Pending without enqueueing the row, and `markMeetingStale` writes
Stale over whatever the row has become. `MeetingFSM` is therefore what the code can be relied on
for, which is more than `MEETING_STATE_TRANSITIONS` lists. `InWorker` states the one timing
assumption: a row that a worker is provisioning is not yet past `stuckProvisioningTimeoutMs`
(5 minutes against `/create` calls of 10 seconds, each server tried once).

### EndMeeting

Each request is a program counter: `read` (row read), `acked` (BBB confirmed), `stamped`,
`completed`, `done`. `inTx`, chosen at the start, says whether the stamp's UPDATE runs in a transaction that
stays open until the mutation returns, as the resolver always makes it, or commits at once, as when a test
calls the service without one. `CompleteRow` needs the row lock; a request in a transaction holds it and waits for itself.
Every safety property is checked and proved for both. `EndedIsCompleted` says so of a row that no such
request holds, since nothing can complete a row it holds until the process is restarted, and `EndReturns`
fails for requests as the resolver makes them (`ResolverSpec`, section 5).
`CapMeeting` and `CompleteCapped` are the billing ceiling's two writes: the only completion of a
meeting that BBB still runs, which `CompletedAfterBbb` says.

### RoomLifecycle

`room` is the row with `recent`, the debounce; `req[r]` a join or start request: `request`, then
`validate` or `clear` under the Redis lock, then `url` (the learner's or moderator's join URL),
then `check` and `insert`, the two statements of `createRoomMeetingAndEnqueue`. `tell` is what
workers have still to report, `over` the meetings BBB no longer knows, `pass` what
`reconcileRooms` read and is about to write. Meetings change by the actions of `MeetingFSM`, which
`MeetingLifecycle` implements, so that the room is checked against everything a meeting can do and
not against one schedule. A promotion can be refused at any time because other rooms share the
limit. `lock` is the key in Redis and `late` the requests whose key has expired while they were inside,
because a heartbeat failed; `Release` deletes the key only when its token is the caller's, and when Redis
refuses, which is only logged, the key stays as `Left` until it expires. `RequestFails` is an error inside
the locked part, `PassThrough` a request that takes the lock and finds nothing to do. The lock is the strict one
of production (`vendure-config.ts:384`): a request that cannot reach Redis is refused. Without it, as in
development, everyone is let in, which is not modelled.

### MeetingBilling

A call is a record `[m, kind, how, pc, n]`: the minutes it owes are fixed when it starts, from the
row read then, and calls of the same meeting overlap. `ConsumeGrantHours` is one transaction
(ledger insert that ignores a conflict, then the grant); metered billing reads the samples and
freezes the usage row in two statements (`ReadSamples`, `FreezeUsage`). `BillingFails` ends a call
anywhere. Sampling reads the Active meetings and inserts after the BBB call (`probing`), so a sample
may come after the completion. `switched` remembers the meetings that were under way when the
billing mode changed: for those the code promises nothing (section 5), and the properties say so
instead of leaving the switch out.

### SubscriptionRenewal

`sub` is the row (status, start of its period, version, cancelAtPeriodEnd, dunning retries),
`current` the binding its plan is on, `prov` what Razorpay thinks of each binding, `inbox` the
stored events. A webhook job `worker[w] = [pc, event, row, version, tries]` walks through
`mirror`, `save` (updateBinding's read and whole-row save), `record` (the attempt),
`load`, `finalize`, `classify`, `reload` (the finalize update and its bounded retry), `publish`, or
through `mark`, `past_due`, `cancel` for failures and cancellations. `renewer`, `dunner` and
`admin` hold what the renewal job, the dunning task and a plan change have read. Writers with the
version are `WriteIf(...)`; dunning and `SaveBinding` write without.

Time is the provider's cycle. `Day(c)` is what an attempt and the row keep of its start, `Instant(c)`
the moment itself, later on that day; the code compares one with the other (section 5). The initial
state is a subscription whose first cycle was paid.

`SaveBinding` writes back every column of the row it read, whatever was written since (`IsStale`): the period,
the version and a scheduled cancellation go back with it. `past` remembers that this happened (`Overwritten`)
and that the row was cancelled. No safety property survives such a save in the code, and each names it as
its one exception: `PeriodMonotone` the very save, the others what comes after it. `ScheduledCompletes`
has no exception.

### TenantCapacity

`sub` is the channel's live subscription, of which only the plan and whether it is in force matter here:
`SubscriptionRenewal` says how it moves, `Activate` is its charge. `task[t]` is what runs: the handlers of
`SubscriptionPlanChangedEvent` (`Listeners`), the registration (`create`), an administrator's edit, the sweep
and the pass at start (`boot`), each with the row it has read (`copy`), the plan the policy was resolved for
and the day. A handler reads the organization, resolves, saves, and goes on to the day's grant; `CreateOrg`
inserts and then saves its own copy, first for the room capacity (`SyncRooms`, when `RoomsDiffer`) and then
for the limit. Every save of the row writes the limit of the copy. `RowLocked` is the transaction of an
edit that has updated the row. `Ensure` and `Insert` are one transaction under the day's advisory lock.
`Restart` loses handlers and starts the pass over the organizations; it stops nothing else.

`strayed` is a history variable. It says that since the last announcement or start one of these happened: a
handler, the registration or the pass at start looked up a plan that waited for its first charge or was past
due, and so resolved none; one of them failed; a row was saved from a copy that was stale, or for a plan that
is no longer in force; an edit set the limit while no plan was in force. `LimitFollows` claims the limit of the plan in all other cases, `PlanGivesLimit` in all cases without
faults, as the text does (section 5). The policy has a row for each plan and none for the tenant.

### SessionFSM, BbbWebhookInbox and SessionLifecycle

`sess` are the rows, `req` what a request has read, `orgLock` the organization's row lock, `events` what was
published and not heard, `reading` the listener between its read and its save. `runtime` is the meeting on
BBB, `row` and `jobs` its event in the inbox. A request that saves a row somebody has changed meanwhile, and
an event that finds its session elsewhere, leave the road `SessionFSM` describes: the history variable
`disturbed` collects those sessions, the refinement maps them to the status "Disturbed", and what is
promised is promised of the others. A run of the listener whose lookup or save fails is only logged and the
event is gone (`LookupFails`, `SaveFails`): a provisioned meeting then leaves its session SCHEDULED, a completed
one LIVE. `stuck` collects the sessions that are LIVE with no event to come that would end them: those of a
failed run, and those set LIVE when their meeting was over already. `LiveEnds` excuses them until `Restart`,
which loses requests, events and listener runs, has repaired them as `repairOrphanedLiveSessions` does. A
meeting that BBB ended is completed or, where reconciliation marks it so, goes Stale.

### OrderPayment

`order` is what Vendure keeps, `provider` the payments at Razorpay, `shop` a browser between the read of the
order and the payment, `inbox[d]` the row of one delivery (a payment and one of the settling event types),
`queue[j]` a job `queued`, `read` (row seen pending), `adding` (order seen payable), then `processed` or
`ignored` until the row is saved whole. A payload may lack the payment or name an order there is not
(`names`): it is ignored with a line in the log. `Notify` drops an alert within the hour after another one of
the same order (`recent`); `muted` has the payments this happened to. `doubled` has the deliveries that were
queued again while they had a job. `JobStalls` is BullMQ's second run of a job whose worker died.
`addPaymentToOrder` is Vendure's and modelled from how the plugin uses it.

### MarketplaceRanking

`index[s]` is the document's mean and version, `indexJobs` a bag, `work[w]` an indexer on its way from the
row over the baseline's two reads to the write, or on a global reindex from session to session. A refresh
walks through `mean`, `version`, `generation`, the three writes of `setMany`, to `check` and `enqueue`.
A session that starts or ends is saved on its own and then announced (`Change`); one that is published,
changed or cancelled is announced inside the request's transaction (`Announce`), and `Commit` comes when it
comes: the event carries no RequestContext, so its job may run before and read the old row. `late` are the
indexers that somebody overtook since they read the row, by a commit or by another write of the document,
`behind` the sessions whose last word was such an indexer's, or whose commit came after their last job. In
the code nothing brings these in line until the next change. `lowered` says that a refresh put an older version over a newer one,
`lost` are sessions with a job that was given up, `torn` says that a refresh wrote and ended without a
reindex, or that two wrote different versions into each other (section 5).

## 3 The runs

All configurations set `CHECK_DEADLOCK FALSE`: with bounded cycles, meetings or minutes the systems
come to rest.

| run | distinct states | question and answer |
|---|---|---|
| `meeting` | 883,090 | Two workers and two meetings at a limit of one; two meetings, one of which an administrator edits; everything on one meeting. The limit holds; an ended row stays ended; a billed meeting is over; every step is one of `MeetingFSM`. |
| `end_tx` | violated | Does every end request return? Not within the mutation's transaction: a request waits for the row it locked itself. |
| `room` | 939,878 | One request at a time, a moderator with a learner, or two moderators whose locks may expire; releases and requests fail. At most one unfinished meeting with one request; an Active room names a meeting that was started, the lock is held only by who is inside and released only by its holder; a learner inserts only as a rebuild; every disagreement of room and meeting is repaired. |
| `room_two` | violated | At most one unfinished meeting with two requests? No: check and insert interleave. |
| `organization` | 191,592 | What an organization has and pays. Three end requests, system completions, the billing ceiling, restarts, in request transactions or not: only the ceiling completes what BBB still runs, the first requester is kept, what ended on BBB is completed unless a request holds its row. One meeting, one grant, every interleaving of completion, capping, two recoveries, sampling, pruning and a mode switch: conservation of the grant, complete usage, one way of billing, an event only after its fact, a fact for every meeting. One tenant, its plan, registration, edits, sweep and days: one grant a day and no day without, the limit of the plan unless a named cause came between. |
| `plan_limit` | violated | Is the limit that of the plan, without faults or overlaps? Not after the first charge of a paid plan. |
| `renewal` | 2,341,310 | Two webhook jobs, the sweep, dunning and the tenant. Until `updateBinding` saves over a row that changed, no paid cycle is lost, none granted twice, no scheduled cancellation charged; nothing but that save moves the period back. |
| `renewal_live` | 435,880 | A scheduled cancellation completes though the provider's webhook never comes and whatever `updateBinding` saves. |
| `past_due` | violated | Does the failure of a cycle leave a subscription alone that was paid for that cycle? No: it compares a moment with a day. |
| `recovery` | 154,179 | Two creating requests and an editing one: a session goes its road and the cap holds (refinement of `SessionFSM`), LIVE has a meeting, LIVE ends with the meeting, and an end that BBB knows is noticed. One meeting and an administrator: every completed meeting is billed unless overwritten, and a meeting whose worker died stops counting. |
| `storefront` | 355,538 | An order's payments: what was decided is accounted for, what is undecided is owed. The index: a refresh advances once, every document comes in line unless its last writer was overtaken. |
| `market_stale` | violated | Does a session that is over leave the index? Not with two index jobs at once. |

### Bounds

- Two workers and two meetings in `meeting`: the limit is passed, a job doubled or a row revived by
  two actors at one row or two rows at one limit. `MaxProvisioningRetries = 2` gives a retry and a
  failure. `MaxEdited = 1`: one row is saved over, and the other must not suffer from it; its three shapes are
  in `MCMeetingLifecycle`. In `recovery`, `MaxEdited = 2` (with one meeting: no bound, for the bound is
  on the rows that were put back). `recovery` and `organization` need one meeting, for their properties
  speak of one and no handler of one meeting waits for another.
- Three end requests: one holds the lock, one waits, one comes after.
- The tenant's part of `organization` is checked in four instances: two announcements handled at once;
  edits with one; edits, a failure or a restart, and two changes of the plan; two days with a failure or a
  restart. Three changes of the plan and edits bring the free plan, a paid one and its charge, or an edit
  after them. Three limits that differ tell the copies apart, and two plans are all a stale one needs.
- Two meetings for a room: the old one and its successor; `room_two` has three because its trace
  completes one first. `MaxAutoRetries` 1 or 2: Failed for good, with and without a retry before.
- Requests in `room`: with one, everything else still moves; with two, `MCRoomLifecycle` takes a moderator
  and a learner on two meetings, or two moderators on one meeting with locks that expire.
- `recovery`: two sessions compete for a cap of one and share the one meeting's events, or one session is
  started twice with two meetings; creations are two at a time, so that the count of one falls between the
  count and the insert of the other.
- `storefront`: two deliveries and one job, one delivery and two jobs, or two payments; `MAX_ATTEMPTS = 2`
  gives a retry and a failure, one change of the total an amount that differs. Two refreshes that meet, one
  that fails (the very first, too) while a session's transaction is open, two sessions with one refresh, or two
  indexers at one session whose transaction may be open. `market_stale` needs two indexers.
- Minutes 0 to 2, a ceiling of one and grants of two: below the fair-billing threshold, capped, and a
  grant used up exactly and exceeded. One mode switch, in either direction.
- `MaxBindings = 2`: one plan change. `MaxCycle = 3` and `MaxEvents = 2`: two events besides the
  first payment, of the same or different cycles and kinds, each delivered any number of times.
  `MaxVersion = 3`: a renewal and an administration between them. `MaxBusy = 2`: any two of the
  jobs, the sweep, dunning and the tenant overlap at every step; hazards of three writers at once
  are left to the proofs, which have no such bound. `BusyAfter = 1`: after a stale save one of them at a
  time, for then only `PeriodMonotone` still promises something; `renewal_live` and the proofs have two and any number.
  `MaxFailures = 1`: one crash or error anywhere.
  `FinalizeRetries = 1` instead of 3: the loop and its end; `DunningRetries = 2`: a retry and the last.

### Fairness

- `MeetingLifecycle`: the reconciliation task is scheduled every 5 minutes, so its passes are weakly
  fair, and strongly fair where a row must be found again among others; a billing call that is
  repeated by every pass does not fail for ever; a server whose locks hold everything up is
  restarted one day. Nothing is assumed of users, BBB, workers or webhooks.
- `EndMeeting`: a request's code runs on, and the webhook or a pass comes in the end.
- `RoomLifecycle`: only the pass.
- `MeetingBilling`: the two passes, and strong fairness for the steps of their calls, again because
  each pass repeats them.
- `TenantCapacity`: the sweep comes every hour, and it and the handlers of announcements go on once they run.
  Administrators, the provider and the registration owe nothing.
- `SessionLifecycle`: the reconciliation task finds a meeting that ended and the bills that are missing, the
  event bus delivers, and a listener goes on. Nothing of webhooks, jobs or people.
- `MarketplaceRanking`: indexers and refreshes run, and the queue hands out every job in the end (strong
  fairness: a job is not enabled while all indexers are busy). `OrderPayment` has no liveness:
  `PendingIsOwed` says that something is left to happen, and not that it does.
- `SubscriptionRenewal`: a job that was started goes on (`WF` of its steps but not of taking an
  event), the sweep, the renewal queue and dunning run. No webhook need ever arrive.

## 4 The proofs

The proof modules prove, for any number of meetings, workers, requests, bindings, cycles, sessions, days and
payments and for any bounds:

| theorem | says |
|---|---|
| `FSMSafe`, `EditedSafe` | `MeetingFSM` keeps the limit and its states, with administrators' saves for the rows that were not saved over |
| `MeetingLifecycleProofs!TypeCorrect` | `TypeOK` |
| `HandlersCorrect`, `BillingCorrect`, `EndedCorrect` | what handlers hold agrees with the row; a billed meeting is over; ended stays ended: each of the rows no administrator put back |
| `ImplementsFSM`, `LimitCorrect` | `MeetingLifecycle` implements `MeetingFSM`, and inherits its limit |
| `OrganizationProofs!TypeCorrect`, `CompletionCorrect`, `FirstEnderCorrect` | `EndTypeOK`, `CompletedAfterBbb`, `FirstEnderKept`, with and without a request transaction |
| `CapacityTypeCorrect`, `DailyCorrect`, `LimitFollowsCorrect` | `CapacityTypeOK`; `OneDailyGrant`; `LimitFollows`, for any number of events, edits, failures and restarts |
| `RoomLifecycleProofs!TypeCorrect`, `ImplementsFSM` | `TypeOK`; a room does to its meetings what `MeetingFSM` allows |
| `PointsCorrect`, `LockCorrect`, `LearnersCorrect` | `PointsToStarted` (the row is never half written), `LockIsReleased`, `LearnersOnlyRebuild`, for any number of requests and locks that expire |
| `OneMeetingAloneCorrect` | `OneMeetingAlone`: at most one unfinished meeting, where one request comes at a time |
| `MeetingBillingProofs!TypeCorrect`, `UsageCorrect`, `FrozenCorrect` | `TypeOK`; a usage row counts all samples and is never changed |
| `OneWayCorrect`, `EventsCorrect` | `BilledInOneWay`, `AnnouncedIsBilled` |
| `GrantCorrect` | `GrantConserved`: what a grant has lost is what its ledger rows add up to |
| `SubscriptionRenewalProofs!TypeCorrect` | `TypeOK` |
| `PeriodCorrect`, `ScheduledCorrect`, `FailureCorrect` | `PeriodMonotone`, `ScheduledIsNotClaimed`, `OlderFailureIgnored` |
| `CoveredCorrect`, `RenewedCorrect` | `PaidIsCovered`, `RenewedOnce`: a payment is neither lost nor granted twice, whatever is delivered again |
| `SessionLifecycleProofs!TypeCorrect`, `LiveCorrect`, `CapCorrect` | `TypeOK`, `LiveIsProvisioned`, the cap on sessions |
| `SessionLifecycleProofs!ImplementsPromise`, `ImplementsFSM` | `SessionLifecycle` implements `SessionFSM`; the meetings of sessions do what `MeetingFSM` allows, and keep its limit |
| `StorefrontProofs!TypeCorrect`, `DecisionsCorrect` | `OrderTypeOK`, `DecidedIsAccounted` |
| `OwedCorrect` | `PendingIsOwed` |
| `AdvancesCorrect` | `AdvancesOnce` |
| `RankingTypeCorrect`, `ShapesTypeCorrect` | `RankingTypeOK`; `TypeOK` of both parts together |

No theorem has a hypothesis on what the processes do. Where the code itself undoes what a property promises,
a history variable of the module says when (`edited`, `past`, `muted`, `doubled`, `lowered`, `disturbed`,
`switched`, `strayed`), the property names it, and section 5 says what the code does then.

**Meetings.** `ConcurrencyLimit` is not inductive in the detailed model: the worker's UPDATE to Active
names the id only, and would add a running meeting if its row could have ended. The invariant that
rules this out is `IInv`: `TypeOK`, `HandlersAgree` (a job is in one place; the row of a promoted
worker is still Provisioning; what the passes read has at most ended; each of rows that were not put back),
`BilledIsOver`, and that only inserted rows are edited. A job stays in one place whatever an administrator
saves, which is why a save of one row does not spoil what is known of the others. Each step keeps `IInv`, each
step maps to a step or stutter of `MeetingFSM` with the saves (`StepsAsFSM`), and the limit is proved there
(`EditedSafe`), where a promotion adds one to a count that is below it, with the cardinality lemmas of the
library. A promotion counts the edited rows too: it is refused more often than the abstract machine refuses it (`FewerSeen`).

**End requests.** `FirstEnderKept` is not inductive because a request in a transaction commits its stamp
when it returns, long after it looked. The invariant adds that a row held by such a request is unstamped
and its meeting over (`LockedIsUnstamped`), and that a request past its `/end` call has seen BBB confirm
(`AckedIsOver`).

**Rooms.** `PointsToStarted` speaks of the row; `IInv` adds that the row and what `reconcileRooms` is about to
write name a meeting exactly when they say Active (`Named`, `WritesStarted`), and that what a worker has still
to report as active was started (`ReportsStarted`). Whatever was Active stays Active or ends, by the steps of
`MeetingFSM`. That a room with meetings has a latest one is not obvious for a set of numbers without a bound
on its size: `LatestExists` has it from the well-foundedness of the numbers. The lock is proved by what each
request inside holds, with the requests whose key expired set apart. One unfinished meeting (`AloneInv`) holds where one
request is inside at a time: nothing but an insert makes a meeting unfinished that was not (`NoneAppears`), and
between the check of the only request and its insert nobody else inserts (`InsertsAlone`).

**Billing.** `IInv` is `TypeOK`, `CallsOK` (a call's meeting is completed), `FactsOK` (so is a billed one),
`ModeKept`, `SamplesKept`, and the two properties about usage and events. `ModeKept` says that a meeting the
mode was not switched under was provisioned, is completed and is recovered in one mode: its grant is missing
exactly when the mode is metered, and each of its calls knows. `SamplesKept` says that nothing is pruned
before it is counted and that what a call has counted covers what there is. `FrozenCorrect` needs no more than
the types. `GrantConserved` is a sum over the ledger, and the prover has no induction over data; the invariant
`Balanced` therefore carries a function that gives every set of rows its sum whichever row is taken off first.
A new row extends it (`SumsAdd`), and the fold of the model equals it (`SumIs`): of the sets on which they
differed a smallest would lose one row more.

**Subscriptions.** The type invariant needs to know that a job is where its event leads
(`JobsOnTheirWay`), that a reload has a retry left and that a plan change has a binding to go to.
The safety theorems rest on `RowMoves`, which every step but a stale save of `updateBinding` satisfies: the
version never decreases, a change of the period or of a scheduled cancellation increases it, the period goes
back only when the plan changes. `PeriodCorrect` follows at once. For the others `CalmInv` keeps the
invariants until such a save has come, which `past` remembers (`PastStep`): a writer that holds a version
older than the row's loses its update, and one that holds the row's own has seen it as it is, which
`ClaimIsOpen` and `FailureIsNewer` say of the renewal and of a failure job.
Dunning writes without moving the version; the proof goes
through because it changes neither the period nor the scheduled cancellation. `PaymentInv` follows each payment
through its jobs. A job reaches `publish` only by an update that moved the start of the period to its cycle,
and a second job of the payment, finding the period there, does not (`GrantedOnce`); where the update is
refused, the period is there already, the row is cancelled, or an incident is kept (`ThroughIsCovered`). A
binding that does not exist yet has no traces (`NothingAhead`), so that both hold of a new plan from its start.

**Sessions.** The cap is not inductive because a request counts in one step and inserts in another. `CapOK`
says that the sessions that count, with those the holder of the organization's lock is about to insert, are
within the cap, and `RequestsOK` that whoever is about to insert holds it. `LiveIsProvisioned` needs what a
listener holds (`ListenerOK`: the meeting of a provisioned event was Active, and what was Active stays Active,
Completed or Stale) and that the meeting of a row was inserted (`RowsOK`, `StartedOK`). `HistoryOK` ties
`disturbed` to it. The refinement maps a step that disturbs a row to a move to "Disturbed".

**Payments.** `DecidedIsAccounted` needs that a job that is about to save `processed` or `ignored` has put its
payment on the order or alerted, or found an alert of its order sent (`JobsAccount`, `RecentIsAlerted`): true for any number of
jobs of one row, because neither the payments of an order nor the alerts ever shrink. `PendingIsOwed` needs that a run that fails has counted itself
in the row (`RunsAreCounted`), so that the last run of a job decides: a second job that saves the count it read
earlier breaks exactly this, and the invariant speaks of the deliveries that never had one.

**Tenant's capacity.** A day is granted once because a task past its look has the day's lock and the day has no
grant (`LockedDayIsFree`); the day may turn at any moment, for the task keeps the day it began with. For the
limit, `LimitInv` says that either it is that of the tenant's plan, or a cause in `strayed` has come, or some
task `Mends` it: a handler that has still to read, one that has still to resolve, or one that resolved the
present plan and has still to save. It speaks of the plan the tenant has and not only of the one in force,
because a plan waits for its charge without a further announcement. The proof found what the run's bounds had
hidden: a plan may be resolved while past due, which the model did not count as a cause.

**Marketplace.** A refresh that claimed version v reads v or finds itself superseded; while it is about to
write v + 1 it has not advanced, and once it has, the version is beyond v, so that a retry does not advance
again (`Claims`). This holds until a version is put back, which `Recounted` says (section 5).

Every invariant and action property that a passing run checks is proved, `OneMeetingAlone` and the joint
`TypeOK` for the shapes of their runs. Only model-checked are the properties that need fairness, which is out of the
prover's reach: `CompletedGetsBilled`, `StuckIsReleased`, `EndedIsCompleted`, `DriftRepaired`,
`CompletedGetsFact`, `ScheduledCompletes`, `LiveEnds`, `EndedIsNoticed`, `IndexConverges` and `TodayIsGranted`.
`HandlersAgree`, `TypeOK` of the rooms and `UsageIsFrozen` are proved for all instances and no run repeats them.

## 5 Where code and text disagree

With a run that shows it:

- `end_tx`: `endBbbMeeting` is a `@Transaction()`; its stamp locks the row that
  `completeMeetingLifecycle` asks for on another connection.
- `room_two`: the check "no PENDING or PROVISIONING meeting already exists" and the insert are two
  statements, and the unique index the catch clause names is defined nowhere.
- `market_stale`: the indexer reads a session, and writes its document later without looking again; with two
  jobs of one session the document of a session that is over comes back, and no reindex, which visits
  eligible sessions only, removes it (`marketplace-event.listener.ts:105` says otherwise). With one worker an index job that reads the row before the session's transaction
  commits does the same.
- `past_due`: ADR-041 section 5 says that a failure of cycle C must not downgrade a subscription that has
  finalized C or a later cycle, and the comment at `subscription-renewal.service.ts:770` that a failure at or before
  the finalized start is stale. The row's start is made from a date (`razorpay-webhook.processor.ts:389`) and
  compared with the provider's instant (line 776), so that a failure of the very cycle that was paid
  afterwards compares as newer. `Day` and `Instant` model the truncation; `OlderFailureIgnored`, which holds,
  speaks of earlier cycles.
- `plan_limit`: a paid plan is announced while the row is `pending_provider_auth`
  (`subscription.service.ts:552`, line 627), and the capacity policy resolves only rows that are trialing or
  active (`bbb-platform-capacity-policy.service.ts:133`), so the handler changes nothing. The charge that
  activates it announces nothing, and the listener of renewals leaves the limit alone
  (`bbb-subscription.listener.ts:37`): the tenant who paid keeps the old limit until a restart.
  `platform-adr.md:642` and the comment at `subscription.service.ts:625` say that it converges.

Met while modelling, without a run of their own:

- `markMeetingStale` saves an entity read before the BBB call, so Completed becomes Stale; `constants.ts:30`
  lists Archived as the only way out of Completed, `domain-model.md:260` says the same. `MeetingFSM` has the
  step (`GoStale`).
- `updateBinding` (`razorpay-webhook.processor.ts:292`, 319) saves the row it read with the binding, with no lock and
  no version compared: a period that was finalized meanwhile, its version and a scheduled cancellation are written
  back. ADR-041 (line 121) promises monotonic progression. The model takes the step; `PeriodMonotone` says that it is the
  only one that moves the period back, and after it `PaidIsCovered`, `RenewedOnce`, `ScheduledIsNotClaimed` and
  `OlderFailureIgnored` promise nothing, for each compares the version it may have put back.
- `update` of a meeting (`bbb-meeting.service.ts:1384`) saves the entity it read, state included, so that a title
  edited during a completion makes the meeting run again and count again: such rows are in `edited`.
- A second captured payment of one order within an hour of the alert of the first is ignored without a record
  and without an alert: `notify` is keyed by the order's code (`payment-webhook-queue.service.ts:234`) and
  returns (`payment-ops-alert.service.ts:25`), though the comment at line 230 says "raise an ops alert instead
  of staying silent". `DecidedIsAccounted` has the payment in `muted` then and promises that the operator has an
  alert of the same order.
- A listener of sessions that fails only logs it (`bbb-session-provisioning.listener.ts:45`, 58, 69): the session
  stays LIVE, with its join button, until the next start (`stuck`).
- The other causes in `strayed`, where `platform-adr.md:642`, `bbb-organization.service.ts:272` ("Convergence,
  never ordering") and `bbb-subscription.listener.ts:97` ("independent of subscriber order", late events
  "are harmless") promise more: the registration resolves before the free plan's row exists, the handler of
  its announcement sets the limit, and then `syncOrganizationCache`
  (`bbb-platform-capacity-policy.service.ts:191`) saves the row of the registration with the default; the
  handlers of two announcements overlap, and the earlier plan is saved last; `setBbbOrganizationBilling`
  (`bbb-admin.resolver.ts:1828`) saves the limit it read with the billing fields; an announcement or a start
  that comes while the plan is past due finds no plan, and the charge that ends this announces nothing.
- A refresh of the baseline that dies between the writes of version and generation leaves a version that no
  generation owns: run again, it takes itself for superseded and orders no reindex, which the comment at
  `marketplace-baseline.service.ts:207` rules out; the very first refresh, which expects no version, advances
  it twice. Readers take the values in parallel and may pair an old mean with a new version (comment at line
  337). Two refreshes that overlap with different versions may both leave the reindex to the other. Three
  that overlap may put a version back: two that were scheduled on an empty store claim none and both write
  version 1, the third has claimed 1 and written 2 before the slower of them writes; if it then dies, its retry
  finds the version it claimed and advances again. The refresh queue, too, runs several jobs at once.
  Such a refresh is remembered in `lowered`, and the run's two cannot be it. `torn`, `lowered` and
  `claimed` in `AdvancesOnce` and `IndexConverges` mark these cases, `behind` in `IndexConverges` the documents of overtaken indexers
  (`market_stale`). No event reindexes a session when the
  subscription of its organization lapses.
- Two jobs of one payment delivery (the webhook repeated while the first runs) may end with the row pending
  and no job, when one puts back in its last attempt what the other has just decided (`doubled`); likewise a job that
  stalls for the second time, which is not modelled. An authorized payment
  is captured before its amount is compared with the order's total.
- A session whose meeting goes Stale instead of Completed stays LIVE for ever; a second start replaces the
  link, and the first meeting's events find no session; a late MeetingProvisioned event sets a CANCELLED or
  FINISHED session LIVE again. `startSession` saves FINISHED for an expired session and then fails, so that the
  request's transaction (`api/bbb-shop.resolver.ts:540`) rolls it back.
- `subscription.service.ts:565`: the outgoing binding is retired so that it does not feed webhooks into
  the superseded row. `updateBinding` and `markCancelledFromWebhook` never look at `active`; a late
  activation of the old binding makes a new plan active that was not authorized.
- `finalizeRenewalPeriod` looks whether the row was cancelled and then reads it again for the retry
  (line 557): a cancellation between the two is undone. `PaidIsCovered` has the history variable
  `past` because of it.
- Dunning (`subscription-dunning.task.ts:84`) writes from its scan without the version: a row paid
  meanwhile is cancelled.
- `joinRoom` (`bbb-meeting.service.ts:984`): "learners never provision" (line 912), but one who comes between
  the end on BBB and the join URL has the room rebuilt; `LearnersOnlyRebuild` is as far as it goes.
- `reconcileRooms` (line 622) leaves a room alone whose latest meeting is Pending; the retry pass
  leaves a Pending meeting without a job. Such a room stays in Provisioning.
- After a switch of the billing mode a meeting may be billed in both ways or in none
  (`bbb-reconciliation.service.ts:487`); `BilledInOneWay` and its neighbours exclude those meetings.
- `docs/architecture/bbb-process-ownership.md:23` and `:50` say that the reconciliation task and the
  provisioning worker hold an advisory lock per room; neither takes one. `runtime-flow.md:246` says 60
  seconds for the task; it runs every 5 minutes.

## 6 What is not modelled

- **Grants and entitlement**: single rows created by check-then-insert per order line, period or trial. Planned.
  Their consumption is in `MeetingBilling`, the daily ones in `TenantCapacity`.
- **Advertising wallet**: its functions have no callers in the repository. **Commissions**: one row per order
  line, single statements.
- **Server pool**: selection by load and health; here a call succeeds or fails.
- **Members and access, the other fields of an organization; reviews; learning and CMS; tenants; customer
  deletion**: decisions over rows that change by single statements, or long sequences of framework calls in one transaction.
- **Analytics, platform checkers**: read models, notifications and formulas; nothing the modelled parts depend
  on. Of the **capacity policy** the edits of its rows and the overrides for one tenant; of the **plans** the
  catalogue, trials, prices and the calls to the provider.
- Within the modelled parts: deletion of a meeting or a room, room administration, the Redis lock's
  fail-open branch, which production switches off, failover to another BBB server, invoices and rates, an organization without a cap on
  sessions (`maxSessionsPerOrg = 0`), templates and attendance, the BBB webhooks of other kinds, prices and
  the instructor's projection in a document, the rating formula, failed payment
  attempts (a ledger only), `subscription.halted` and `.paused` (written like `.pending`), the creation of
  a subscription, the marketplace grace deadline.

Open points no module covers yet: the provisioning job is enqueued with `setImmediate` and may run
before the insert commits (`bbb-meeting.service.ts:408`); the room lock is granted to everyone while Redis
is down unless the lock is strict (`bbb-room-lock.service.ts:166`); a reset writes a room that a pass has read
(`bbb-room.service.ts:741`), two failures of a room count once (line 700); a room waits for a Pending meeting that has
no job (`bbb-reconciliation.service.ts:622`);
a metered organization's spend is read without a lock before the promotion
(`bbb-provisioning-worker.service.ts:400`); a period's grant is looked up and then inserted
(`bbb-subscription.listener.ts:46`), as is that of an order line fulfilled twice (`bbb-fulfillment.ts:112`); a
cancelled webhook that loses its update and is reported processed (`subscription-renewal.service.ts:850`);
dunning cancels from its scan a row paid since, and never resets its count (`subscription-dunning.task.ts:84`,
`:82`); the attempt `executeRenewal` records, which no webhook can find (`subscription-renewal.service.ts:291`).

## 7 Plan

Done, in this order: `MeetingFSM` and `MeetingLifecycle` with the refinement and its proof, `EndMeeting`,
`RoomLifecycle` with the expiry of its lock, `MeetingBilling`, `SubscriptionRenewal` with its type and first
safety proofs, `BbbWebhookInbox` and `SessionLifecycle` with their refinement and its proof, `OrderPayment` with its proofs,
`MarketplaceRanking`; then the proofs of `RoomLifecycle` and `MeetingBilling`, and `TenantCapacity`; then the
theorems on payments of a subscription, on the tenant's limit and days, on rooms with one request, on the sum
of a grant, and on the baseline of the marketplace; then, in all modules, the stale saves, failing releases,
failing listeners, dropped alerts and open transactions that the first versions had left out, and the theorems
proved again without hypotheses.

Next, theorems: an abstract specification of a payment (reported, covered, granted once, or an incident) that
`SubscriptionRenewal` implements, and one of a meeting's bill that `MeetingBilling` implements.

Next, modules: `Grants` (order fulfilment, period grants and trials, check-then-insert; feeds
`MeetingBilling`); deletion of meetings in `MeetingLifecycle` and failover in its worker; the room lock
without Redis.
