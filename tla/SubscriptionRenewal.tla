------------------------ MODULE SubscriptionRenewal ------------------------
(***************************************************************************)
(* One OrganizationSubscription row, from its first paid cycle on, and all  *)
(* who write it: the workers of the provider-webhook queue, the renewal    *)
(* worker, the dunning task and the tenant's plan changes and cancellations.*)
(* The row is guarded by a hand-written version column: most writers read   *)
(* it, think, and write WHERE version = what they read; a few write without *)
(* asking.  The payment provider charges on its own and reports with        *)
(* webhooks that arrive late, twice and in any order.                       *)
(*                                                                          *)
(* Time is the provider's billing cycle.  A cycle starts at an instant, but *)
(* a billing attempt keeps only the day of it, and the row's                *)
(* currentPeriodStart is made from the attempt.                             *)
(***************************************************************************)
EXTENDS Naturals, FiniteSets

CONSTANTS
  Workers,          \* jobs of the webhook queue processed at once
  FinalizeRetries,  \* MAX_FINALIZE_RETRIES
  DunningRetries,   \* DUNNING_MAX_RETRIES
  MaxBindings,      \* bound: provider subscriptions the row goes through
  MaxCycle,         \* bound: billing cycles
  MaxEvents,        \* bound: webhooks the provider sends
  MaxVersion,       \* bound: no renewal or administration starts at this version
  MaxFailures,      \* bound: jobs that throw or die
  MaxBusy,          \* bound: workers, tasks and requests under way at once
  BusyAfter         \* bound: ... once updateBinding has overwritten the row

ASSUME BoundsAssumption ==
  /\ FinalizeRetries \in Nat
  /\ DunningRetries \in Nat \ {0}
  /\ MaxBindings \in Nat \ {0}
  /\ MaxCycle \in Nat \ {0}
  /\ MaxEvents \in Nat
  /\ MaxVersion \in Nat
  /\ MaxFailures \in Nat
  /\ MaxBusy \in Nat
  /\ BusyAfter \in Nat

VARIABLES
  sub,       \* the organization_subscription row
  current,   \* the binding of the row's plan; 0 on the free plan
  bound,     \* bindings created so far, the newest last
  prov,      \* what became of each subscription at the provider
  now,       \* the provider's current cycle
  inbox,     \* provider_webhook_event rows
  attempt,   \* the succeeded billing attempt of a payment, by the event it carries
  renewed,   \* SubscriptionRenewedEvents published for a payment
  incidents, \* renewal_payment_reconciliation_required rows
  worker,    \* jobs of the webhook queue
  job,       \* is a renewal job queued?
  renewer,   \* executeRenewal
  dunner,    \* the dunning task
  failures,  \* jobs that failed so far
  admin,     \* a plan change or a cancellation in progress
  past       \* history: the row has been "cancelled"; updateBinding has
             \* "overwritten" what others wrote since it read the row

provider == <<prov, now, inbox>>
billing == <<attempt, renewed, incidents>>
local == <<job, renewer, dunner, admin, failures>>
vars == <<sub, current, bound, provider, billing, worker, local, past>>

Provs == 1..MaxBindings
Cycles == 1..MaxCycle
Kinds == {"charged", "activated", "failure", "cancelled"}
Events == [kind : Kinds, prov : Provs, cycle : Cycles]
Payments == Provs \X Cycles
Rows == [status : {"pending_provider_auth", "active", "past_due", "cancelled"},
         start : Nat, version : Nat, cancelAtPeriodEnd : BOOLEAN, retries : Nat]

(* The day a cycle starts on, and the instant on that day; NULL is 0. *)
Day(c) == 2 * c
Instant(c) == 2 * c + 1

Payment(e) == <<e.prov, e.cycle>>
IsPayment(e) == e.kind \in {"charged", "activated"}
Paid(p, c) == inbox[[kind |-> "charged", prov |-> p, cycle |-> c]] # "none"
Ended == sub.start # 0 /\ sub.start < Day(now)

FirstCharge == [kind |-> "charged", prov |-> 1, cycle |-> 1]
FirstRow == [status |-> "active", start |-> Day(1), version |-> 2,
             cancelAtPeriodEnd |-> FALSE, retries |-> 0]
(* A job: where it stands, its event, the row it holds (from ReadBinding to
   SaveBinding), the version it read and the retries of its finalization. *)
Handler(pc, event, row, version, tries) ==
  [pc |-> pc, event |-> event, row |-> row, version |-> version, tries |-> tries]
Idle == Handler("idle", FirstCharge, FirstRow, 0, 0)

(* A subscription whose first cycle was paid and finalized. *)
Init ==
  /\ sub = FirstRow
  /\ current = 1
  /\ bound = 1
  /\ prov = [p \in Provs |-> IF p = 1 THEN "active" ELSE "none"]
  /\ now = 1
  /\ inbox = [e \in Events |-> IF e = FirstCharge THEN "processed" ELSE "none"]
  /\ attempt = [y \in Payments |-> IF y = <<1, 1>> THEN "charged" ELSE "none"]
  /\ renewed = [y \in Payments |-> IF y = <<1, 1>> THEN 1 ELSE 0]
  /\ incidents = {}
  /\ worker = [w \in Workers |-> Idle]
  /\ job = FALSE
  /\ renewer = [pc |-> "idle", version |-> 0]
  /\ dunner = [pc |-> "idle", retries |-> 0]
  /\ admin = [pc |-> "idle", op |-> "none", version |-> 0]
  /\ failures = 0
  /\ past = {}

Over        == "cancelled" \in past
Overwritten == "overwritten" \in past

Busy == Cardinality({w \in Workers : worker[w].pc # "idle"})
        + Cardinality({a \in {"r", "d", "a"} :
            CASE a = "r" -> renewer.pc # "idle"
              [] a = "d" -> dunner.pc # "idle"
              [] a = "a" -> admin.pc # "idle"})
MayStart == Busy < IF Overwritten THEN BusyAfter ELSE MaxBusy

(***************************************************************************)
(* Writing the row.                                                         *)
(***************************************************************************)
Cancelled(row) == IF row.status = "cancelled" THEN {"cancelled"} ELSE {}

Write(row) ==
  /\ sub' = row
  /\ past' = past \cup Cancelled(row)

Keep == UNCHANGED <<sub, past>>

(* UPDATE ... WHERE version = seen: the row as changed, or nothing. *)
WriteIf(guard, row) == IF guard THEN Write(row) ELSE Keep

Bump(changed) == [changed EXCEPT !.version = @ + 1]

(***************************************************************************)
(* The webhook worker.                                                      *)
(***************************************************************************)
At(w, pc) == worker[w].pc = pc
Event(w) == worker[w].event
Put(w, pc, version, tries) ==
  worker' = [worker EXCEPT ![w] = Handler(pc, Event(w), FirstRow, version, tries)]
Goto(w, pc) == Put(w, pc, worker[w].version, worker[w].tries)
Load(w, pc) == Put(w, pc, sub.version, worker[w].tries)
Finish(w) == Put(w, "done", 0, 0)
SameVersion(w) == sub.version = worker[w].version

(* A job of a pending event; a duplicate delivery enqueues it once more.  An
   activation whose attempt is already there only replays its finalization. *)
Take(w, e) ==
  /\ At(w, "idle") /\ MayStart
  /\ inbox[e] = "pending"
  /\ LET replay == e.kind = "activated" /\ attempt[Payment(e)] = "activated"
         pc == IF e.kind = "charged" \/ replay THEN "record" ELSE "mirror"
     IN worker' = [worker EXCEPT ![w] = Handler(pc, e, FirstRow, 0, 0)]
  /\ UNCHANGED <<sub, current, bound, provider, billing, local, past>>

(* updateBinding reads the binding with its subscription ... *)
ReadBinding(w) ==
  /\ At(w, "mirror")
  /\ worker' = [worker EXCEPT ![w] = Handler("save", Event(w), sub, 0, 0)]
  /\ UNCHANGED <<sub, current, bound, provider, billing, local, past>>

(* ... and saves every column it read of the row, whichever binding it is on and
   whatever was written since: nothing is locked and no version is compared. *)
IsStale(w) == At(w, "save") /\ worker[w].row # sub

SaveBinding(w) ==
  /\ At(w, "save")
  /\ LET row == worker[w].row
         authorized == Event(w).kind = "activated" /\ row.status = "pending_provider_auth"
     IN sub' = IF authorized THEN [row EXCEPT !.status = "active"] ELSE row
  /\ past' = past \cup Cancelled(worker[w].row)
                  \cup IF IsStale(w) THEN {"overwritten"} ELSE {}
  /\ Put(w, IF Event(w).kind = "activated" THEN "record" ELSE "mark", 0, 0)
  /\ UNCHANGED <<current, bound, provider, billing, local>>

(* recordAttempt: the attempt of the payment exists, or this event creates it;
   of two workers that create it the unique index lets one. *)
RecordAttempt(w) ==
  /\ At(w, "record")
  /\ attempt' = [attempt EXCEPT ![Payment(Event(w))] = IF @ = "none" THEN Event(w).kind ELSE @]
  /\ Goto(w, "load")
  /\ UNCHANGED <<sub, current, bound, provider, renewed, incidents, local, past>>

(* finalizeAfterPayment: a cancelled row is terminal. *)
LoadAttempt(w) ==
  /\ At(w, "load")
  /\ IF sub.status = "cancelled" THEN Finish(w) ELSE Load(w, "finalize")
  /\ UNCHANGED <<sub, current, bound, provider, billing, local, past>>

(* finalizeRenewalPeriod: only the version read and a later cycle advance it. *)
MayFinalize_SameCycle(w) == SameVersion(w) /\ sub.start <= Day(Event(w).cycle)
MayFinalize_AnyCycle(w) == SameVersion(w)
MayFinalize(w) == SameVersion(w) /\ sub.start < Day(Event(w).cycle)

Finalize(w) ==
  /\ At(w, "finalize")
  /\ WriteIf(MayFinalize(w),
             Bump([sub EXCEPT !.status = "active", !.start = Day(Event(w).cycle)]))
  /\ Goto(w, IF MayFinalize(w) THEN "publish" ELSE "classify")
  /\ UNCHANGED <<current, bound, provider, billing, local>>

(* The update lost: to a cancellation or to the same cycle, or only the version
   had moved, and then it is retried and at last given up. *)
Settled_AnyLoss(w) == TRUE
Settled(w) == sub.status = "cancelled" \/ sub.start >= Day(Event(w).cycle)

MayRetry(w) == worker[w].tries < FinalizeRetries

Classify(w) ==
  /\ At(w, "classify")
  /\ \/ /\ Settled(w)
        /\ Finish(w)
        /\ UNCHANGED incidents
     \/ /\ ~Settled(w) /\ MayRetry(w)
        /\ Goto(w, "reload")
        /\ UNCHANGED incidents
     \/ /\ ~Settled(w) /\ ~MayRetry(w)
        /\ incidents' = incidents \cup {Payment(Event(w))}
        /\ Finish(w)
  /\ UNCHANGED <<sub, current, bound, provider, attempt, renewed, local, past>>

(* The second read takes the fresh version and looks at nothing else. *)
Reload(w) ==
  /\ At(w, "reload")
  /\ Put(w, "finalize", sub.version, worker[w].tries + 1)
  /\ UNCHANGED <<sub, current, bound, provider, billing, local, past>>

(* publishFinalizeEvents: the listeners grant the minutes of the period. *)
Publish(w) ==
  /\ At(w, "publish")
  /\ renewed' = [renewed EXCEPT ![Payment(Event(w))] = @ + 1]
  /\ Finish(w)
  /\ UNCHANGED <<sub, current, bound, provider, attempt, incidents, local, past>>

(* markPastDueFromWebhook: nothing to do for a row that is not active or has
   reached a later cycle. *)
ReadForFailure(w) ==
  /\ At(w, "mark")
  /\ Event(w).kind = "failure"
  /\ IF sub.status = "active" /\ (sub.start = 0 \/ Instant(Event(w).cycle) > sub.start)
       THEN Load(w, "past_due")
       ELSE Finish(w)
  /\ UNCHANGED <<sub, current, bound, provider, billing, local, past>>

MayMarkPastDue_Blind(w) == TRUE
MayMarkPastDue(w) == SameVersion(w)

MarkPastDue(w) ==
  /\ At(w, "past_due")
  /\ WriteIf(MayMarkPastDue(w), Bump([sub EXCEPT !.status = "past_due"]))
  /\ Finish(w)
  /\ UNCHANGED <<current, bound, provider, billing, local>>

(* markCancelledFromWebhook: a lost update is not repeated. *)
ReadForCancel(w) ==
  /\ At(w, "mark")
  /\ Event(w).kind = "cancelled"
  /\ IF sub.status = "cancelled" THEN Finish(w) ELSE Load(w, "cancel")
  /\ UNCHANGED <<sub, current, bound, provider, billing, local, past>>

MarkCancelled(w) ==
  /\ At(w, "cancel")
  /\ WriteIf(SameVersion(w), Bump([sub EXCEPT !.status = "cancelled"]))
  /\ Finish(w)
  /\ UNCHANGED <<current, bound, provider, billing, local>>

Done(w) ==
  /\ At(w, "done")
  /\ inbox' = [inbox EXCEPT ![Event(w)] = "processed"]
  /\ worker' = [worker EXCEPT ![w] = Idle]
  /\ UNCHANGED <<sub, current, bound, prov, now, billing, local, past>>

(* An error or a crash anywhere.  The event stays as it is and is taken again,
   or never: MAX_ATTEMPTS writes "failed" into a row that nobody takes again. *)
WorkerFails(w) ==
  /\ ~At(w, "idle")
  /\ failures < MaxFailures
  /\ failures' = failures + 1
  /\ inbox' = [inbox EXCEPT ![Event(w)] = "pending"]
  /\ worker' = [worker EXCEPT ![w] = Idle]
  /\ UNCHANGED <<sub, current, bound, prov, now, billing, job, renewer, dunner, admin, past>>

(***************************************************************************)
(* Renewal.                                                                 *)
(***************************************************************************)
MayRenew == sub.version < MaxVersion \/ sub.cancelAtPeriodEnd

(* processRenewals: active and past its period.  An attempt that is in flight
   holds the scan back only until SUBSCRIPTION_CHARGE_ABANDON_TIMEOUT_MS. *)
DueForRenewal_NotScheduled == sub.status = "active" /\ Ended /\ ~sub.cancelAtPeriodEnd
DueForRenewal == sub.status = "active" /\ Ended

Discover ==
  /\ DueForRenewal
  /\ ~job /\ MayRenew
  /\ job' = TRUE
  /\ UNCHANGED <<sub, current, bound, provider, billing, worker, renewer, dunner, admin, failures, past>>

(* executeRenewal: a scheduled cancellation is completed, anything else is
   claimed, whatever its status has become since it was queued. *)
StartRenewal ==
  /\ job /\ MayRenew
  /\ renewer.pc = "idle" /\ MayStart
  /\ job' = FALSE
  /\ renewer' = [pc |-> IF sub.cancelAtPeriodEnd THEN "complete" ELSE "claim",
                 version |-> sub.version]
  /\ UNCHANGED <<sub, current, bound, provider, billing, worker, dunner, admin, failures, past>>

CompleteCancellation ==
  /\ renewer.pc = "complete"
  /\ WriteIf(sub.version = renewer.version /\ sub.status # "cancelled",
             Bump([sub EXCEPT !.status = "cancelled", !.cancelAtPeriodEnd = FALSE]))
  /\ renewer' = [pc |-> "idle", version |-> 0]
  /\ UNCHANGED <<current, bound, provider, billing, worker, job, dunner, admin, failures>>

(* The attempt recorded next has no provider subscription id, so no webhook ever
   finds it. *)
MayClaim_Blind == TRUE
MayClaim == sub.version = renewer.version

Claim ==
  /\ renewer.pc = "claim"
  /\ WriteIf(MayClaim, Bump(sub))
  /\ renewer' = [pc |-> "idle", version |-> 0]
  /\ UNCHANGED <<current, bound, provider, billing, worker, job, dunner, admin, failures>>

(* A retried job reads the row again. *)
RenewerFails ==
  /\ renewer.pc # "idle"
  /\ failures < MaxFailures
  /\ failures' = failures + 1
  /\ job' \in {job, TRUE}
  /\ renewer' = [pc |-> "idle", version |-> 0]
  /\ UNCHANGED <<sub, current, bound, provider, billing, worker, dunner, admin, past>>

(***************************************************************************)
(* Dunning: scan, then write what the scan decided, without the version.    *)
(***************************************************************************)
ScanDunning ==
  /\ dunner.pc = "idle" /\ MayStart
  /\ sub.status = "past_due" /\ sub.retries < DunningRetries
  /\ dunner' = [pc |-> "act", retries |-> sub.retries]
  /\ UNCHANGED <<sub, current, bound, provider, billing, worker, job, renewer, admin, failures, past>>

ActDunning ==
  /\ dunner.pc = "act"
  /\ LET last == dunner.retries + 1 >= DunningRetries
     IN /\ Write(IF last THEN [sub EXCEPT !.status = "cancelled"]
                         ELSE [sub EXCEPT !.retries = dunner.retries + 1])
        /\ job' = (job \/ ~last)
  /\ dunner' = [pc |-> "idle", retries |-> 0]
  /\ UNCHANGED <<current, bound, provider, billing, worker, renewer, admin, failures>>

(***************************************************************************)
(* Cancellations and plan changes of the tenant.                            *)
(***************************************************************************)
Send(es) ==
  /\ Cardinality(({e \in Events : inbox[e] # "none"} \cup es) \ {FirstCharge}) <= MaxEvents
  /\ inbox' = [e \in Events |-> IF e \in es THEN "pending" ELSE inbox[e]]

CancelledEvent(p) == [kind |-> "cancelled", prov |-> p, cycle |-> now]

ReadForChange(op) ==
  /\ admin.pc = "idle" /\ MayStart
  /\ sub.status # "cancelled" /\ sub.version < MaxVersion
  /\ op = "change" => bound < MaxBindings
  /\ op = "free" => current # 0
  /\ admin' = [pc |-> "ask", op |-> op, version |-> sub.version]
  /\ UNCHANGED <<sub, current, bound, provider, billing, worker, job, renewer, dunner, failures, past>>

(* The provider is asked before the row is locked: a cancellation asks for the
   plan's own binding, a plan change for the newest.  A subscription without an
   active cycle makes a scheduled cancellation immediate. *)
AskProvider ==
  /\ admin.pc = "ask"
  /\ LET b == IF admin.op \in {"now", "at_end"} THEN current ELSE bound
         open == b # 0 /\ prov[b] # "cancelled"
         running == open /\ prov[b] # "created"
     IN \/ /\ admin.op = "now" /\ open
           /\ prov' = [prov EXCEPT ![b] = "cancelled"]
           /\ Send({CancelledEvent(b)})
           /\ admin' = [admin EXCEPT !.pc = "commit"]
        \/ /\ admin.op # "now" /\ running
           /\ prov' = [prov EXCEPT ![b] = "cancelling"]
           /\ admin' = [admin EXCEPT !.pc = "commit"]
           /\ UNCHANGED inbox
        \/ /\ ~(IF admin.op = "now" THEN open ELSE running)
           /\ admin' = [admin EXCEPT !.pc = "commit", !.op = IF @ = "at_end" THEN "now" ELSE @]
           /\ UNCHANGED <<prov, inbox>>
  /\ UNCHANGED <<sub, current, bound, now, billing, worker, job, renewer, dunner, failures, past>>

(* Under FOR UPDATE, and only if the row is as it was read. *)
Commit ==
  /\ admin.pc = "commit"
  /\ admin' = [pc |-> "idle", op |-> "none", version |-> 0]
  /\ LET moved == [sub EXCEPT !.start = 0, !.cancelAtPeriodEnd = FALSE]
     IN IF sub.status = "cancelled" \/ sub.version # admin.version
          THEN Keep /\ UNCHANGED <<current, bound, prov>>
          ELSE \/ /\ admin.op = "now"
                  /\ Write(Bump([sub EXCEPT !.status = "cancelled", !.cancelAtPeriodEnd = FALSE]))
                  /\ UNCHANGED <<current, bound, prov>>
               \/ /\ admin.op = "at_end"
                  /\ Write(Bump([sub EXCEPT !.cancelAtPeriodEnd = TRUE]))
                  /\ UNCHANGED <<current, bound, prov>>
               \/ /\ admin.op = "free"
                  /\ Write(Bump([moved EXCEPT !.status = "active"]))
                  /\ current' = 0
                  /\ UNCHANGED <<bound, prov>>
               \/ /\ admin.op = "change"
                  /\ Write(Bump([moved EXCEPT !.status = "pending_provider_auth"]))
                  /\ bound' = bound + 1
                  /\ current' = bound + 1
                  /\ prov' = [prov EXCEPT ![bound + 1] = "created"]
  /\ UNCHANGED <<now, inbox, billing, worker, job, renewer, dunner, failures>>

(* The provider refuses, or the process dies before the row is written. *)
ChangeFails ==
  /\ admin.pc # "idle"
  /\ admin' = [pc |-> "idle", op |-> "none", version |-> 0]
  /\ UNCHANGED <<sub, current, bound, provider, billing, worker, job, renewer, dunner, failures, past>>

(***************************************************************************)
(* The provider.                                                            *)
(***************************************************************************)
(* A payment; of the first one of a subscription it may tell twice. *)
Charge(p) ==
  /\ prov[p] \in {"created", "active", "cancelling"}
  /\ ~Paid(p, now)
  /\ Send({[kind |-> "charged", prov |-> p, cycle |-> now]})
  /\ prov' = [prov EXCEPT ![p] = IF @ = "created" THEN "active" ELSE @]
  /\ UNCHANGED <<sub, current, bound, now, billing, worker, local, past>>

Activate(p) ==
  /\ prov[p] = "active"
  /\ Paid(p, now) /\ \A c \in 1..(now - 1) : ~Paid(p, c)
  /\ inbox[[kind |-> "activated", prov |-> p, cycle |-> now]] = "none"
  /\ Send({[kind |-> "activated", prov |-> p, cycle |-> now]})
  /\ UNCHANGED <<sub, current, bound, prov, now, billing, worker, local, past>>

(* A payment of the cycle failed; it may still succeed. *)
Fail(p) ==
  /\ prov[p] \in {"active", "cancelling"}
  /\ ~Paid(p, now)
  /\ inbox[[kind |-> "failure", prov |-> p, cycle |-> now]] = "none"
  /\ Send({[kind |-> "failure", prov |-> p, cycle |-> now]})
  /\ UNCHANGED <<sub, current, bound, prov, now, billing, worker, local, past>>

(* The next cycle; what was to be cancelled at the end of this one is. *)
NextCycle ==
  /\ now < MaxCycle
  /\ now' = now + 1
  /\ Send({CancelledEvent(p) : p \in {q \in Provs : prov[q] = "cancelling"}})
  /\ prov' = [p \in Provs |-> IF prov[p] = "cancelling" THEN "cancelled" ELSE prov[p]]
  /\ UNCHANGED <<sub, current, bound, billing, worker, local, past>>

Process(w) ==
  \/ \E e \in Events : Take(w, e)
  \/ ReadBinding(w) \/ SaveBinding(w)
  \/ RecordAttempt(w) \/ LoadAttempt(w) \/ Finalize(w) \/ Classify(w) \/ Reload(w) \/ Publish(w)
  \/ ReadForFailure(w) \/ MarkPastDue(w) \/ ReadForCancel(w) \/ MarkCancelled(w)
  \/ Done(w)

Renew == StartRenewal \/ CompleteCancellation \/ Claim

Administrate ==
  \/ \E op \in {"now", "at_end", "free", "change"} : ReadForChange(op)
  \/ AskProvider \/ Commit \/ ChangeFails

Next ==
  \/ \E w \in Workers : Process(w) \/ WorkerFails(w)
  \/ Discover \/ Renew \/ RenewerFails
  \/ ScanDunning \/ ActDunning
  \/ Administrate
  \/ \E p \in Provs : Charge(p) \/ Activate(p) \/ Fail(p)
  \/ NextCycle

(* Started jobs go on, the tasks are scheduled and their queue is served; no
   webhook need ever be taken, and nothing is promised of the provider or the
   tenant. *)
Fairness ==
  /\ \A w \in Workers : WF_vars(~At(w, "idle") /\ Process(w))
  /\ WF_vars(Discover) /\ WF_vars(Renew)
  /\ WF_vars(ScanDunning) /\ WF_vars(ActDunning)

Spec == Init /\ [][Next]_vars
FairSpec == Spec /\ Fairness

(***************************************************************************)
(* Properties.                                                              *)
(***************************************************************************)
StoreOK ==
  /\ sub \in Rows
  /\ current \in 0..bound /\ bound \in Provs
  /\ attempt \in [Payments -> {"none", "charged", "activated"}]
  /\ renewed \in [Payments -> Nat]
  /\ incidents \subseteq Payments
  /\ past \subseteq {"cancelled", "overwritten"}

ProviderOK ==
  /\ prov \in [Provs -> {"none", "created", "active", "cancelling", "cancelled"}]
  /\ now \in Cycles
  /\ inbox \in [Events -> {"none", "pending", "processed"}]

Handlers ==
  [pc : {"idle", "mirror", "save", "record", "load", "finalize", "classify", "reload",
         "publish", "mark", "past_due", "cancel", "done"},
   event : Events, row : Rows, version : Nat, tries : 0..FinalizeRetries]

TasksOK ==
  /\ job \in BOOLEAN
  /\ renewer \in [pc : {"idle", "complete", "claim"}, version : Nat]
  /\ dunner \in [pc : {"idle", "act"}, retries : Nat]
  /\ admin \in [pc : {"idle", "ask", "commit"},
                op : {"none", "now", "at_end", "free", "change"}, version : Nat]
  /\ failures \in 0..MaxFailures

(* Every row, job, event and incident stays in a state the code can put it in. *)
TypeOK ==
  StoreOK /\ ProviderOK /\ worker \in [Workers -> Handlers] /\ TasksOK

(* A payment of the current provider subscription whose webhook was processed
   has its period, unless the row was cancelled, an operator has been told or
   updateBinding wrote over the row: no lost update, retry or redelivery loses a
   paid cycle (finalizeRenewalPeriod). *)
PaidIsCovered ==
  \A e \in Events :
    (IsPayment(e) /\ e.prov = current /\ inbox[e] = "processed")
      => sub.start >= Day(e.cycle) \/ Over \/ Overwritten \/ Payment(e) \in incidents

(* A payment of the current provider subscription is announced, and its minutes
   are granted, at most once, however often and by however many events it is
   reported, unless updateBinding put back the row that the update compares
   (publishFinalizeEvents behind the finalize update). *)
RenewedOnce ==
  \A y \in Payments :
    y[1] = current /\ ~Overwritten =>
      renewed[y] + Cardinality({w \in Workers : At(w, "publish") /\ Payment(Event(w)) = y}) <= 1

(* Nothing but updateBinding's save of a row that has changed since it was read
   moves the period backward, not even later. *)
PeriodMonotone ==
  [][current' = current
       => sub'.start >= sub.start \/ \E w \in Workers : IsStale(w) /\ SaveBinding(w)]_vars

(* A row whose cancellation is scheduled is never claimed for another charge,
   even if it is scheduled while the renewal is under way, unless updateBinding
   put back the version the claim compares (executeRenewal). *)
ScheduledIsNotClaimed ==
  [][(renewer.pc = "claim" /\ renewer'.pc = "idle" /\ sub' # sub)
       => ~sub.cancelAtPeriodEnd \/ Overwritten]_vars

(* A failed payment never makes a row past due that was paid for its cycle or a
   later one (ADR-041 section 5). *)
PaidIsNotPastDue ==
  [][(sub'.status = "past_due" /\ sub.status # "past_due")
       => \E w \in Workers : At(w, "past_due") /\ Day(Event(w).cycle) > sub.start]_vars

(* A failed payment of an earlier cycle does not make a row past due that was
   paid for a later one, whenever the two are processed, unless updateBinding
   put back the version (markPastDueFromWebhook). *)
OlderFailureIgnored ==
  [][(sub'.status = "past_due" /\ sub.status # "past_due")
       => \/ \E w \in Workers : At(w, "past_due") /\ Instant(Event(w).cycle) > sub.start
          \/ Overwritten']_vars

(* A scheduled cancellation completes after the period has ended even if the
   provider's webhook never comes (executeRenewal's branch for it). *)
ScheduledCompletes ==
  (sub.cancelAtPeriodEnd /\ Ended)
    ~> (sub.status = "cancelled" \/ ~sub.cancelAtPeriodEnd \/ ~Ended)
=============================================================================
