--------------------- MODULE SubscriptionRenewalProofs ---------------------
(***************************************************************************)
(* SubscriptionRenewal, for any number of workers and any bounds: its type *)
(* invariant and its safety properties.  Until updateBinding saves a row   *)
(* that has changed since it was read, every change of the period moves    *)
(* the version, and what a writer has read under a version is still so.    *)
(***************************************************************************)
EXTENDS SubscriptionRenewal, FiniteSetTheorems, TLAPS

(* What TypeOK needs to be inductive: a job is where its event leads, a retry is
   left when the row is read again, and a plan change that has begun has a
   binding to go to. *)
Paying == {"record", "load", "finalize", "classify", "reload", "publish"}
OnItsWay(h) ==
  /\ h.pc \in Paying => IsPayment(h.event)
  /\ h.pc \in {"mirror", "save"} => h.event.kind # "charged"
  /\ h.pc \in {"mark", "past_due", "cancel"} => ~IsPayment(h.event)
  /\ h.pc = "reload" => h.tries < FinalizeRetries
JobsOnTheirWay == \A w \in Workers : OnItsWay(worker[w])
ChangeReady ==
  /\ admin.op = "change" => bound < MaxBindings
  /\ admin.op = "free" => current # 0

TypeInv == TypeOK /\ JobsOnTheirWay /\ ChangeReady

-----------------------------------------------------------------------------
\* What is kept in a row, a cycle or a job has its type.
LEMMA Constructors ==
  /\ FirstCharge \in Events /\ FirstRow \in Rows /\ Idle \in Handlers
  /\ \A c \in Cycles : Day(c) \in Nat /\ Instant(c) \in Nat
<1> USE BoundsAssumption
<1>1. FirstCharge \in Events /\ FirstRow \in Rows
  BY DEF FirstCharge, FirstRow, Events, Kinds, Provs, Cycles, Rows, Day
<1>2. Idle \in Handlers
  BY <1>1 DEF Idle, Handler, Handlers
<1>3. \A c \in Cycles : Day(c) \in Nat /\ Instant(c) \in Nat
  BY DEF Cycles, Day, Instant
<1> QED
  BY <1>1, <1>2, <1>3

\* A row whose version is moved keeps everything else.
LEMMA Bumped ==
  ASSUME NEW r \in Rows
  PROVE  /\ Bump(r) \in Rows
         /\ Bump(r).version = r.version + 1
         /\ Bump(r).status = r.status /\ Bump(r).start = r.start
         /\ Bump(r).cancelAtPeriodEnd = r.cancelAtPeriodEnd
BY DEF Bump, Rows

\* A job's step changes that job only.
LEMMA OneMoves ==
  ASSUME TypeOK, NEW w \in Workers, NEW h \in Handlers,
         worker' = [worker EXCEPT ![w] = h]
  PROVE  /\ worker' \in [Workers -> Handlers]
         /\ worker'[w] = h
         /\ \A v \in Workers \ {w} : worker'[v] = worker[v]
BY DEF TypeOK

\* Its fields.
LEMMA Held ==
  ASSUME TypeOK, NEW w \in Workers
  PROVE  /\ worker[w] \in Handlers
         /\ Event(w) \in Events /\ worker[w].row \in Rows /\ worker[w].version \in Nat
         /\ worker[w].tries \in 0..FinalizeRetries
         /\ Payment(Event(w)) \in Payments /\ Event(w).cycle \in Cycles
         /\ Event(w).prov \in Provs
BY DEF TypeOK, Handlers, Event, Events, Payment, Payments

\* The initial values are well formed.
LEMMA TypeInitial == Init => TypeInv
<1> SUFFICES ASSUME Init PROVE TypeInv
  OBVIOUS
<1>1. StoreOK
  <2>1. sub \in Rows /\ current \in 0..bound /\ bound \in Provs
    BY BoundsAssumption, Constructors DEF Init, Provs
  <2>2. /\ attempt \in [Payments -> {"none", "charged", "activated"}]
        /\ renewed \in [Payments -> Nat]
    BY DEF Init
  <2>3. past = {} /\ incidents \subseteq Payments
    BY DEF Init
  <2> QED
    BY <2>1, <2>2, <2>3 DEF StoreOK
<1>2. ProviderOK
  BY BoundsAssumption, Constructors DEF Init, ProviderOK, Provs, Cycles
<1>3. TasksOK
  <2>1. /\ renewer = [pc |-> "idle", version |-> 0]
        /\ dunner = [pc |-> "idle", retries |-> 0]
        /\ admin = [pc |-> "idle", op |-> "none", version |-> 0]
        /\ job = FALSE /\ failures = 0
    BY DEF Init
  <2>2. failures \in 0..MaxFailures
    BY <2>1, BoundsAssumption
  <2> QED
    BY <2>1, <2>2 DEF TasksOK
<1>4. worker = [w \in Workers |-> Idle]
  BY DEF Init
<1>5. JobsOnTheirWay /\ ChangeReady
  BY <1>4 DEF Init, JobsOnTheirWay, OnItsWay, Paying, ChangeReady, Idle, Handler
<1> QED
  BY <1>1, <1>2, <1>3, <1>4, <1>5, Constructors DEF TypeInv, TypeOK

\* The job of the worker that moves stays well formed and on its way.
LEMMA WorkersInductive ==
  ASSUME TypeInv, [Next]_vars
  PROVE  worker' \in [Workers -> Handlers] /\ JobsOnTheirWay'
<1> DEFINE Good == worker' \in [Workers -> Handlers] /\ JobsOnTheirWay'
<1> USE BoundsAssumption DEF TypeInv
<1>1. ASSUME NEW w \in Workers, NEW h \in Handlers, worker' = [worker EXCEPT ![w] = h],
             OnItsWay(h)
      PROVE  Good
  BY <1>1, OneMoves DEF JobsOnTheirWay, OnItsWay
<1>2. ASSUME NEW w \in Workers,
             NEW pc \in Paying \cup {"mark", "past_due", "cancel", "done"},
             NEW v \in Nat, NEW n \in 0..FinalizeRetries, Put(w, pc, v, n),
             pc \in Paying => IsPayment(Event(w)),
             pc \in {"mark", "past_due", "cancel"} => ~IsPayment(Event(w)),
             pc = "reload" => n < FinalizeRetries
      PROVE  Good
  <2>1. Handler(pc, Event(w), FirstRow, v, n) \in Handlers
    BY Held, Constructors DEF Handler, Handlers, Paying
  <2> QED
    BY <1>1, <1>2, <2>1 DEF Put, Handler, OnItsWay, Paying
<1>3. ASSUME NEW w \in Workers, NEW e \in Events, Take(w, e) PROVE Good
  <2>1. ASSUME NEW pc \in {"record", "mirror"}
        PROVE  Handler(pc, e, FirstRow, 0, 0) \in Handlers
    BY Constructors DEF Handler, Handlers
  <2>2. CASE e.kind = "charged" \/ (e.kind = "activated" /\ attempt[Payment(e)] = "activated")
    <3>1. worker' = [worker EXCEPT ![w] = Handler("record", e, FirstRow, 0, 0)]
      BY <1>3, <2>2 DEF Take
    <3> QED
      BY <1>1, <2>1, <2>2, <3>1 DEF Handler, OnItsWay, IsPayment, Paying
  <2>3. CASE ~(e.kind = "charged" \/ (e.kind = "activated" /\ attempt[Payment(e)] = "activated"))
    <3>1. worker' = [worker EXCEPT ![w] = Handler("mirror", e, FirstRow, 0, 0)]
      BY <1>3, <2>3 DEF Take
    <3> QED
      BY <1>1, <2>1, <2>3, <3>1 DEF Handler, OnItsWay, Paying
  <2> QED
    BY <2>2, <2>3
<1>4. ASSUME NEW w \in Workers, ReadBinding(w) PROVE Good
  <2>1. Handler("save", Event(w), sub, 0, 0) \in Handlers
    BY Held DEF Handler, Handlers, TypeOK, StoreOK
  <2>2. Event(w).kind # "charged"
    BY <1>4 DEF ReadBinding, JobsOnTheirWay, OnItsWay, At, Event
  <2> QED
    BY <1>1, <1>4, <2>1, <2>2 DEF ReadBinding, Handler, OnItsWay, Paying
<1>5. ASSUME NEW w \in Workers, SaveBinding(w) PROVE Good
  <2>1. Event(w).kind # "charged"
    BY <1>5 DEF SaveBinding, JobsOnTheirWay, OnItsWay, At, Event
  <2>2. Put(w, IF Event(w).kind = "activated" THEN "record" ELSE "mark", 0, 0)
    BY <1>5 DEF SaveBinding
  <2> QED
    BY <1>2, <2>1, <2>2 DEF IsPayment, Paying
<1>6. ASSUME NEW w \in Workers
      PROVE  /\ sub.version \in Nat /\ worker[w].version \in Nat
             /\ worker[w].tries \in 0..FinalizeRetries
             /\ worker[w].tries < FinalizeRetries => worker[w].tries + 1 \in 0..FinalizeRetries
  BY Held DEF TypeOK, StoreOK, Rows
<1>7. ASSUME NEW w \in Workers,
             \/ RecordAttempt(w) \/ LoadAttempt(w) \/ Finalize(w) \/ Classify(w)
             \/ Reload(w) \/ Publish(w)
      PROVE  Good
  <2>1. IsPayment(Event(w)) /\ (At(w, "reload") => worker[w].tries < FinalizeRetries)
    BY <1>7 DEF RecordAttempt, LoadAttempt, Finalize, Classify, Reload, Publish,
       JobsOnTheirWay, OnItsWay, Paying, At, Event
  <2>2. CASE RecordAttempt(w) \/ LoadAttempt(w) \/ Finalize(w) \/ Publish(w)
    BY <1>2, <1>6, <2>1, <2>2 DEF RecordAttempt, LoadAttempt, Finalize, Publish, Goto, Load,
       Finish, Paying
  <2>3. CASE Reload(w)
    BY <1>2, <1>6, <2>1, <2>3 DEF Reload, Paying
  <2>4. CASE Classify(w)
    BY <1>2, <1>6, <2>1, <2>4 DEF Classify, MayRetry, Finish, Goto, Paying
  <2> QED
    BY <1>7, <2>2, <2>3, <2>4
<1>8. ASSUME NEW w \in Workers,
             ReadForFailure(w) \/ MarkPastDue(w) \/ ReadForCancel(w) \/ MarkCancelled(w)
      PROVE  Good
  <2>1. ~IsPayment(Event(w))
    BY <1>8 DEF ReadForFailure, MarkPastDue, ReadForCancel, MarkCancelled, JobsOnTheirWay,
       OnItsWay, At, Event
  <2> QED
    BY <1>2, <1>6, <1>8, <2>1 DEF ReadForFailure, MarkPastDue, ReadForCancel, MarkCancelled,
       Load, Finish, Paying
<1>9. ASSUME NEW w \in Workers, Done(w) \/ WorkerFails(w) PROVE Good
  BY <1>1, <1>9, Constructors DEF Done, WorkerFails, Idle, Handler, OnItsWay, Paying
<1>10. CASE UNCHANGED worker
  BY <1>10 DEF TypeOK, JobsOnTheirWay, OnItsWay
<1>11. CASE \/ Discover \/ Renew \/ RenewerFails \/ ScanDunning \/ ActDunning
            \/ Administrate
            \/ \E p \in Provs : Charge(p) \/ Activate(p) \/ Fail(p)
            \/ NextCycle \/ UNCHANGED vars
  BY <1>10, <1>11 DEF Discover, Renew, StartRenewal, CompleteCancellation, Claim, RenewerFails,
     ScanDunning, ActDunning, Administrate, ReadForChange, AskProvider, Commit, ChangeFails,
     Charge, Activate, Fail, NextCycle, vars
<1> QED
  BY <1>3, <1>4, <1>5, <1>7, <1>8, <1>9, <1>11 DEF Next, Process

\* Inbox, clock and provider.
LEMMA ProviderInductive == ASSUME TypeInv, [Next]_vars PROVE ProviderOK'
<1> USE BoundsAssumption DEF TypeInv
<1>1. ASSUME NEW es \in SUBSET Events, Send(es)
      PROVE  inbox' \in [Events -> {"none", "pending", "processed"}]
  BY <1>1 DEF Send, TypeOK, ProviderOK
<1>2. ASSUME NEW k \in Kinds, NEW p \in Provs
      PROVE  [kind |-> k, prov |-> p, cycle |-> now] \in Events
  BY DEF Events, TypeOK, ProviderOK
<1>3. ASSUME NEW w \in Workers, Process(w) \/ WorkerFails(w) PROVE ProviderOK'
  BY <1>3, Held DEF Process, Take, ReadBinding, SaveBinding, RecordAttempt, LoadAttempt, Finalize,
     Classify, Reload, Publish, ReadForFailure, MarkPastDue, ReadForCancel, MarkCancelled, Done,
     WorkerFails, provider, TypeOK, ProviderOK
<1>4. ASSUME NEW p \in Provs, Charge(p) PROVE ProviderOK'
  <2>1. inbox' \in [Events -> {"none", "pending", "processed"}]
    BY <1>1, <1>2, <1>4 DEF Charge, Kinds
  <2> QED
    BY <1>4, <2>1 DEF Charge, TypeOK, ProviderOK
<1>5. ASSUME NEW p \in Provs, Activate(p) \/ Fail(p) PROVE ProviderOK'
  <2>1. inbox' \in [Events -> {"none", "pending", "processed"}]
    BY <1>1, <1>2, <1>5 DEF Activate, Fail, Kinds
  <2> QED
    BY <1>5, <2>1 DEF Activate, Fail, TypeOK, ProviderOK
<1>6. CASE NextCycle
  <2>1. inbox' \in [Events -> {"none", "pending", "processed"}]
    BY <1>1, <1>2, <1>6 DEF NextCycle, CancelledEvent, Kinds
  <2>2. now' \in Cycles
    BY <1>6 DEF NextCycle, TypeOK, ProviderOK, Cycles
  <2> QED
    BY <1>6, <2>1, <2>2 DEF NextCycle, TypeOK, ProviderOK
<1>7. CASE AskProvider
  <2>0. current \in {0} \cup Provs /\ bound \in Provs
    BY DEF TypeOK, StoreOK, Provs
  <2>1. inbox' \in [Events -> {"none", "pending", "processed"}]
    BY <1>1, <1>2, <1>7, <2>0 DEF AskProvider, CancelledEvent, Kinds, TypeOK, ProviderOK
  <2>2. prov' \in [Provs -> {"none", "created", "active", "cancelling", "cancelled"}]
    BY <1>7, <2>0 DEF AskProvider, TypeOK, ProviderOK
  <2> QED
    BY <1>7, <2>1, <2>2 DEF AskProvider, TypeOK, ProviderOK
<1>8. CASE Commit
  BY <1>8 DEF Commit, TypeOK, ProviderOK
<1>9. CASE UNCHANGED provider
  BY <1>9 DEF provider, TypeOK, ProviderOK
<1>10. CASE \/ Discover \/ Renew \/ RenewerFails \/ ScanDunning \/ ActDunning \/ ChangeFails
            \/ \E op \in {"now", "at_end", "free", "change"} : ReadForChange(op)
            \/ UNCHANGED vars
  BY <1>9, <1>10 DEF Discover, Renew, StartRenewal, CompleteCancellation, Claim, RenewerFails,
     ScanDunning, ActDunning, ReadForChange, ChangeFails, vars
<1> QED
  BY <1>3, <1>4, <1>5, <1>6, <1>7, <1>8, <1>10 DEF Next, Administrate

\* Renewal, dunning and the tenant; a change that has begun can be committed.
LEMMA TasksInductive == ASSUME TypeInv, [Next]_vars PROVE TasksOK' /\ ChangeReady'
<1> USE BoundsAssumption DEF TypeInv
<1>0. sub.version \in Nat /\ sub.retries \in Nat
  BY DEF TypeOK, StoreOK, Rows
<1>1. CASE UNCHANGED <<current, bound, local>>
  BY <1>1 DEF local, TypeOK, TasksOK, ChangeReady
<1>2. ASSUME NEW w \in Workers, Process(w) PROVE TasksOK' /\ ChangeReady'
  BY <1>1, <1>2 DEF Process, Take, ReadBinding, SaveBinding, RecordAttempt, LoadAttempt, Finalize,
     Classify, Reload, Publish, ReadForFailure, MarkPastDue, ReadForCancel, MarkCancelled, Done
<1>3. ASSUME NEW w \in Workers, WorkerFails(w) PROVE TasksOK' /\ ChangeReady'
  BY <1>3 DEF WorkerFails, TypeOK, TasksOK, ChangeReady
<1>4. CASE Discover \/ Renew \/ RenewerFails
  <2>0. ASSUME NEW pc \in {"idle", "complete", "claim"}, NEW v \in Nat
        PROVE  [pc |-> pc, version |-> v] \in [pc : {"idle", "complete", "claim"}, version : Nat]
    OBVIOUS
  <2>1. renewer' \in [pc : {"idle", "complete", "claim"}, version : Nat]
    <3>1. CASE StartRenewal
      BY <1>0, <2>0, <3>1 DEF StartRenewal
    <3>2. CASE CompleteCancellation \/ Claim \/ RenewerFails
      BY <2>0, <3>2 DEF CompleteCancellation, Claim, RenewerFails
    <3>3. CASE Discover
      BY <3>3 DEF Discover, TypeOK, TasksOK
    <3> QED
      BY <1>4, <3>1, <3>2, <3>3 DEF Renew
  <2>2. job' \in BOOLEAN
    BY <1>4 DEF Discover, Renew, StartRenewal, CompleteCancellation, Claim, RenewerFails,
       TypeOK, TasksOK
  <2>3. dunner' = dunner /\ admin' = admin /\ current' = current /\ bound' = bound
    <3>1. CASE Discover \/ RenewerFails
      BY <3>1 DEF Discover, RenewerFails
    <3>2. CASE Renew
      BY <3>2 DEF Renew, StartRenewal, CompleteCancellation, Claim
    <3> QED
      BY <1>4, <3>1, <3>2
  <2>4. failures' \in 0..MaxFailures
    <3>1. failures \in 0..MaxFailures
      BY DEF TypeOK, TasksOK
    <3>2. \/ failures' = failures
          \/ failures < MaxFailures /\ failures' = failures + 1
      BY <1>4 DEF Discover, Renew, StartRenewal, CompleteCancellation, Claim, RenewerFails
    <3> QED
      BY <3>1, <3>2
  <2>5. ChangeReady'
    BY <2>3 DEF ChangeReady
  <2>6. dunner \in [pc : {"idle", "act"}, retries : Nat] /\ admin' = admin /\ dunner' = dunner
    BY <2>3 DEF TypeOK, TasksOK
  <2> QED
    BY <2>1, <2>2, <2>4, <2>5, <2>6 DEF TypeOK, TasksOK
<1>5. CASE ScanDunning \/ ActDunning
  <2>1. dunner' \in [pc : {"idle", "act"}, retries : Nat]
    <3>1. \/ dunner' = [pc |-> "act", retries |-> sub.retries]
          \/ dunner' = [pc |-> "idle", retries |-> 0]
      BY <1>5 DEF ScanDunning, ActDunning
    <3> QED
      BY <1>0, <3>1
  <2>2. job' \in BOOLEAN
    BY <1>5 DEF ScanDunning, ActDunning, TypeOK, TasksOK
  <2>3. UNCHANGED <<renewer, admin, failures, current, bound>>
    BY <1>5 DEF ScanDunning, ActDunning
  <2> QED
    BY <2>1, <2>2, <2>3 DEF TypeOK, TasksOK, ChangeReady
<1>6. ASSUME NEW op \in {"now", "at_end", "free", "change"}, ReadForChange(op)
      PROVE  TasksOK' /\ ChangeReady'
  BY <1>0, <1>6 DEF ReadForChange, TypeOK, TasksOK, ChangeReady
<1>7. CASE AskProvider
  <2>1. /\ admin'.op \in {admin.op, "now"}
        /\ admin' \in [pc : {"idle", "ask", "commit"},
                       op : {"none", "now", "at_end", "free", "change"}, version : Nat]
    BY <1>7 DEF AskProvider, TypeOK, TasksOK
  <2> QED
    BY <1>7, <2>1 DEF AskProvider, TypeOK, TasksOK, ChangeReady
<1>8. CASE Commit \/ ChangeFails
  BY <1>8 DEF Commit, ChangeFails, TypeOK, TasksOK, ChangeReady
<1>9. ASSUME NEW p \in Provs, Charge(p) \/ Activate(p) \/ Fail(p)
      PROVE  TasksOK' /\ ChangeReady'
  BY <1>1, <1>9 DEF Charge, Activate, Fail
<1>10. CASE NextCycle \/ UNCHANGED vars
  BY <1>1, <1>10 DEF NextCycle, vars
<1> QED
  BY <1>2, <1>3, <1>4, <1>5, <1>6, <1>7, <1>8, <1>9, <1>10 DEF Next, Administrate

\* The row, its binding, its attempts and its incidents.
LEMMA StoreInductive == ASSUME TypeInv, [Next]_vars PROVE StoreOK'
<1> USE BoundsAssumption DEF TypeInv
<1>0. /\ sub \in Rows /\ past \subseteq {"cancelled", "overwritten"}
      /\ \A v \in Workers : Day(Event(v).cycle) \in Nat
  BY Held, Constructors DEF TypeOK, StoreOK
<1> DEFINE RowOK == sub' \in Rows /\ past' \subseteq {"cancelled", "overwritten"}
<1>1. ASSUME NEW g, NEW r \in Rows, WriteIf(g, r) \/ Write(r) PROVE RowOK
  BY <1>0, <1>1 DEF WriteIf, Write, Keep, Cancelled
<1>2. ASSUME RowOK, UNCHANGED <<current, bound, billing>> PROVE StoreOK'
  BY <1>2 DEF billing, TypeOK, StoreOK
<1>3. CASE UNCHANGED <<sub, past, current, bound, billing>>
  BY <1>0, <1>2, <1>3
<1>4. ASSUME NEW w \in Workers, SaveBinding(w) PROVE StoreOK'
  <2>1. ASSUME NEW r \in Rows PROVE [r EXCEPT !.status = "active"] \in Rows
    BY DEF Rows
  <2>2. sub' \in Rows
    BY <1>4, <2>1, Held DEF SaveBinding
  <2>3. past' \subseteq {"cancelled", "overwritten"}
    BY <1>0, <1>4 DEF SaveBinding, Cancelled
  <2> QED
    BY <1>2, <1>4, <2>2, <2>3 DEF SaveBinding
<1>5. ASSUME NEW w \in Workers, RecordAttempt(w) PROVE StoreOK'
  <2>1. Event(w).kind \in {"charged", "activated"}
    BY <1>5 DEF RecordAttempt, JobsOnTheirWay, OnItsWay, Paying, IsPayment, At, Event
  <2>2. attempt' \in [Payments -> {"none", "charged", "activated"}]
    BY <1>5, <2>1, Held DEF RecordAttempt, TypeOK, StoreOK
  <2> QED
    BY <1>5, <2>2 DEF RecordAttempt, TypeOK, StoreOK
<1>6. ASSUME NEW w \in Workers, Finalize(w) PROVE StoreOK'
  <2>1. [sub EXCEPT !.status = "active", !.start = Day(Event(w).cycle)] \in Rows
    BY <1>0 DEF Rows
  <2>2. RowOK
    BY <1>1, <1>6, <2>1, Bumped DEF Finalize
  <2> QED
    BY <1>2, <1>6, <2>2 DEF Finalize
<1>7. ASSUME NEW w \in Workers, Classify(w) PROVE StoreOK'
  BY <1>7, Held DEF Classify, TypeOK, StoreOK
<1>8. ASSUME NEW w \in Workers, Publish(w) PROVE StoreOK'
  <2>1. renewed' \in [Payments -> Nat]
    BY <1>8, Held DEF Publish, TypeOK, StoreOK
  <2> QED
    BY <1>8, <2>1 DEF Publish, TypeOK, StoreOK
<1>9. ASSUME NEW w \in Workers, MarkPastDue(w) \/ MarkCancelled(w) PROVE StoreOK'
  <2>1. /\ [sub EXCEPT !.status = "past_due"] \in Rows
        /\ [sub EXCEPT !.status = "cancelled"] \in Rows
    BY <1>0 DEF Rows
  <2>2. RowOK
    BY <1>1, <1>9, <2>1, Bumped DEF MarkPastDue, MarkCancelled
  <2> QED
    BY <1>2, <1>9, <2>2 DEF MarkPastDue, MarkCancelled
<1>10. CASE CompleteCancellation \/ Claim
  <2>1. [sub EXCEPT !.status = "cancelled", !.cancelAtPeriodEnd = FALSE] \in Rows
    BY <1>0 DEF Rows
  <2>2. RowOK
    BY <1>0, <1>1, <1>10, <2>1, Bumped DEF CompleteCancellation, Claim
  <2> QED
    BY <1>2, <1>10, <2>2 DEF CompleteCancellation, Claim
<1>11. CASE ActDunning
  <2>1. /\ [sub EXCEPT !.status = "cancelled"] \in Rows
        /\ [sub EXCEPT !.retries = dunner.retries + 1] \in Rows
    BY <1>0 DEF TypeOK, TasksOK, Rows
  <2>2. RowOK
    BY <1>1, <1>11, <2>1 DEF ActDunning
  <2> QED
    BY <1>2, <1>11, <2>2 DEF ActDunning
<1>12. CASE Commit
  <2>1. /\ [sub EXCEPT !.status = "cancelled", !.cancelAtPeriodEnd = FALSE] \in Rows
        /\ [sub EXCEPT !.cancelAtPeriodEnd = TRUE] \in Rows
        /\ [[sub EXCEPT !.start = 0, !.cancelAtPeriodEnd = FALSE]
             EXCEPT !.status = "active"] \in Rows
        /\ [[sub EXCEPT !.start = 0, !.cancelAtPeriodEnd = FALSE]
             EXCEPT !.status = "pending_provider_auth"] \in Rows
    BY <1>0 DEF Rows
  <2>2. RowOK
    BY <1>0, <1>1, <1>12, <2>1, Bumped DEF Commit, Keep
  <2>3. current' \in 0..bound' /\ bound' \in Provs
    BY <1>12 DEF Commit, TypeOK, StoreOK, ChangeReady, Provs
  <2> QED
    BY <1>12, <2>2, <2>3 DEF Commit, billing, TypeOK, StoreOK
<1>13. ASSUME NEW w \in Workers,
              \/ \E e \in Events : Take(w, e)
              \/ ReadBinding(w) \/ LoadAttempt(w) \/ Reload(w) \/ ReadForFailure(w)
              \/ ReadForCancel(w) \/ Done(w) \/ WorkerFails(w)
       PROVE  StoreOK'
  BY <1>3, <1>13 DEF Take, ReadBinding, LoadAttempt, Reload, ReadForFailure, ReadForCancel, Done,
     WorkerFails
<1>14. CASE \/ Discover \/ StartRenewal \/ RenewerFails \/ ScanDunning
            \/ AskProvider \/ ChangeFails \/ NextCycle \/ UNCHANGED vars
            \/ \E op \in {"now", "at_end", "free", "change"} : ReadForChange(op)
            \/ \E p \in Provs : Charge(p) \/ Activate(p) \/ Fail(p)
  BY <1>3, <1>14 DEF Discover, StartRenewal, RenewerFails, ScanDunning, AskProvider, ChangeFails,
     NextCycle, ReadForChange, Charge, Activate, Fail, vars
<1> QED
  BY <1>4, <1>5, <1>6, <1>7, <1>8, <1>9, <1>10, <1>11, <1>12, <1>13, <1>14
     DEF Next, Process, Renew, Administrate

\* The type invariant is inductive.
LEMMA TypeInductive == TypeInv /\ [Next]_vars => TypeInv'
BY WorkersInductive, ProviderInductive, TasksInductive, StoreInductive DEF TypeInv, TypeOK

\* Every row, job, event and incident stays in a state the code can put it in,
\* whatever stale copy updateBinding saves.
THEOREM TypeCorrect == Spec => []TypeOK
BY TypeInitial, TypeInductive, PTL DEF Spec, TypeInv

-----------------------------------------------------------------------------
(***************************************************************************)
(* What a step may do to a job and to the row.                             *)
(***************************************************************************)
\* The job put somewhere is that worker's, with its event.
LEMMA Puts ==
  ASSUME TypeOK, NEW w \in Workers, NEW pc, NEW v, NEW n, Put(w, pc, v, n)
  PROVE  /\ worker'[w] = Handler(pc, Event(w), FirstRow, v, n)
         /\ \A u \in Workers \ {w} : worker'[u] = worker[u]
BY DEF TypeOK, Put

\* A worker is moved only by its own steps.
LEMMA OwnSteps ==
  ASSUME TypeOK, [Next]_vars, NEW w \in Workers, worker'[w] # worker[w]
  PROVE  Process(w) \/ WorkerFails(w)
<1>1. ASSUME NEW u \in Workers \ {w}, Process(u) PROVE worker'[w] = worker[w]
  <2>1. ASSUME NEW pc, NEW v, NEW n, Put(u, pc, v, n) PROVE worker'[w] = worker[w]
    BY <2>1, Puts
  <2>2. ASSUME NEW h, worker' = [worker EXCEPT ![u] = h] PROVE worker'[w] = worker[w]
    BY <2>2 DEF TypeOK
  <2>3. CASE \/ \E e \in Events : Take(u, e)
             \/ ReadBinding(u) \/ Done(u)
    BY <2>2, <2>3 DEF Take, ReadBinding, Done
  <2>4. CASE \/ SaveBinding(u) \/ RecordAttempt(u) \/ LoadAttempt(u) \/ Finalize(u)
             \/ Classify(u) \/ Reload(u) \/ Publish(u)
             \/ ReadForFailure(u) \/ MarkPastDue(u) \/ ReadForCancel(u) \/ MarkCancelled(u)
    BY <2>1, <2>4 DEF SaveBinding, RecordAttempt, LoadAttempt, Finalize, Classify, Reload,
       Publish, ReadForFailure, MarkPastDue, ReadForCancel, MarkCancelled, Goto, Load, Finish
  <2> QED
    BY <1>1, <2>3, <2>4 DEF Process
<1>2. ASSUME NEW u \in Workers \ {w}, WorkerFails(u) PROVE worker'[w] = worker[w]
  BY <1>2 DEF WorkerFails, TypeOK
<1>3. CASE \/ Discover \/ Renew \/ RenewerFails \/ ScanDunning \/ ActDunning
           \/ Administrate
           \/ \E p \in Provs : Charge(p) \/ Activate(p) \/ Fail(p)
           \/ NextCycle \/ UNCHANGED vars
  BY <1>3 DEF Discover, Renew, StartRenewal, CompleteCancellation, Claim, RenewerFails,
     ScanDunning, ActDunning, Administrate, ReadForChange, AskProvider, Commit, ChangeFails,
     Charge, Activate, Fail, NextCycle, vars
<1> QED
  BY <1>1, <1>2, <1>3 DEF Next

\* How a job gets to the places the invariants speak of.
LEMMA Entries ==
  ASSUME TypeOK, NEW w \in Workers, Process(w) \/ WorkerFails(w)
  PROVE  /\ \A u \in Workers \ {w} : worker'[u] = worker[u]
         /\ worker'[w].pc = "save" => ReadBinding(w) /\ worker'[w].row = sub
         /\ worker'[w].pc = "past_due" => ReadForFailure(w) /\ worker'[w].version = sub.version
         /\ worker'[w].pc = "publish" => Finalize(w) /\ MayFinalize(w)
         /\ worker'[w].pc = "done" =>
              \/ LoadAttempt(w) \/ Classify(w) \/ Publish(w) \/ ReadForFailure(w)
              \/ MarkPastDue(w) \/ ReadForCancel(w) \/ MarkCancelled(w)
         /\ worker'[w].pc # "idle" =>
              worker'[w].event = worker[w].event \/ Take(w, worker'[w].event)
<1> DEFINE Good ==
         /\ \A u \in Workers \ {w} : worker'[u] = worker[u]
         /\ worker'[w].pc = "save" => ReadBinding(w) /\ worker'[w].row = sub
         /\ worker'[w].pc = "past_due" => ReadForFailure(w) /\ worker'[w].version = sub.version
         /\ worker'[w].pc = "publish" => Finalize(w) /\ MayFinalize(w)
         /\ worker'[w].pc = "done" =>
              \/ LoadAttempt(w) \/ Classify(w) \/ Publish(w) \/ ReadForFailure(w)
              \/ MarkPastDue(w) \/ ReadForCancel(w) \/ MarkCancelled(w)
         /\ worker'[w].pc # "idle" =>
              worker'[w].event = worker[w].event \/ Take(w, worker'[w].event)
<1>1. ASSUME NEW h, worker' = [worker EXCEPT ![w] = h]
      PROVE  worker'[w] = h /\ \A u \in Workers \ {w} : worker'[u] = worker[u]
  BY <1>1 DEF TypeOK
<1>2. ASSUME NEW pc, NEW v, NEW n, Put(w, pc, v, n)
      PROVE  /\ \A u \in Workers \ {w} : worker'[u] = worker[u]
             /\ worker'[w].pc = pc /\ worker'[w].event = worker[w].event
             /\ worker'[w].version = v
  <2>1. /\ worker'[w] = Handler(pc, Event(w), FirstRow, v, n)
        /\ \A u \in Workers \ {w} : worker'[u] = worker[u]
    BY <1>2, Puts
  <2> QED
    BY <2>1 DEF Handler, Event
<1>3. ASSUME NEW e \in Events, Take(w, e) PROVE Good
  <2>1. PICK pc \in {"record", "mirror"} :
          worker' = [worker EXCEPT ![w] = Handler(pc, e, FirstRow, 0, 0)]
    BY <1>3 DEF Take
  <2>2. /\ worker'[w].pc \in {"record", "mirror"} /\ worker'[w].event = e
        /\ \A u \in Workers \ {w} : worker'[u] = worker[u]
    BY <1>1, <2>1 DEF Handler
  <2> QED
    BY <1>3, <2>2
<1>4. CASE ReadBinding(w)
  <2>1. /\ worker'[w] = Handler("save", Event(w), sub, 0, 0)
        /\ \A u \in Workers \ {w} : worker'[u] = worker[u]
    BY <1>1, <1>4 DEF ReadBinding
  <2>2. worker'[w].pc = "save" /\ worker'[w].row = sub /\ worker'[w].event = worker[w].event
    BY <2>1 DEF Handler, Event
  <2> QED
    BY <1>4, <2>1, <2>2
<1>5. CASE Done(w) \/ WorkerFails(w)
  BY <1>1, <1>5 DEF Done, WorkerFails, Idle, Handler
<1>6. CASE SaveBinding(w) \/ RecordAttempt(w) \/ LoadAttempt(w) \/ Classify(w)
           \/ Reload(w) \/ Publish(w) \/ ReadForCancel(w)
  BY <1>2, <1>6 DEF SaveBinding, RecordAttempt, LoadAttempt, Classify, Reload, Publish,
     ReadForCancel, Goto, Load, Finish
<1>7. CASE Finalize(w)
  BY <1>2, <1>7 DEF Finalize, Goto
<1>8. CASE ReadForFailure(w) \/ MarkPastDue(w) \/ MarkCancelled(w)
  BY <1>2, <1>8 DEF ReadForFailure, MarkPastDue, MarkCancelled, Load, Finish
<1> QED
  BY <1>3, <1>4, <1>5, <1>6, <1>7, <1>8 DEF Process

-----------------------------------------------------------------------------
(***************************************************************************)
(* The row under its version.                                              *)
(***************************************************************************)
\* The step is not a save of a row that has changed since it was read.
Fresh == \A w \in Workers : ~(IsStale(w) /\ SaveBinding(w))

\* What has happened to the row stays so, and such a save is remembered.
LEMMA PastStep ==
  ASSUME [Next]_vars, ~Overwritten'
  PROVE  ~Overwritten /\ Fresh
<1>1. ASSUME NEW w \in Workers, SaveBinding(w)
      PROVE  past \subseteq past' /\ (IsStale(w) => "overwritten" \in past')
  BY <1>1 DEF SaveBinding
<1>2. Fresh
  BY <1>1 DEF Fresh, Overwritten
<1>3. ASSUME ~\E w \in Workers : SaveBinding(w) PROVE past \subseteq past'
  BY <1>3 DEF Next, Process, Take, ReadBinding, RecordAttempt, LoadAttempt, Finalize, Classify,
     Reload, Publish, ReadForFailure, MarkPastDue, ReadForCancel, MarkCancelled, Done,
     WorkerFails, Discover, Renew, StartRenewal, CompleteCancellation, Claim, RenewerFails,
     ScanDunning, ActDunning, Administrate, ReadForChange, AskProvider, Commit, ChangeFails,
     Charge, Activate, Fail, NextCycle, vars, WriteIf, Write, Keep
<1> QED
  BY <1>1, <1>2, <1>3 DEF Overwritten

\* Every change of the period or of a scheduled cancellation moves the version, and
\* the period goes back only with the binding.
RowMoves ==
  /\ sub'.version >= sub.version
  /\ sub'.version = sub.version =>
       sub'.start = sub.start /\ sub'.cancelAtPeriodEnd = sub.cancelAtPeriodEnd
  /\ current' = current => sub'.start >= sub.start
  /\ \/ current' = current /\ bound' = bound
     \/ current' = 0 /\ bound' = bound
     \/ current' = bound + 1 /\ bound' = bound + 1
  /\ Over => Over'
  /\ sub'.status = "cancelled" => Over' \/ sub.status = "cancelled"
  /\ sub'.status = "past_due" /\ sub.status # "past_due" =>
       \E w \in Workers : At(w, "past_due") /\ MayMarkPastDue(w)

LEMMA RowStep ==
  ASSUME TypeInv, [Next]_vars, Fresh
  PROVE  RowMoves
<1> USE DEF TypeInv, Over
<1>0. /\ sub \in Rows /\ sub.version \in Nat /\ sub.start \in Nat
      /\ current \in 0..bound /\ bound \in Nat
      /\ \A v \in Workers : Day(Event(v).cycle) \in Nat
  BY Held, Constructors DEF TypeOK, StoreOK, Rows, Provs
<1>1. CASE UNCHANGED <<sub, past, current, bound>>
  BY <1>0, <1>1 DEF RowMoves
<1>2. ASSUME NEW r, Write(r), UNCHANGED <<current, bound>>,
             r.version \in Nat, r.version >= sub.version,
             r.version = sub.version =>
               r.start = sub.start /\ r.cancelAtPeriodEnd = sub.cancelAtPeriodEnd,
             r.start \in Nat, r.start >= sub.start,
             r.status = "past_due" =>
               \/ sub.status = "past_due"
               \/ \E w \in Workers : At(w, "past_due") /\ MayMarkPastDue(w)
      PROVE  RowMoves
  BY <1>0, <1>2 DEF Write, Cancelled, RowMoves
<1>11. ASSUME NEW s \in Rows, Write(Bump(s)), UNCHANGED <<current, bound>>,
              s.version = sub.version, s.start >= sub.start,
              s.status = "past_due" =>
                \/ sub.status = "past_due"
                \/ \E w \in Workers : At(w, "past_due") /\ MayMarkPastDue(w)
       PROVE  RowMoves
  <2> DEFINE b == Bump(s)
  <2>1. /\ b.version = sub.version + 1 /\ b.start = s.start /\ b.status = s.status
        /\ s.start \in Nat
    BY <1>11, Bumped DEF Rows
  <2>2. Write(b)
    BY <1>11
  <2> HIDE DEF b
  <2> QED
    BY <1>0, <1>2, <1>11, <2>1, <2>2
<1>3. ASSUME NEW w \in Workers, SaveBinding(w) PROVE RowMoves
  <2>1. worker[w].row = sub /\ [sub EXCEPT !.status = "active"] \in Rows
    BY <1>0, <1>3 DEF Fresh, IsStale, SaveBinding, Rows
  <2>2. /\ sub'.version = sub.version /\ sub'.start = sub.start
        /\ sub'.cancelAtPeriodEnd = sub.cancelAtPeriodEnd
        /\ sub'.status \in {sub.status, "active"}
    BY <1>0, <1>3, <2>1 DEF SaveBinding, Rows
  <2>3. /\ Over => Over'
        /\ sub'.status = "cancelled" => sub.status = "cancelled"
    BY <1>3, <2>2 DEF SaveBinding
  <2>4. current' = current /\ bound' = bound
    BY <1>3 DEF SaveBinding
  <2> QED
    BY <1>0, <2>2, <2>3, <2>4 DEF RowMoves
<1>4. ASSUME NEW w \in Workers, Finalize(w) PROVE RowMoves
  <2> DEFINE s == [sub EXCEPT !.status = "active", !.start = Day(Event(w).cycle)]
  <2>1. s \in Rows /\ s.version = sub.version /\ s.start = Day(Event(w).cycle)
        /\ s.status = "active"
    BY <1>0 DEF Rows
  <2>2. CASE ~MayFinalize(w)
    BY <1>1, <1>4, <2>2 DEF Finalize, WriteIf, Keep
  <2>3. CASE MayFinalize(w)
    <3>1. Write(Bump(s)) /\ UNCHANGED <<current, bound>>
      BY <1>4, <2>3 DEF Finalize, WriteIf
    <3>2. s.start >= sub.start
      BY <1>0, <2>1, <2>3 DEF MayFinalize
    <3> HIDE DEF s
    <3> QED
      BY <1>11, <2>1, <3>1, <3>2
  <2> QED
    BY <2>2, <2>3
<1>5. ASSUME NEW w \in Workers, MarkPastDue(w) PROVE RowMoves
  <2> DEFINE s == [sub EXCEPT !.status = "past_due"]
  <2>1. s \in Rows /\ s.version = sub.version /\ s.start = sub.start
    BY <1>0 DEF Rows
  <2>2. CASE ~MayMarkPastDue(w)
    BY <1>1, <1>5, <2>2 DEF MarkPastDue, WriteIf, Keep
  <2>3. CASE MayMarkPastDue(w)
    <3>1. Write(Bump(s)) /\ UNCHANGED <<current, bound>> /\ At(w, "past_due")
      BY <1>5, <2>3 DEF MarkPastDue, WriteIf
    <3> HIDE DEF s
    <3> QED
      BY <1>0, <1>11, <2>1, <2>3, <3>1
  <2> QED
    BY <2>2, <2>3
<1>6. ASSUME NEW w \in Workers, MarkCancelled(w) PROVE RowMoves
  <2> DEFINE s == [sub EXCEPT !.status = "cancelled"]
  <2>1. s \in Rows /\ s.version = sub.version /\ s.start = sub.start /\ s.status = "cancelled"
    BY <1>0 DEF Rows
  <2>2. CASE UNCHANGED <<sub, past, current, bound>>
    BY <1>1, <2>2
  <2>3. CASE Write(Bump(s)) /\ UNCHANGED <<current, bound>>
    <3> HIDE DEF s
    <3> QED
      BY <1>0, <1>11, <2>1, <2>3
  <2> QED
    BY <1>6, <2>2, <2>3 DEF MarkCancelled, WriteIf, Keep
<1>7. CASE CompleteCancellation \/ Claim
  <2> DEFINE s == [sub EXCEPT !.status = "cancelled", !.cancelAtPeriodEnd = FALSE]
  <2>1. s \in Rows /\ s.version = sub.version /\ s.start = sub.start /\ s.status = "cancelled"
    BY <1>0 DEF Rows
  <2>2. CASE CompleteCancellation
    <3>1. CASE UNCHANGED <<sub, past, current, bound>>
      BY <1>1, <3>1
    <3>2. CASE Write(Bump(s)) /\ UNCHANGED <<current, bound>>
      <4> HIDE DEF s
      <4> QED
        BY <1>0, <1>11, <2>1, <3>2
    <3> QED
      BY <2>2, <3>1, <3>2 DEF CompleteCancellation, WriteIf, Keep
  <2>3. CASE Claim
    <3>1. CASE UNCHANGED <<sub, past, current, bound>>
      BY <1>1, <3>1
    <3>2. CASE Write(Bump(sub)) /\ UNCHANGED <<current, bound>>
      BY <1>0, <1>11, <3>2
    <3> QED
      BY <2>3, <3>1, <3>2 DEF Claim, WriteIf, Keep
  <2> QED
    BY <1>7, <2>2, <2>3
<1>8. CASE ActDunning
  <2> DEFINE s == [sub EXCEPT !.status = "cancelled"]
             u == [sub EXCEPT !.retries = dunner.retries + 1]
  <2>1. /\ s.version = sub.version /\ s.start = sub.start /\ s.status = "cancelled"
        /\ s.cancelAtPeriodEnd = sub.cancelAtPeriodEnd
        /\ u.version = sub.version /\ u.start = sub.start /\ u.status = sub.status
        /\ u.cancelAtPeriodEnd = sub.cancelAtPeriodEnd
    BY <1>0 DEF Rows
  <2>2. (Write(s) \/ Write(u)) /\ UNCHANGED <<current, bound>>
    BY <1>8 DEF ActDunning
  <2> HIDE DEF s, u
  <2> QED
    BY <1>0, <1>2, <2>1, <2>2
<1>9. CASE Commit
  <2> DEFINE s == [sub EXCEPT !.status = "cancelled", !.cancelAtPeriodEnd = FALSE]
             u == [sub EXCEPT !.cancelAtPeriodEnd = TRUE]
             f == [[sub EXCEPT !.start = 0, !.cancelAtPeriodEnd = FALSE] EXCEPT !.status = "active"]
             c == [[sub EXCEPT !.start = 0, !.cancelAtPeriodEnd = FALSE]
                   EXCEPT !.status = "pending_provider_auth"]
  <2>1. /\ s \in Rows /\ s.version = sub.version /\ s.start = sub.start /\ s.status = "cancelled"
        /\ u \in Rows /\ u.version = sub.version /\ u.start = sub.start /\ u.status = sub.status
    BY <1>0 DEF Rows
  <2>2. /\ f \in Rows /\ f.version = sub.version /\ f.status = "active"
        /\ c \in Rows /\ c.version = sub.version /\ c.status = "pending_provider_auth"
    BY <1>0 DEF Rows
  <2>3. CASE UNCHANGED <<sub, past, current, bound>>
    BY <1>1, <2>3
  <2>4. CASE (Write(Bump(s)) \/ Write(Bump(u))) /\ UNCHANGED <<current, bound>>
    <3> HIDE DEF s, u
    <3> QED
      BY <1>0, <1>11, <2>1, <2>4
  <2>5. CASE Write(Bump(f)) /\ admin.op = "free" /\ current' = 0 /\ bound' = bound
    <3> HIDE DEF f
    <3>1. Bump(f).version = sub.version + 1 /\ Bump(f).status = "active"
      BY <2>2, Bumped
    <3>2. sub' = Bump(f) /\ (Over => Over') /\ current # 0
      BY <2>5 DEF Write, ChangeReady
    <3> QED
      BY <1>0, <2>5, <3>1, <3>2 DEF RowMoves
  <2>6. CASE Write(Bump(c)) /\ current' = bound + 1 /\ bound' = bound + 1
    <3> HIDE DEF c
    <3>1. Bump(c).version = sub.version + 1 /\ Bump(c).status = "pending_provider_auth"
      BY <2>2, Bumped
    <3>2. sub' = Bump(c) /\ (Over => Over')
      BY <2>6 DEF Write
    <3> QED
      BY <1>0, <2>6, <3>1, <3>2 DEF RowMoves
  <2> QED
    BY <1>9, <2>3, <2>4, <2>5, <2>6 DEF Commit, Keep
<1>10. CASE \/ \E w \in Workers :
                 \/ \E e \in Events : Take(w, e)
                 \/ ReadBinding(w) \/ RecordAttempt(w) \/ LoadAttempt(w) \/ Classify(w)
                 \/ Reload(w) \/ Publish(w) \/ ReadForFailure(w) \/ ReadForCancel(w)
                 \/ Done(w) \/ WorkerFails(w)
            \/ Discover \/ StartRenewal \/ RenewerFails \/ ScanDunning
            \/ AskProvider \/ ChangeFails \/ NextCycle \/ UNCHANGED vars
            \/ \E op \in {"now", "at_end", "free", "change"} : ReadForChange(op)
            \/ \E p \in Provs : Charge(p) \/ Activate(p) \/ Fail(p)
  BY <1>1, <1>10 DEF Take, ReadBinding, RecordAttempt, LoadAttempt, Classify, Reload, Publish,
     ReadForFailure, ReadForCancel, Done, WorkerFails, Discover, StartRenewal, RenewerFails,
     ScanDunning, AskProvider, ChangeFails, NextCycle, ReadForChange, Charge, Activate, Fail, vars
<1> QED
  BY <1>3, <1>4, <1>5, <1>6, <1>7, <1>8, <1>9, <1>10 DEF Next, Process, Renew, Administrate

-----------------------------------------------------------------------------
(***************************************************************************)
(* What a writer has read is out of date, or still so.                      *)
(***************************************************************************)
ClaimIsOpen ==
  renewer.pc = "claim" =>
    /\ renewer.version <= sub.version
    /\ renewer.version = sub.version => ~sub.cancelAtPeriodEnd

FailureIsNewer ==
  \A w \in Workers :
    At(w, "past_due") =>
      /\ worker[w].version <= sub.version
      /\ worker[w].version = sub.version => Instant(Event(w).cycle) > sub.start

IInv == TypeInv /\ ClaimIsOpen /\ FailureIsNewer

\* The versions and the starts of the row, the renewal and the jobs are numbers.
LEMMA Numbers ==
  ASSUME TypeOK
  PROVE  /\ sub.version \in Nat /\ sub.start \in Nat /\ renewer.version \in Nat
         /\ \A w \in Workers : /\ worker[w].version \in Nat
                               /\ Event(w).cycle \in Nat /\ Event(w).cycle >= 1
BY Held DEF TypeOK, StoreOK, TasksOK, Rows, Cycles

\* A renewal that goes to claim the row has just seen it open.
LEMMA ClaimInductive ==
  ASSUME IInv, [Next]_vars, Fresh
  PROVE  ClaimIsOpen'
<1> USE DEF IInv
<1>1. CASE renewer' = renewer
  <2>1. RowMoves /\ TypeOK'
    BY RowStep, TypeInductive DEF TypeInv
  <2>2. sub'.version \in Nat /\ sub.version \in Nat /\ renewer.version \in Nat
    BY <2>1, Numbers DEF TypeInv, TypeOK, StoreOK, Rows
  <2> QED
    BY <1>1, <2>1, <2>2 DEF ClaimIsOpen, RowMoves
<1>2. CASE StartRenewal
  <2>1. /\ renewer'.version = sub.version /\ sub' = sub
        /\ renewer'.pc = "claim" => ~sub.cancelAtPeriodEnd
    BY <1>2 DEF StartRenewal
  <2> QED
    BY <2>1, Numbers DEF ClaimIsOpen, TypeInv
<1>3. CASE renewer' # renewer /\ ~StartRenewal
  <2>1. CompleteCancellation \/ Claim \/ RenewerFails
    BY <1>3 DEF Next, Process, Take, ReadBinding, SaveBinding, RecordAttempt, LoadAttempt,
       Finalize, Classify, Reload, Publish, ReadForFailure, MarkPastDue, ReadForCancel,
       MarkCancelled, Done, WorkerFails, Discover, Renew, ScanDunning, ActDunning,
       Administrate, ReadForChange, AskProvider, Commit, ChangeFails, Charge, Activate, Fail,
       NextCycle, vars, local
  <2>2. renewer' = [pc |-> "idle", version |-> 0]
    <3>1. CASE CompleteCancellation BY <3>1 DEF CompleteCancellation
    <3>2. CASE Claim BY <3>2 DEF Claim
    <3>3. CASE RenewerFails BY <3>3 DEF RenewerFails
    <3> QED BY <2>1, <3>1, <3>2, <3>3
  <2> QED
    BY <2>2 DEF ClaimIsOpen
<1> QED
  BY <1>1, <1>2, <1>3

\* A job that goes to mark the row past due has just compared the cycles.
LEMMA FailureInductive ==
  ASSUME IInv, [Next]_vars, Fresh
  PROVE  FailureIsNewer'
<1> USE DEF IInv, At
<1>1. RowMoves /\ TypeOK'
  BY RowStep, TypeInductive DEF TypeInv
<1>2. /\ sub.version \in Nat /\ sub.start \in Nat /\ sub'.version \in Nat /\ sub'.start \in Nat
      /\ \A w \in Workers : worker[w].version \in Nat
  BY <1>1, Numbers DEF TypeInv, TypeOK, StoreOK, Rows
<1>3. ASSUME NEW w \in Workers, worker'[w].pc = "past_due"
      PROVE  /\ worker'[w].version <= sub'.version
             /\ worker'[w].version = sub'.version =>
                  Instant(worker'[w].event.cycle) > sub'.start
  <2>1. CASE worker'[w] = worker[w]
    <3>1. /\ worker[w].version <= sub.version
          /\ worker[w].version = sub.version => Instant(worker[w].event.cycle) > sub.start
      BY <1>3, <2>1 DEF FailureIsNewer, Event
    <3> QED
      BY <1>1, <1>2, <2>1, <3>1 DEF RowMoves
  <2>2. CASE worker'[w] # worker[w]
    <3>1. Process(w) \/ WorkerFails(w)
      BY <2>2, OwnSteps DEF TypeInv
    <3>2. ReadForFailure(w) /\ worker'[w].version = sub.version
      BY <1>3, <3>1, Entries DEF TypeInv
    <3>3. sub' = sub
      BY <3>2 DEF ReadForFailure
    <3>4. /\ sub.start = 0 \/ Instant(Event(w).cycle) > sub.start
          /\ worker'[w] = Handler("past_due", Event(w), FirstRow, sub.version, worker[w].tries)
      <4>1. ASSUME Finish(w) PROVE FALSE
        <5>1. worker'[w] = Handler("done", Event(w), FirstRow, 0, 0)
          BY <4>1, Puts DEF Finish, TypeInv
        <5>2. worker'[w].pc = "done"
          BY <5>1 DEF Handler
        <5> QED
          BY <1>3, <5>2
      <4>2. Load(w, "past_due") /\ (sub.start = 0 \/ Instant(Event(w).cycle) > sub.start)
        BY <3>2, <4>1 DEF ReadForFailure
      <4> QED
        BY <4>2, Puts DEF Load, TypeInv
    <3>5. worker'[w].event = Event(w)
      BY <3>4 DEF Handler
    <3>6. Instant(Event(w).cycle) > 0
      BY Numbers DEF Instant, TypeInv
    <3> QED
      BY <1>2, <3>2, <3>3, <3>4, <3>5, <3>6
  <2> QED
    BY <2>1, <2>2
<1> QED
  BY <1>3 DEF FailureIsNewer, Event

\* The invariant is inductive.
LEMMA IInvInductive ==
  ASSUME IInv, [Next]_vars, Fresh
  PROVE  IInv'
BY TypeInductive, ClaimInductive, FailureInductive DEF IInv

\* And holds of a row whose first cycle was paid.
LEMMA IInvInitial == Init => IInv
<1> SUFFICES ASSUME Init PROVE IInv
  OBVIOUS
<1>1. renewer.pc = "idle" /\ \A w \in Workers : worker[w].pc = "idle"
  BY DEF Init, Idle, Handler
<1> QED
  BY <1>1, TypeInitial DEF IInv, ClaimIsOpen, FailureIsNewer, At

-----------------------------------------------------------------------------
(***************************************************************************)
(* The theorems.                                                            *)
(***************************************************************************)
CalmInv == TypeInv /\ (~Overwritten => IInv)

LEMMA CalmInitial == Init => CalmInv
BY IInvInitial, TypeInitial DEF CalmInv

LEMMA CalmInductive == CalmInv /\ [Next]_vars => CalmInv'
<1> SUFFICES ASSUME CalmInv, [Next]_vars PROVE CalmInv'
  OBVIOUS
<1>1. TypeInv'
  BY TypeInductive DEF CalmInv
<1>2. ~Overwritten' => IInv'
  BY PastStep, IInvInductive DEF CalmInv
<1> QED
  BY <1>1, <1>2 DEF CalmInv

\* The billing period never goes back while the plan stays the same, whatever
\* webhooks arrive in whatever order (finalizeRenewalPeriod), but by
\* updateBinding's save of a row that has changed.
THEOREM PeriodCorrect == Spec => PeriodMonotone
<1>1. TypeInv /\ [Next]_vars =>
        [current' = current
           => sub'.start >= sub.start
              \/ \E w \in Workers : IsStale(w) /\ SaveBinding(w)]_vars
  BY RowStep DEF RowMoves, Fresh
<1> QED
  BY <1>1, TypeInitial, TypeInductive, PTL DEF Spec, PeriodMonotone

\* A row whose cancellation is scheduled is not claimed for another charge
\* (executeRenewal) until updateBinding has overwritten it.
THEOREM ScheduledCorrect == Spec => ScheduledIsNotClaimed
<1>1. CalmInv /\ [Next]_vars =>
        [(renewer.pc = "claim" /\ renewer'.pc = "idle" /\ sub' # sub)
           => ~sub.cancelAtPeriodEnd \/ Overwritten]_vars
  <2>1. SUFFICES ASSUME IInv, Next, renewer.pc = "claim", renewer'.pc = "idle", sub' # sub
                 PROVE  ~sub.cancelAtPeriodEnd
    BY DEF vars, CalmInv
  <2>2. CompleteCancellation \/ Claim \/ RenewerFails \/ StartRenewal
    BY <2>1 DEF Next, Process, Take, ReadBinding, SaveBinding, RecordAttempt, LoadAttempt,
       Finalize, Classify, Reload, Publish, ReadForFailure, MarkPastDue, ReadForCancel,
       MarkCancelled, Done, WorkerFails, Discover, Renew, ScanDunning, ActDunning,
       Administrate, ReadForChange, AskProvider, Commit, ChangeFails, Charge, Activate, Fail,
       NextCycle, vars, local
  <2>3. Claim
    BY <2>1, <2>2 DEF CompleteCancellation, RenewerFails, StartRenewal
  <2>4. sub.version = renewer.version
    BY <2>1, <2>3 DEF Claim, WriteIf, MayClaim, Keep
  <2> QED
    BY <2>1, <2>4 DEF IInv, ClaimIsOpen
<1> QED
  BY <1>1, CalmInitial, CalmInductive, PTL DEF Spec, ScheduledIsNotClaimed

\* A failure of an earlier cycle does not make a row past due that was paid for a
\* later one (markPastDueFromWebhook) until updateBinding has overwritten the row.
THEOREM FailureCorrect == Spec => OlderFailureIgnored
<1>1. CalmInv /\ [Next]_vars =>
        [(sub'.status = "past_due" /\ sub.status # "past_due")
           => \/ \E w \in Workers : At(w, "past_due") /\ Instant(Event(w).cycle) > sub.start
              \/ Overwritten']_vars
  <2>1. SUFFICES ASSUME CalmInv, Next, sub'.status = "past_due", sub.status # "past_due",
                        ~Overwritten'
                 PROVE  \E w \in Workers : At(w, "past_due") /\ Instant(Event(w).cycle) > sub.start
    BY DEF vars
  <2>2. IInv /\ Fresh
    BY <2>1, PastStep DEF CalmInv
  <2>3. PICK w \in Workers : At(w, "past_due") /\ MayMarkPastDue(w)
    BY <2>1, <2>2, RowStep DEF IInv, RowMoves
  <2> QED
    BY <2>2, <2>3 DEF IInv, FailureIsNewer, MayMarkPastDue, SameVersion
<1> QED
  BY <1>1, CalmInitial, CalmInductive, PTL DEF Spec, OlderFailureIgnored

-----------------------------------------------------------------------------
(***************************************************************************)
(* A provider subscription that is not bound yet has no traces: when a plan *)
(* change binds it, everything about its payments is still to come.         *)
(***************************************************************************)
NothingAhead ==
  /\ \A p \in Provs : prov[p] # "none" => p <= bound
  /\ \A e \in Events : inbox[e] # "none" => e.prov <= bound
  /\ \A w \in Workers : Event(w).prov <= bound
  /\ \A y \in Payments : y[1] > bound => renewed[y] = 0

\* A payment's minutes are granted by one job, and only after its period began.
GrantedOnce(y) ==
  y[1] = current =>
    /\ renewed[y] \in {0, 1}
    /\ renewed[y] = 1 => sub.start >= Day(y[2])
    /\ \A w \in Workers :
         At(w, "publish") /\ Payment(Event(w)) = y =>
           /\ renewed[y] = 0 /\ sub.start >= Day(y[2])
           /\ \A v \in Workers : At(v, "publish") /\ Payment(Event(v)) = y => v = w

\* A job that is through has left the payment covered, or the row cancelled, or
\* an incident.
Covered(e) ==
  e.prov = current => sub.start >= Day(e.cycle) \/ Over \/ Payment(e) \in incidents
ThroughIsCovered ==
  /\ sub.status = "cancelled" => Over
  /\ \A e \in Events : IsPayment(e) /\ inbox[e] = "processed" => Covered(e)
  /\ \A w \in Workers :
       worker[w].pc \in {"publish", "done"} /\ IsPayment(Event(w)) => Covered(Event(w))

PaymentInv ==
  IInv /\ NothingAhead /\ (\A y \in Payments : GrantedOnce(y)) /\ ThroughIsCovered

\* The newest binding only grows.
LEMMA BoundGrows ==
  ASSUME TypeOK, RowMoves
  PROVE  bound \in Nat /\ bound' \in Nat /\ bound <= bound'
BY BoundsAssumption DEF TypeOK, StoreOK, RowMoves, Provs

\* Webhooks are sent only by subscriptions that are bound.
LEMMA InboxBehind ==
  ASSUME TypeInv, NothingAhead, [Next]_vars
  PROVE  \A e \in Events : inbox'[e] # "none" => e.prov <= bound
<1> USE DEF TypeInv
<1>0. /\ bound \in Nat /\ bound \in Provs /\ current \in 0..bound
      /\ inbox \in [Events -> {"none", "pending", "processed"}]
  BY BoundsAssumption DEF TypeOK, StoreOK, ProviderOK, Provs
<1>1. CASE inbox' = inbox
  BY <1>1 DEF NothingAhead
<1>2. ASSUME NEW es, \A e \in es : e.prov <= bound, Send(es)
      PROVE  \A e \in Events : inbox'[e] # "none" => e.prov <= bound
  BY <1>2 DEF Send, NothingAhead
<1>3. ASSUME NEW w \in Workers, Done(w) \/ WorkerFails(w)
      PROVE  \A e \in Events : inbox'[e] # "none" => e.prov <= bound
  BY <1>0, <1>3, Held DEF Done, WorkerFails, NothingAhead
<1>4. ASSUME NEW p \in Provs, Charge(p) \/ Activate(p) \/ Fail(p)
      PROVE  \A e \in Events : inbox'[e] # "none" => e.prov <= bound
  <2>1. p <= bound
    BY <1>4 DEF Charge, Activate, Fail, NothingAhead
  <2> QED
    BY <1>2, <1>4, <2>1 DEF Charge, Activate, Fail
<1>5. CASE NextCycle
  <2>1. \A p \in Provs : prov[p] = "cancelling" => p <= bound
    BY DEF NothingAhead
  <2> QED
    BY <1>2, <1>5, <2>1 DEF NextCycle, CancelledEvent
<1>6. CASE AskProvider
  BY <1>0, <1>1, <1>2, <1>6 DEF AskProvider, CancelledEvent
<1>7. ASSUME NEW w \in Workers, Process(w), ~Done(w)
      PROVE  inbox' = inbox
  BY <1>7 DEF Process, Take, ReadBinding, SaveBinding, RecordAttempt, LoadAttempt, Finalize,
     Classify, Reload, Publish, ReadForFailure, MarkPastDue, ReadForCancel, MarkCancelled, provider
<1>8. CASE \/ Discover \/ Renew \/ RenewerFails \/ ScanDunning \/ ActDunning \/ ChangeFails
           \/ \E op \in {"now", "at_end", "free", "change"} : ReadForChange(op)
           \/ Commit \/ UNCHANGED vars
  BY <1>1, <1>8 DEF Discover, Renew, StartRenewal, CompleteCancellation, Claim, RenewerFails,
     ScanDunning, ActDunning, ReadForChange, Commit, ChangeFails, provider, vars
<1> QED
  BY <1>1, <1>3, <1>4, <1>5, <1>6, <1>7, <1>8 DEF Next, Administrate

\* A change of plan binds the next subscription, and the provider creates no other.
LEMMA ProvBehind ==
  ASSUME TypeInv, NothingAhead, [Next]_vars
  PROVE  \A p \in Provs : prov'[p] # "none" => p <= bound'
<1> USE DEF TypeInv
<1>0. /\ bound \in Nat /\ bound \in Provs /\ current \in 0..bound
      /\ prov \in [Provs -> {"none", "created", "active", "cancelling", "cancelled"}]
  BY BoundsAssumption DEF TypeOK, StoreOK, ProviderOK, Provs
<1>1. CASE UNCHANGED <<prov, bound>>
  BY <1>1 DEF NothingAhead
<1>2. CASE Commit
  <2>1. CASE bound' = bound + 1 /\ prov' = [prov EXCEPT ![bound + 1] = "created"]
    BY <1>0, <2>1 DEF NothingAhead, Provs
  <2> QED
    BY <1>1, <1>2, <2>1 DEF Commit
<1>3. CASE AskProvider
  <2>1. bound' = bound
    BY <1>3 DEF AskProvider
  <2>2. PICK b \in 0..bound : prov' = prov \/ \E s : prov' = [prov EXCEPT ![b] = s]
    BY <1>0, <1>3 DEF AskProvider
  <2> QED
    BY <1>0, <2>1, <2>2 DEF NothingAhead
<1>4. ASSUME NEW p \in Provs, Charge(p) PROVE \A q \in Provs : prov'[q] # "none" => q <= bound'
  BY <1>0, <1>4 DEF Charge, NothingAhead
<1>5. CASE NextCycle
  BY <1>0, <1>5 DEF NextCycle, NothingAhead
<1>6. ASSUME NEW w \in Workers, Process(w) \/ WorkerFails(w) PROVE UNCHANGED <<prov, bound>>
  BY <1>6 DEF Process, Take, ReadBinding, SaveBinding, RecordAttempt, LoadAttempt, Finalize,
     Classify, Reload, Publish, ReadForFailure, MarkPastDue, ReadForCancel, MarkCancelled, Done,
     WorkerFails, provider
<1>7. CASE \/ Discover \/ Renew \/ RenewerFails \/ ScanDunning \/ ActDunning \/ ChangeFails
           \/ \E op \in {"now", "at_end", "free", "change"} : ReadForChange(op)
           \/ \E p \in Provs : Activate(p) \/ Fail(p)
           \/ UNCHANGED vars
  BY <1>1, <1>7 DEF Discover, Renew, StartRenewal, CompleteCancellation, Claim, RenewerFails,
     ScanDunning, ActDunning, ReadForChange, ChangeFails, Activate, Fail, provider, vars
<1> QED
  BY <1>1, <1>2, <1>3, <1>4, <1>5, <1>6, <1>7 DEF Next, Administrate

\* Only a job that publishes grants the minutes of a payment, and only a job that
\* gives up reports one.
LEMMA BillingMoves ==
  ASSUME [Next]_vars
  PROVE  /\ renewed' = renewed \/ \E w \in Workers : Publish(w)
         /\ incidents \subseteq incidents'
BY DEF Next, Process, Take, ReadBinding, SaveBinding, RecordAttempt, LoadAttempt, Finalize,
   Classify, Reload, Publish, ReadForFailure, MarkPastDue, ReadForCancel, MarkCancelled, Done,
   WorkerFails, Discover, Renew, StartRenewal, CompleteCancellation, Claim, RenewerFails,
   ScanDunning, ActDunning, Administrate, ReadForChange, AskProvider, Commit, ChangeFails,
   Charge, Activate, Fail, NextCycle, vars, billing

\* A job that publishes goes on to be done, and keeps its event.
LEMMA PublishMoves ==
  ASSUME TypeOK, NEW w \in Workers, Publish(w)
  PROVE  /\ worker'[w].pc = "done" /\ worker'[w].event = Event(w)
         /\ \A u \in Workers \ {w} : worker'[u] = worker[u]
         /\ renewed' = [renewed EXCEPT ![Payment(Event(w))] = @ + 1]
         /\ UNCHANGED <<sub, current, bound, past, incidents>>
<1>1. worker'[w] = Handler("done", Event(w), FirstRow, 0, 0)
  BY Puts DEF Publish, Finish
<1> QED
  BY <1>1, Puts DEF Publish, Finish, Handler

\* A finalization that is let through moves the period to its cycle.
LEMMA FinalizeMoves ==
  ASSUME TypeOK, NEW w \in Workers, Finalize(w), MayFinalize(w)
  PROVE  sub'.start = Day(Event(w).cycle)
<1> DEFINE s == [sub EXCEPT !.status = "active", !.start = Day(Event(w).cycle)]
<1>1. s \in Rows /\ s.start = Day(Event(w).cycle)
  BY Held, Constructors DEF TypeOK, StoreOK, Rows
<1>2. sub' = Bump(s)
  BY DEF Finalize, WriteIf, Write
<1> HIDE DEF s
<1> QED
  BY <1>1, <1>2, Bumped

LEMMA AheadInductive ==
  ASSUME TypeInv, NothingAhead, [Next]_vars, Fresh
  PROVE  NothingAhead'
<1> USE DEF TypeInv
<1>1. RowMoves /\ TypeOK'
  BY RowStep, TypeInductive
<1>2. bound \in Nat /\ bound' \in Nat /\ bound <= bound'
  BY <1>1, BoundGrows
<1>3. \A e \in Events : inbox'[e] # "none" => e.prov <= bound'
  <2>1. \A e \in Events : e.prov \in Nat
    BY DEF Events, Provs
  <2> QED
    BY <1>2, <2>1, InboxBehind
<1>4. ASSUME NEW w \in Workers PROVE worker'[w].event.prov <= bound'
  <2>0. worker[w].event.prov <= bound /\ worker[w].event.prov \in Nat
    BY Held DEF NothingAhead, Event, Provs
  <2>1. CASE worker'[w].event = worker[w].event
    BY <1>2, <2>0, <2>1
  <2>2. CASE worker'[w].event # worker[w].event
    <3>1. Process(w) \/ WorkerFails(w)
      BY <2>2, OwnSteps
    <3>2. CASE worker'[w].pc # "idle"
      <4>1. Take(w, worker'[w].event) /\ worker'[w].event \in Events
        BY <1>1, <2>2, <3>1, <3>2, Entries DEF TypeOK, Handlers
      <4>2. inbox[worker'[w].event] # "none"
        BY <4>1 DEF Take
      <4>3. worker'[w].event.prov <= bound /\ worker'[w].event.prov \in Nat
        BY <4>1, <4>2 DEF NothingAhead, Events, Provs
      <4> QED
        BY <1>2, <4>3
    <3>3. CASE worker'[w].pc = "idle"
      <4>1. CASE Done(w) \/ WorkerFails(w)
        <5>1. worker'[w] = Idle
          BY <4>1 DEF Done, WorkerFails, TypeOK
        <5>2. bound' \in Provs
          BY <1>1 DEF TypeOK, StoreOK
        <5> QED
          BY <5>1, <5>2 DEF Idle, Handler, FirstCharge, Provs
      <4>2. CASE ~(Done(w) \/ WorkerFails(w))
        <5>1. ASSUME NEW pc, NEW v, NEW n, Put(w, pc, v, n)
              PROVE  worker'[w].event = worker[w].event
          <6>1. worker'[w] = Handler(pc, Event(w), FirstRow, v, n)
            BY <5>1, Puts
          <6> QED
            BY <6>1 DEF Handler, Event
        <5>2. CASE \E e \in Events : Take(w, e)
          <6>1. PICK e \in Events : \E pc \in {"record", "mirror"} :
                  worker' = [worker EXCEPT ![w] = Handler(pc, e, FirstRow, 0, 0)]
            BY <5>2 DEF Take
          <6> QED
            BY <3>3, <6>1 DEF TypeOK, Handler
        <5>3. CASE ReadBinding(w)
          BY <3>3, <5>3 DEF ReadBinding, TypeOK, Handler
        <5>4. CASE \/ SaveBinding(w) \/ RecordAttempt(w) \/ LoadAttempt(w) \/ Finalize(w)
                   \/ Classify(w) \/ Reload(w) \/ Publish(w)
                   \/ ReadForFailure(w) \/ MarkPastDue(w) \/ ReadForCancel(w)
                   \/ MarkCancelled(w)
          BY <2>2, <5>1, <5>4 DEF SaveBinding, RecordAttempt, LoadAttempt, Finalize, Classify,
             Reload, Publish, ReadForFailure, MarkPastDue, ReadForCancel, MarkCancelled,
             Goto, Load, Finish
        <5> QED
          BY <3>1, <4>2, <5>2, <5>3, <5>4 DEF Process
      <4> QED
        BY <4>1, <4>2
    <3> QED
      BY <3>2, <3>3
  <2> QED
    BY <2>1, <2>2
<1>5. ASSUME NEW y \in Payments, y[1] > bound' PROVE renewed'[y] = 0
  <2>0. y[1] \in Nat /\ y[1] > bound
    BY <1>2, <1>5 DEF Payments, Provs
  <2>1. renewed[y] = 0
    BY <2>0 DEF NothingAhead
  <2>2. ASSUME NEW w \in Workers, Publish(w) PROVE renewed'[y] = renewed[y]
    <3>1. Payment(Event(w)) # y
      BY <2>0, Held, <1>2 DEF NothingAhead, Payment, Provs
    <3> QED
      BY <2>2, <3>1, PublishMoves DEF TypeOK, StoreOK
  <2> QED
    BY <2>1, <2>2, BillingMoves
<1> QED
  BY <1>3, <1>4, <1>5, ProvBehind DEF NothingAhead, Event

\* What is covered stays covered: a change of plan goes to a subscription without
\* payments.
LEMMA CoveredStays ==
  ASSUME TypeOK, TypeOK', RowMoves, incidents \subseteq incidents',
         NEW e \in Events, e.prov <= bound, Covered(e)
  PROVE  Covered(e)'
<1>1. e.prov \in Nat \ {0} /\ Day(e.cycle) \in Nat /\ bound \in Nat
  BY Constructors DEF Events, Provs, TypeOK, StoreOK
<1>2. sub.start \in Nat /\ sub'.start \in Nat
  BY DEF TypeOK, StoreOK, Rows
<1> QED
  BY <1>1, <1>2 DEF Covered, RowMoves

LEMMA CoveredInductive ==
  ASSUME IInv, NothingAhead, ThroughIsCovered, [Next]_vars, Fresh
  PROVE  ThroughIsCovered'
<1> USE DEF IInv, TypeInv
<1>1. RowMoves /\ TypeOK' /\ incidents \subseteq incidents'
  BY RowStep, TypeInductive, BillingMoves
<1>2. ASSUME NEW e \in Events, e.prov <= bound, Covered(e) PROVE Covered(e)'
  BY <1>1, <1>2, CoveredStays
<1>3. sub'.status = "cancelled" => Over'
  BY <1>1 DEF RowMoves, ThroughIsCovered
<1>4. ASSUME NEW w \in Workers, NEW e \in Events, worker'[w].event = e,
             worker'[w].pc \in {"publish", "done"}, IsPayment(e)
      PROVE  Covered(e)'
  <2>0. Event(w) \in Events /\ Event(w).prov <= bound
    BY Held DEF NothingAhead
  <2>1. CASE worker'[w] = worker[w]
    BY <1>2, <1>4, <2>0, <2>1 DEF ThroughIsCovered, Event
  <2>2. CASE worker'[w] # worker[w]
    <3>1. Process(w) \/ WorkerFails(w)
      BY <2>2, OwnSteps
    <3>2. CASE worker'[w].pc = "publish"
      <4>1. Finalize(w) /\ MayFinalize(w)
        BY <3>1, <3>2, Entries
      <4>2. worker'[w].event = Event(w)
        <5>1. worker'[w] = Handler("publish", Event(w), FirstRow, worker[w].version,
                                   worker[w].tries)
          BY <4>1, Puts DEF Finalize, Goto
        <5> QED
          BY <5>1 DEF Handler
      <4>3. sub'.start = Day(Event(w).cycle)
        BY <4>1, FinalizeMoves
      <4>4. Day(Event(w).cycle) \in Nat
        BY Held, Constructors
      <4> QED
        BY <1>4, <4>2, <4>3, <4>4 DEF Covered
    <3>3. CASE worker'[w].pc = "done"
      <4>1. \/ LoadAttempt(w) \/ Classify(w) \/ Publish(w) \/ ReadForFailure(w)
            \/ MarkPastDue(w) \/ ReadForCancel(w) \/ MarkCancelled(w)
        BY <3>1, <3>3, Entries
      <4>2. ASSUME NEW pc, NEW v, NEW n, Put(w, pc, v, n)
            PROVE  worker'[w].pc = pc /\ worker'[w].event = Event(w)
        <5>1. worker'[w] = Handler(pc, Event(w), FirstRow, v, n)
          BY <4>2, Puts
        <5> QED
          BY <5>1 DEF Handler
      <4>3. worker'[w].event = Event(w)
        BY <4>1, <4>2 DEF LoadAttempt, Classify, Publish, ReadForFailure, MarkPastDue,
           ReadForCancel, MarkCancelled, Goto, Load, Finish
      <4>4. CASE LoadAttempt(w)
        <5>1. sub.status = "cancelled"
          BY <3>3, <4>2, <4>4 DEF LoadAttempt, Load
        <5> QED
          BY <1>1, <4>3, <5>1 DEF ThroughIsCovered, RowMoves, Covered
      <4>5. CASE Classify(w)
        <5>1. Settled(w) \/ Payment(e) \in incidents'
          BY <1>4, <3>3, <4>2, <4>3, <4>5 DEF Classify, Goto
        <5>2. Settled(w) => Covered(e)
          BY <1>4, <4>3 DEF Settled, ThroughIsCovered, Covered
        <5>3. Payment(e) \in incidents' => Covered(e)'
          BY DEF Covered, Payment
        <5> QED
          BY <1>2, <1>4, <2>0, <4>3, <5>1, <5>2, <5>3
      <4>6. CASE Publish(w)
        <5>1. Covered(e)
          BY <1>4, <4>3, <4>6 DEF Publish, ThroughIsCovered, Covered, Payment, At
        <5> QED
          BY <1>2, <1>4, <2>0, <4>3, <5>1
      <4>7. CASE ReadForFailure(w) \/ MarkPastDue(w) \/ ReadForCancel(w) \/ MarkCancelled(w)
        <5>1. ~IsPayment(Event(w))
          BY <4>7 DEF ReadForFailure, MarkPastDue, ReadForCancel, MarkCancelled, At, Event,
             JobsOnTheirWay, OnItsWay
        <5> QED
          BY <1>4, <4>3, <5>1
      <4> QED
        BY <4>1, <4>4, <4>5, <4>6, <4>7
    <3> QED
      BY <1>4, <3>2, <3>3
  <2> QED
    BY <2>1, <2>2
<1>5. ASSUME NEW e \in Events, IsPayment(e), inbox'[e] = "processed" PROVE Covered(e)'
  <2>1. e.prov <= bound
    BY <1>5, InboxBehind
  <2>2. Covered(e)
    <3>1. CASE inbox[e] = "processed"
      BY <1>5, <3>1 DEF ThroughIsCovered
    <3>2. CASE inbox[e] # "processed"
      <4>0. inbox \in [Events -> {"none", "pending", "processed"}]
        BY DEF TypeOK, ProviderOK
      <4>1. ASSUME NEW es, Send(es) PROVE FALSE
        BY <1>5, <3>2, <4>1 DEF Send
      <4>2. ASSUME NEW w \in Workers, WorkerFails(w) PROVE FALSE
        BY <1>5, <3>2, <4>0, <4>2 DEF WorkerFails
      <4>3. PICK w \in Workers : Done(w)
        BY <1>5, <3>2, <4>1, <4>2 DEF Next, Process, Take, ReadBinding, SaveBinding, RecordAttempt,
           LoadAttempt, Finalize, Classify, Reload, Publish, ReadForFailure, MarkPastDue,
           ReadForCancel, MarkCancelled, Discover, Renew, StartRenewal, CompleteCancellation,
           Claim, RenewerFails, ScanDunning, ActDunning, Administrate, ReadForChange,
           AskProvider, Commit, ChangeFails, Charge, Activate, Fail, NextCycle, vars, provider
      <4>4. e = Event(w) /\ worker[w].pc = "done"
        BY <1>5, <3>2, <4>0, <4>3, Held DEF Done, At
      <4> QED
        BY <1>5, <4>4 DEF ThroughIsCovered
    <3> QED
      BY <3>1, <3>2
  <2> QED
    BY <1>2, <2>1, <2>2
<1>6. \A w \in Workers : worker'[w].event \in Events
  BY <1>1 DEF TypeOK, Handlers
<1> QED
  BY <1>3, <1>4, <1>5, <1>6 DEF ThroughIsCovered, Event

\* A job publishes a payment only if it moved the row past all that came before.
LEMMA GrantInductive ==
  ASSUME IInv, NothingAhead, \A y \in Payments : GrantedOnce(y), [Next]_vars, Fresh,
         NEW y \in Payments
  PROVE  GrantedOnce(y)'
<1> USE DEF IInv, TypeInv, At
<1>1. RowMoves /\ TypeOK'
  BY RowStep, TypeInductive
<1>2. /\ sub.start \in Nat /\ sub'.start \in Nat /\ Day(y[2]) \in Nat /\ y[1] \in Nat \ {0}
      /\ bound \in Nat /\ renewed \in [Payments -> Nat]
  BY <1>1, Constructors DEF TypeOK, StoreOK, Rows, Payments, Provs
<1> SUFFICES ASSUME y[1] = current' PROVE GrantedOnce(y)'
  BY DEF GrantedOnce
<1> DEFINE Publishing(w) == worker[w].pc = "publish" /\ Payment(worker[w].event) = y
\* Who publishes y now already did, or has just moved the row.
<1>3. ASSUME NEW w \in Workers, Publishing(w)'
      PROVE  \/ worker'[w] = worker[w] /\ Publishing(w)
             \/ /\ Finalize(w) /\ MayFinalize(w) /\ Payment(Event(w)) = y
                /\ \A u \in Workers \ {w} : worker'[u] = worker[u]
  <2>1. CASE worker'[w] = worker[w]
    BY <1>3, <2>1
  <2>2. CASE worker'[w] # worker[w]
    <3>1. Process(w) \/ WorkerFails(w)
      BY <2>2, OwnSteps
    <3>2. Finalize(w) /\ MayFinalize(w) /\ \A u \in Workers \ {w} : worker'[u] = worker[u]
      BY <1>3, <3>1, Entries
    <3>3. worker'[w] = Handler("publish", Event(w), FirstRow, worker[w].version,
                               worker[w].tries)
      BY <3>2, Puts DEF Finalize, Goto
    <3> QED
      BY <1>3, <3>2, <3>3 DEF Handler, Event
  <2> QED
    BY <2>1, <2>2
<1>4. CASE current' = current
  <2>0. GrantedOnce(y) /\ sub'.start >= sub.start
    BY <1>1, <1>4 DEF RowMoves
  <2>1. ASSUME NEW w \in Workers, Publish(w), Payment(Event(w)) = y
        PROVE  GrantedOnce(y)'
    <3>1. /\ renewed[y] = 0 /\ sub.start >= Day(y[2])
          /\ \A v \in Workers : Publishing(v) => v = w
      BY <1>4, <2>0, <2>1 DEF GrantedOnce, Publish, Event
    <3>2. renewed'[y] = 1 /\ worker'[w].pc = "done"
      BY <1>2, <2>1, <3>1, PublishMoves
    <3>3. ASSUME NEW v \in Workers, Publishing(v)' PROVE FALSE
      <4>1. v # w
        BY <3>2, <3>3
      <4>2. worker'[v] = worker[v]
        BY <2>1, <4>1, PublishMoves
      <4> QED
        BY <3>1, <3>3, <4>1, <4>2
    <3> QED
      BY <1>2, <2>0, <3>1, <3>2, <3>3 DEF GrantedOnce, Event
  <2>2. ASSUME \A w \in Workers : Publish(w) => Payment(Event(w)) # y
        PROVE  GrantedOnce(y)'
    <3>1. renewed'[y] = renewed[y]
      <4>1. ASSUME NEW w \in Workers, Publish(w) PROVE renewed'[y] = renewed[y]
        BY <1>2, <2>2, <4>1, PublishMoves
      <4> QED
        BY <4>1, BillingMoves
    <3>2. renewed'[y] \in {0, 1} /\ (renewed'[y] = 1 => sub'.start >= Day(y[2]))
      BY <1>2, <1>4, <2>0, <3>1 DEF GrantedOnce
    <3>3. ASSUME NEW w \in Workers, Publishing(w)'
          PROVE  /\ renewed'[y] = 0 /\ sub'.start >= Day(y[2])
                 /\ \A v \in Workers : Publishing(v)' => v = w
      <4>1. ASSUME NEW u \in Workers, Finalize(u), MayFinalize(u), Payment(Event(u)) = y,
                   \A v \in Workers \ {u} : worker'[v] = worker[v]
            PROVE  /\ renewed'[y] = 0 /\ sub'.start >= Day(y[2])
                   /\ \A v \in Workers : Publishing(v)' => v = u
        <5>1. sub.start < Day(y[2]) /\ y[2] = Event(u).cycle
          BY <4>1 DEF MayFinalize, Payment
        <5>2. renewed[y] = 0 /\ \A v \in Workers : ~Publishing(v)
          BY <1>2, <1>4, <2>0, <5>1 DEF GrantedOnce, Event
        <5>3. sub'.start = Day(y[2])
          BY <4>1, <5>1, FinalizeMoves
        <5>4. \A v \in Workers : Publishing(v)' => v = u
          BY <4>1, <5>2
        <5> QED
          BY <1>2, <3>1, <5>2, <5>3, <5>4
      <4>2. CASE \E u \in Workers : Finalize(u) /\ MayFinalize(u) /\ Payment(Event(u)) = y
                                    /\ \A v \in Workers \ {u} : worker'[v] = worker[v]
        BY <3>3, <4>1, <4>2
      <4>3. CASE ~\E u \in Workers : Finalize(u) /\ MayFinalize(u) /\ Payment(Event(u)) = y
                                     /\ \A v \in Workers \ {u} : worker'[v] = worker[v]
        <5>1. \A v \in Workers : Publishing(v)' => Publishing(v)
          BY <1>3, <4>3
        <5>2. /\ renewed[y] = 0 /\ sub.start >= Day(y[2])
              /\ \A v \in Workers : Publishing(v) => v = w
          BY <1>4, <2>0, <3>3, <5>1 DEF GrantedOnce, Event
        <5> QED
          BY <1>2, <2>0, <3>1, <5>1, <5>2
      <4> QED
        BY <4>2, <4>3
    <3> QED
      BY <3>2, <3>3 DEF GrantedOnce, Event
  <2> QED
    BY <2>1, <2>2
<1>5. CASE current' # current
  <2>1. current' = bound + 1 /\ ~\E w \in Workers : Publish(w)
    BY <1>1, <1>2, <1>5, PublishMoves DEF RowMoves
  <2>2. renewed'[y] = 0
    BY <1>2, <2>1, BillingMoves DEF NothingAhead
  <2>3. ASSUME NEW w \in Workers, Publishing(w)' PROVE FALSE
    <3>1. Payment(Event(w)) = y
      BY <1>3, <2>3 DEF Event
    <3>2. Event(w).prov = y[1] /\ Event(w).prov <= bound
      BY <3>1 DEF Payment, NothingAhead
    <3> QED
      BY <1>2, <2>1, <3>2
  <2> QED
    BY <2>2, <2>3 DEF GrantedOnce, Event
<1> QED
  BY <1>4, <1>5

LEMMA PaymentInitial == Init => PaymentInv
<1> SUFFICES ASSUME Init PROVE PaymentInv
  OBVIOUS
<1>1. /\ \A w \in Workers : worker[w].pc = "idle" /\ Event(w) = FirstCharge
      /\ sub.start = Day(1) /\ sub.status = "active" /\ current = 1 /\ bound = 1
  BY DEF Init, Idle, Handler, Event, FirstRow
<1>2. NothingAhead
  <2>1. \A e \in Events : inbox[e] # "none" => e = FirstCharge
    BY DEF Init
  <2>2. \A y \in Payments : y[1] > 1 => renewed[y] = 0
    BY DEF Init
  <2>3. \A p \in Provs : prov[p] # "none" => p = 1
    BY DEF Init
  <2>4. FirstCharge.prov = 1
    BY DEF FirstCharge
  <2> QED
    BY <1>1, <2>1, <2>2, <2>3, <2>4 DEF NothingAhead
<1>3. ASSUME NEW y \in Payments PROVE GrantedOnce(y)
  <2>1. renewed[y] = (IF y = <<1, 1>> THEN 1 ELSE 0)
    BY DEF Init
  <2>2. y = <<1, 1>> => sub.start >= Day(y[2])
    BY <1>1 DEF Day
  <2> QED
    BY <1>1, <2>1, <2>2 DEF GrantedOnce, At
<1>4. ThroughIsCovered
  <2>1. \A e \in Events : inbox[e] = "processed" => e = FirstCharge
    BY DEF Init
  <2>2. Covered(FirstCharge)
    BY <1>1 DEF Covered, FirstCharge, Day
  <2> QED
    BY <1>1, <2>1, <2>2 DEF ThroughIsCovered
<1> QED
  BY <1>2, <1>3, <1>4, IInvInitial DEF PaymentInv

LEMMA PaymentInductive ==
  ASSUME PaymentInv, [Next]_vars, Fresh
  PROVE  PaymentInv'
<1> USE DEF PaymentInv
<1>1. IInv' /\ NothingAhead' /\ ThroughIsCovered'
  BY IInvInductive, AheadInductive, CoveredInductive DEF IInv
<1>2. \A y \in Payments : GrantedOnce(y)'
  BY GrantInductive
<1> QED
  BY <1>1, <1>2

PaidInv == TypeInv /\ (~Overwritten => PaymentInv)

LEMMA PaidInitial == Init => PaidInv
BY PaymentInitial, TypeInitial DEF PaidInv

LEMMA PaidInductive == PaidInv /\ [Next]_vars => PaidInv'
<1> SUFFICES ASSUME PaidInv, [Next]_vars PROVE PaidInv'
  OBVIOUS
<1>1. TypeInv'
  BY TypeInductive DEF PaidInv
<1>2. ~Overwritten' => PaymentInv'
  BY PastStep, PaymentInductive DEF PaidInv
<1> QED
  BY <1>1, <1>2 DEF PaidInv

\* A payment of the current provider subscription that was processed has its period,
\* or the row is cancelled, or an operator knows, or updateBinding has overwritten
\* the row.
THEOREM CoveredCorrect == Spec => []PaidIsCovered
<1>1. PaidInv => PaidIsCovered
  BY DEF PaidInv, PaymentInv, ThroughIsCovered, Covered, PaidIsCovered
<1> QED
  BY <1>1, PaidInitial, PaidInductive, PTL DEF Spec

\* A payment of the current provider subscription is announced at most once, until
\* updateBinding has overwritten the row.
THEOREM RenewedCorrect == Spec => []RenewedOnce
<1>1. PaidInv => RenewedOnce
  <2> SUFFICES ASSUME PaidInv, ~Overwritten, NEW y \in Payments, y[1] = current
               PROVE  renewed[y] + Cardinality({w \in Workers :
                        At(w, "publish") /\ Payment(Event(w)) = y}) <= 1
    BY DEF RenewedOnce
  <2> DEFINE P == {w \in Workers : At(w, "publish") /\ Payment(Event(w)) = y}
  <2>1. GrantedOnce(y)
    BY DEF PaidInv, PaymentInv
  <2>2. CASE P = {}
    <3>1. Cardinality(P) = 0
      BY <2>2, FS_EmptySet
    <3> QED
      BY <2>1, <3>1 DEF GrantedOnce
  <2>3. CASE P # {}
    <3>1. PICK w \in Workers : P = {w} /\ renewed[y] = 0
      BY <2>1, <2>3 DEF GrantedOnce
    <3>2. Cardinality(P) = 1
      BY <3>1, FS_Singleton
    <3> QED
      BY <3>1, <3>2
  <2> QED
    BY <2>2, <2>3
<1> QED
  BY <1>1, PaidInitial, PaidInductive, PTL DEF Spec
=============================================================================
