------------------------- MODULE MeetingLifecycle -------------------------
(***************************************************************************)
(* The bbb_meeting rows of one grant-billed organization, written without  *)
(* a common lock by the provisioning worker, the completion service        *)
(* (webhooks, requests, endBbbMeeting), billing and three passes of the    *)
(* reconciliation task.                                                    *)
(*                                                                         *)
(* One action is one database transaction, one autocommitted statement or  *)
(* one call to BBB.  Where a handler reads, awaits and then writes, what   *)
(* it read is kept in the handler's own state until the write.             *)
(***************************************************************************)
EXTENDS Integers, FiniteSets

CONSTANTS
  MaxMeetings,            \* bound: meeting rows that are ever inserted
  Workers,                \* concurrent provisioning job processors
  ConcurrentMeetingLimit, \* BbbOrganization.concurrentMeetingLimit
  MaxProvisioningRetries, \* retries of a meeting stuck in Provisioning
  MaxEdited,              \* bound: no more edits after so many rows put back
  None

Meetings == 1 .. MaxMeetings

ASSUME ConstantsAssumption ==
  /\ MaxMeetings \in Nat
  /\ ConcurrentMeetingLimit \in Nat
  /\ MaxProvisioningRetries \in Nat \ {0}
  /\ MaxEdited \in Nat
  /\ None \notin Meetings

VARIABLES
  state,     \* state of each bbb_meeting row; "Absent" before the insert
  retry,     \* retryCount of each row
  runtime,   \* what runs on the BBB servers
  jobs,      \* provisioning jobs waiting in the queue
  worker,    \* provisioning jobs being processed
  hooks,     \* meeting-ended webhook events waiting for their processor
  held,      \* rows locked by an endBbbMeeting request's own transaction
  edit,      \* updateBbbMeeting: the row it read, with what it read
  stuck,     \* reconcileProvisioning: rows read as timed out, not yet written
  remote,    \* reconcileActiveMeetings: rows read as Active, not yet handled
  billing,   \* billing calls in flight after a completion
  ledger,    \* meetings with a usage-ledger row
  edited     \* history, read by no action: the rows whose state an
             \* administrator's save has put back to what it was when read

row     == <<state, retry>>
work    == <<jobs, worker>>
bbb     == <<runtime, hooks>>
recon   == <<stuck, remote>>
bills   == <<billing, ledger>>
vars    == <<state, retry, runtime, jobs, worker, hooks, held, edit, stuck,
             remote, billing, ledger, edited>>
reqs    == <<held, edit, edited>>

Ended   == {"Completed", "Stale", "Failed"}
Live    == {"Provisioning", "Active"}        \* what the limit counts
\* bound: the counters stop where they no longer matter
NextRetry(n) == IF n < MaxProvisioningRetries THEN n + 1 ELSE n
Resting == [pc |-> "idle", m |-> None]

Busy(w)      == worker[w].pc # "idle"
LiveMeetings == {m \in Meetings : state[m] \in Live}
IsNext(m)    == /\ state[m] = "Absent"
                /\ \A n \in 1 .. m-1 : state[n] # "Absent"

Init ==
  /\ state = [m \in Meetings |-> "Absent"]
  /\ retry = [m \in Meetings |-> 0]
  /\ runtime = [m \in Meetings |-> "none"]
  /\ jobs = {}
  /\ worker = [w \in Workers |-> Resting]
  /\ hooks = {} /\ held = {} /\ edit = {} /\ edited = {}
  /\ stuck = {} /\ remote = {}
  /\ billing = {} /\ ledger = {}

\* createAndEnqueue, createRoomMeetingAndEnqueue: a Pending row and, after the
\* commit, its job; an enqueue that fails is only logged
CreateAndEnqueue(m) ==
  /\ IsNext(m)
  /\ state' = [state EXCEPT ![m] = "Pending"]
  /\ jobs' \in {jobs, jobs \cup {m}}
  /\ UNCHANGED <<retry, worker, bbb, reqs, recon, bills>>

\* mutant: the re-check of the state under the lock is gone
Complete_Unchecked(m) ==
  /\ m \notin held
  /\ state' = [state EXCEPT ![m] = "Completed"]
  /\ billing' = billing \cup {m}

\* completeMeetingLifecycle: a transaction that waits for the row, is a no-op
\* unless the row is Active, and starts the billing call after its commit
Complete(m) ==
  /\ m \notin held
  /\ IF state[m] = "Active"
     THEN /\ state' = [state EXCEPT ![m] = "Completed"]
          /\ billing' = billing \cup {m}
     ELSE UNCHANGED <<state, billing>>

(***************************************************************************)
(* The provisioning worker (doProvisionMeeting).                           *)
(***************************************************************************)
\* mutant: a redelivered job is not skipped when the row is past Pending
TakeJob_Redelivered(w, m) ==
  /\ worker[w].pc = "idle" /\ m \in jobs
  /\ jobs' = jobs \ {m}
  /\ worker' = [worker EXCEPT ![w] = [pc |-> "read", m |-> m]]
  /\ UNCHANGED <<row, bbb, reqs, recon, bills>>

TakeJob(w, m) ==
  /\ worker[w].pc = "idle" /\ m \in jobs
  /\ jobs' = jobs \ {m}
  /\ worker' = IF state[m] = "Pending"
               THEN [worker EXCEPT ![w] = [pc |-> "read", m |-> m]] ELSE worker
  /\ UNCHANGED <<row, bbb, reqs, recon, bills>>

\* mutant: the limit itself may be exceeded by one
Promote_OffByOne(w) ==
  /\ worker[w].pc = "read"
  /\ IF Cardinality(LiveMeetings) <= ConcurrentMeetingLimit
     THEN /\ state' = [state EXCEPT ![worker[w].m] = "Provisioning"]
          /\ worker' = [worker EXCEPT ![w].pc = "promoted"]
     ELSE /\ worker' = [worker EXCEPT ![w] = Resting]
          /\ UNCHANGED state
  /\ UNCHANGED <<retry, jobs, bbb, reqs, recon, bills>>

\* reserveProvisioningCapacity: count and promotion in one transaction under
\* the organization's row lock; refused, the row stays Pending and the job ends
Promote(w) ==
  /\ worker[w].pc = "read"
  /\ IF Cardinality(LiveMeetings) < ConcurrentMeetingLimit
     THEN /\ state' = [state EXCEPT ![worker[w].m] = "Provisioning"]
          /\ worker' = [worker EXCEPT ![w].pc = "promoted"]
     ELSE /\ worker' = [worker EXCEPT ![w] = Resting]
          /\ UNCHANGED state
  /\ UNCHANGED <<retry, jobs, bbb, reqs, recon, bills>>

\* the /create call, on whichever server answers
CreateOnServer(w) ==
  /\ worker[w].pc = "promoted"
  /\ worker' = [worker EXCEPT ![w].pc = "created"]
  /\ runtime' = [runtime EXCEPT ![worker[w].m] = "running"]
  /\ UNCHANGED <<row, jobs, hooks, reqs, recon, bills>>

\* the UPDATE that makes the row Active, whatever its state is by now
Activate(w) ==
  /\ worker[w].pc = "created" /\ worker[w].m \notin held
  /\ state' = [state EXCEPT ![worker[w].m] = "Active"]
  /\ worker' = [worker EXCEPT ![w].pc = "activated"]
  /\ UNCHANGED <<retry, jobs, bbb, reqs, recon, bills>>

\* Anything the try block throws (no usable grant, no server, BBB refuses, a
\* failing UPDATE, a failing room update): the row becomes Failed.
FailProvisioning(w) ==
  LET m == worker[w].m IN
  /\ worker[w].pc \in {"promoted", "created", "activated"} /\ m \notin held
  /\ state' = [state EXCEPT ![m] = "Failed"]
  /\ retry' = [retry EXCEPT ![m] = NextRetry(@)]
  /\ worker' = [worker EXCEPT ![w].pc = "failed"]
  /\ UNCHANGED <<jobs, bbb, reqs, recon, bills>>

\* the room is told (onMeetingActive, onMeetingFailed) and the job is done
TellRoom(w) ==
  /\ worker[w].pc \in {"activated", "failed"}
  /\ worker' = [worker EXCEPT ![w] = Resting]
  /\ UNCHANGED <<row, jobs, bbb, reqs, recon, bills>>

\* the worker process dies; the queue redelivers the job
WorkerCrash(w) ==
  /\ Busy(w)
  /\ jobs' = jobs \cup {worker[w].m}
  /\ worker' = [worker EXCEPT ![w] = Resting]
  /\ UNCHANGED <<row, bbb, reqs, recon, bills>>

(***************************************************************************)
(* BBB, its webhooks, and the requests that complete a meeting.            *)
(***************************************************************************)

\* the last participant leaves, or the server dies without an event
RuntimeEnds(m) ==
  /\ runtime[m] = "running"
  /\ runtime' = [runtime EXCEPT ![m] = "ended"]
  /\ hooks' \in {hooks, hooks \cup {m}}
  /\ UNCHANGED <<row, work, reqs, recon, bills>>

\* handleWebhookEvent(meeting-ended); the event may come again
MeetingEndedWebhook(m) ==
  /\ m \in hooks
  /\ Complete(m)
  /\ hooks' \in {hooks, hooks \ {m}}
  /\ UNCHANGED <<retry, runtime, work, reqs, recon, ledger>>

\* joinRoom, startRoomAsModerator, requestProvisioning: BBB says it is gone
StaleActiveRuntime(m) ==
  /\ state[m] = "Active" /\ runtime[m] = "ended"
  /\ Complete(m)
  /\ UNCHANGED <<retry, bbb, work, reqs, recon, ledger>>

\* endBbbMeeting runs in a request transaction: BBB is told to end, then
\* endedByUserId is stamped, which locks the row; the completion that follows
\* waits for the same row on a connection of its own, so the request gets no
\* further and the row stays locked (see EndMeeting).
EndMeeting(m) ==
  /\ state[m] = "Active" /\ m \notin held
  /\ runtime' = [runtime EXCEPT ![m] = "ended"]
  /\ hooks' \in {hooks, hooks \cup {m}}
  /\ held' = held \cup {m}
  /\ UNCHANGED <<row, work, edit, edited, recon, bills>>

\* the server process dies: its open transactions are rolled back
ServerRestart ==
  /\ held # {} \/ edit # {}
  /\ held' = {} /\ edit' = {}
  /\ UNCHANGED <<row, bbb, work, recon, bills, edited>>

\* updateBbbMeeting reads the row ...
ReadForUpdate(m) ==
  /\ edit = {} /\ state[m] # "Absent"
  /\ Cardinality(edited) < MaxEdited
  /\ edit' = {<<m, state[m], retry[m]>>}
  /\ UNCHANGED <<row, bbb, work, held, edited, recon, bills>>

\* ... and saves the entity, which writes back every column that differs from
\* the row by now, the state and the retry count among them
SaveUpdate(m, read, count) ==
  /\ <<m, read, count>> \in edit /\ m \notin held
  /\ edit' = {}
  /\ state' = [state EXCEPT ![m] = read]
  /\ retry' = [retry EXCEPT ![m] = count]
  /\ edited' = IF state[m] = read THEN edited ELSE edited \cup {m}
  /\ UNCHANGED <<bbb, work, held, recon, bills>>

(***************************************************************************)
(* Billing after the completion's commit (consumeGrantHours, see           *)
(* MeetingBilling); a call that throws or dies leaves no ledger row.         *)
(***************************************************************************)
Bill(m) ==
  /\ m \in billing
  /\ billing' = billing \ {m}
  /\ ledger' = ledger \cup {m}
  /\ UNCHANGED <<row, bbb, work, reqs, recon>>

BillingFails(m) ==
  /\ m \in billing
  /\ billing' = billing \ {m}
  /\ UNCHANGED <<row, bbb, work, reqs, recon, ledger>>

(***************************************************************************)
(* The reconciliation task: its passes run concurrently, every 5 minutes.  *)
(***************************************************************************)

\* mutant: the join is inverted, only billed rows are replayed
ReconcilePendingBilling_Inverted(m) ==
  /\ state[m] = "Completed" /\ m \in ledger \ billing
  /\ billing' = billing \cup {m}
  /\ UNCHANGED <<row, bbb, work, reqs, recon, ledger>>

\* reconcilePendingBilling: Completed with no ledger row (a second call in
\* flight for the same row is the subject of MeetingBilling)
ReconcilePendingBilling(m) ==
  /\ state[m] = "Completed" /\ m \notin ledger \cup billing
  /\ billing' = billing \cup {m}
  /\ UNCHANGED <<row, bbb, work, reqs, recon, ledger>>

\* mutant: the timeout is shorter than a worker may take
InWorker_Never(m) == m \notin Meetings

\* A worker has m past its promotion.  It is then not past the timeout:
\* stuckProvisioningTimeoutMs (5 min) exceeds any worker's /create calls
\* (10 s each, every server tried once).
InWorker(m) == \E w \in Workers : /\ worker[w].m = m
                                  /\ worker[w].pc \in {"promoted", "created"}

\* mutant: rows that were retried once are not looked at again
FindStuck_Once(S) ==
  /\ stuck = {} /\ S # {}
  /\ \A m \in S : /\ state[m] = "Provisioning" /\ retry[m] = 0
                 /\ ~InWorker(m)
  /\ stuck' = {<<m, retry[m]>> : m \in S}
  /\ UNCHANGED <<row, bbb, work, reqs, remote, bills>>

\* reconcileProvisioning reads the rows that timed out ...
FindStuck(S) ==
  /\ stuck = {} /\ S # {}
  /\ \A m \in S : state[m] = "Provisioning" /\ ~InWorker(m)
  /\ stuck' = {<<m, retry[m]>> : m \in S}
  /\ UNCHANGED <<row, bbb, work, reqs, remote, bills>>

\* ... and writes each: Pending again (no job), or Failed
RetryStuck(m, count) ==
  /\ <<m, count>> \in stuck /\ m \notin held
  /\ stuck' = stuck \ {<<m, count>>}
  /\ retry' = [retry EXCEPT ![m] = NextRetry(count)]
  /\ state' = [state EXCEPT ![m] = IF NextRetry(count) = MaxProvisioningRetries
                                   THEN "Failed" ELSE "Pending"]
  /\ UNCHANGED <<bbb, work, reqs, remote, bills>>

\* reconcileActiveMeetings reads the Active rows past their grace period ...
FindActive(S) ==
  /\ remote = {} /\ S # {}
  /\ \A m \in S : state[m] = "Active"
  /\ remote' = S
  /\ UNCHANGED <<row, bbb, work, reqs, stuck, bills>>

\* ... and for each: past the billing ceiling it completes the meeting; when
\* BBB confirms the end it saves the row it read as Stale (grant billing),
\* over whatever the row has become; otherwise it skips it.  Its audit UPDATE
\* waits for the row first.
HandleActive(m) ==
  /\ m \in remote /\ m \notin held
  /\ remote' = remote \ {m}
  /\ \/ Complete(m)
     \/ /\ runtime[m] = "ended"
        /\ state' = [state EXCEPT ![m] = "Stale"]
        /\ UNCHANGED billing
     \/ UNCHANGED <<state, billing>>
  /\ UNCHANGED <<retry, bbb, work, reqs, stuck, ledger>>
-----------------------------------------------------------------------------
Provision(w) ==
  \/ \E m \in Meetings : TakeJob(w, m)
  \/ Promote(w)
  \/ CreateOnServer(w)
  \/ Activate(w)
  \/ FailProvisioning(w)
  \/ TellRoom(w)
  \/ WorkerCrash(w)

Reconcile ==
  \/ \E m \in Meetings : ReconcilePendingBilling(m) \/ HandleActive(m)
  \/ \E S \in SUBSET Meetings : FindStuck(S) \/ FindActive(S)
  \/ \E s \in stuck : RetryStuck(s[1], s[2])

Next ==
  \/ \E m \in Meetings : \/ CreateAndEnqueue(m)
                         \/ RuntimeEnds(m)
                         \/ MeetingEndedWebhook(m)
                         \/ StaleActiveRuntime(m)
                         \/ EndMeeting(m)
                         \/ Bill(m)
                         \/ BillingFails(m)
  \/ \E w \in Workers : Provision(w)
  \/ \E m \in Meetings : ReadForUpdate(m)
  \/ \E e \in edit : SaveUpdate(e[1], e[2], e[3])
  \/ ServerRestart
  \/ Reconcile

Spec == Init /\ [][Next]_vars

(***************************************************************************)
(* Fairness: the task runs again and again, a row that stays past the      *)
(* timeout is in what a later pass reads, and each pass writes what it     *)
(* read; a billing call that is repeated on every pass does not fail for   *)
(* ever; a server whose row locks hold everything up is restarted one day. *)
(* Nothing is assumed of users, BBB, workers, crashes or deliveries.       *)
(***************************************************************************)
Fairness ==
  /\ \A m \in Meetings :
       /\ WF_vars(ReconcilePendingBilling(m))
       /\ SF_vars(Bill(m))
       /\ SF_vars(\E S \in SUBSET Meetings : m \in S /\ FindStuck(S))
       /\ WF_vars(\E c \in 0 .. MaxProvisioningRetries : RetryStuck(m, c))
  /\ WF_vars(ServerRestart)

FairSpec == Spec /\ Fairness

(***************************************************************************)
(* What the rest of the plugin may rely on.                                *)
(***************************************************************************)
SeenState == [m \in Meetings |-> IF m \in edited THEN "Edited" ELSE state[m]]

FSM == INSTANCE MeetingFSM WITH MaxMeetings <- MaxMeetings,
                                ConcurrentMeetingLimit <- ConcurrentMeetingLimit,
                                state <- SeenState
-----------------------------------------------------------------------------
\* The type invariant: every row, job and pass is in a state the code can put
\* it in.
TypeOK ==
  /\ state \in [Meetings -> {"Absent", "Pending"} \cup Live \cup Ended]
  /\ retry \in [Meetings -> 0 .. MaxProvisioningRetries]
  /\ runtime \in [Meetings -> {"none", "running", "ended"}]
  /\ jobs \in SUBSET Meetings
  /\ worker \in [Workers -> {Resting} \cup
       [pc : {"read", "promoted", "created", "activated", "failed"}, m : Meetings]]
  /\ hooks \in SUBSET Meetings /\ held \in SUBSET Meetings
  /\ edit \in SUBSET (Meetings \X ({"Pending"} \cup Live \cup Ended)
                               \X (0 .. MaxProvisioningRetries))
  /\ edited \in SUBSET Meetings
  /\ stuck \in SUBSET (Meetings \X (0 .. MaxProvisioningRetries))
  /\ remote \in SUBSET Meetings
  /\ billing \in SUBSET Meetings /\ ledger \in SUBSET Meetings

(***************************************************************************)
(* updateBbbMeeting saves a row it read earlier and may put any state back *)
(* (README, section 5).  The invariants are about the rows it has not put  *)
(* back; such a save may come at any time, and the rows it did put back    *)
(* go on counting and being handled among the others.                      *)
(***************************************************************************)

\* The organization never has more meetings Provisioning or Active than its
\* limit, whatever the workers, crashes and the retry pass do between
\* counting and promoting (reserveProvisioningCapacity).
ConcurrencyLimit == Cardinality(LiveMeetings \ edited) <= ConcurrentMeetingLimit

\* A meeting that was billed is over: no late worker write, retry or failure
\* brings a row that has a ledger row back among the running ones.
BilledIsOver == \A m \in ledger \ edited : state[m] \in Ended

\* A row that ended stays ended, for every interleaving of workers, webhooks
\* and passes that write it from what they read earlier; only an
\* administrator's save can bring it back.
EndedForever ==
  [][\A m \in Meetings :
       state[m] \in Ended => state'[m] \in Ended \/ m \in edited']_vars

\* A job is queued or with one worker, and only for a row that was inserted.
JobHeldOnce ==
  /\ \A m \in jobs : state[m] # "Absent"
  /\ \A v, w \in Workers :
       Busy(w) => /\ worker[w].m \notin jobs
                  /\ state[worker[w].m] # "Absent"
                  /\ Busy(v) /\ worker[v].m = worker[w].m => v = w

WorkerAgrees(w) ==
  LET at == state[worker[w].m] IN
  /\ worker[w].pc = "read" => at = "Pending"
  /\ worker[w].pc \in {"promoted", "created"} => at = "Provisioning"
  /\ worker[w].pc = "activated" => at \in {"Active"} \cup Ended

PassesAgree ==
  /\ \A s \in stuck : s[1] \notin edited => /\ state[s[1]] = "Provisioning"
                                            /\ ~InWorker(s[1])
  /\ \A s, r \in stuck : r[1] = s[1] => r = s
  /\ \A m \in remote \ edited : state[m] \in {"Active"} \cup Ended

\* What a handler that was interrupted by others still knows of its row,
\* unless an administrator's save put that row back: a job is in one place
\* only, a worker's row is where the worker left it, and what a pass read has
\* at most ended since.  This is what makes the handlers' unconditional writes
\* harmless (the state check and promotion in doProvisionMeeting,
\* stuckProvisioningTimeoutMs).
HandlersAgree ==
  /\ JobHeldOnce
  /\ \A w \in Workers : worker[w].m \notin edited => WorkerAgrees(w)
  /\ PassesAgree
  /\ \A m \in billing \ edited : state[m] \in Ended

\* The rows only change as MeetingFSM says, the administrator's saves included.
FSMSpec == FSM!EditedSpec

\* Every Completed meeting gets its ledger row, though the completer may die
\* or its billing fail, unless it is overwritten as Stale or Failed
\* (reconcilePendingBilling).
CompletedGetsBilled ==
  \A m \in Meetings : state[m] = "Completed"
                     ~> m \in ledger \/ state[m] # "Completed"

\* A meeting whose worker died in mid-provisioning does not count against the
\* limit for ever (reconcileProvisioning).
StuckIsReleased ==
  \A m \in Meetings : state[m] = "Provisioning" /\ ~InWorker(m)
                     ~> state[m] # "Provisioning" \/ InWorker(m)
=============================================================================
