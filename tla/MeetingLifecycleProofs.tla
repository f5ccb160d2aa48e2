---------------------- MODULE MeetingLifecycleProofs ----------------------
(***************************************************************************)
(* MeetingLifecycle, for any number of meetings and workers and any limit: *)
(* its type invariant, that it implements MeetingFSM, from which the       *)
(* concurrency limit follows, that what ended stays ended and that what    *)
(* was billed is over, except where an administrator's save of an old copy *)
(* put a row back.                                                         *)
(*                                                                         *)
(* The inductive invariant is HandlersAgree: Activate, FailProvisioning,   *)
(* RetryStuck and HandleActive write rows unconditionally, so what they    *)
(* may overwrite follows only from where their handlers stand.             *)
(***************************************************************************)
EXTENDS MeetingLifecycle, FiniteSetTheorems, TLAPS

Rows      == {"Absent", "Pending"} \cup Live \cup Ended
Handling  == [pc : {"read", "promoted", "created", "activated", "failed"}, m : Meetings]

-----------------------------------------------------------------------------
\* The retry counter stays within its bound.
LEMMA NextRetryType ==
  ASSUME NEW n \in 0 .. MaxProvisioningRetries
  PROVE  NextRetry(n) \in 0 .. MaxProvisioningRetries
BY ConstantsAssumption DEF NextRetry

\* A worker that is not idle has a meeting.
LEMMA BusyHas ==
  ASSUME TypeOK, NEW w \in Workers, worker[w].pc # "idle"
  PROVE  worker[w] \in Handling /\ worker[w].m \in Meetings
BY DEF TypeOK, Handling, Resting

\* The step of a worker that goes on with its meeting, or lets go of it.
LEMMA WorkerMoves ==
  ASSUME TypeOK, NEW w \in Workers, worker[w].pc # "idle",
         NEW to \in {"read", "promoted", "created", "activated", "failed"}
  PROVE  [worker EXCEPT ![w].pc = to] \in [Workers -> {Resting} \cup Handling]
<1>1. worker \in [Workers -> {Resting} \cup Handling]
  BY DEF TypeOK, Handling
<1>2. [worker[w] EXCEPT !.pc = to] \in Handling
  BY BusyHas DEF Handling
<1> QED
  BY <1>1, <1>2

\* The initial values are well formed.
LEMMA TypeInitial == Init => TypeOK
BY ConstantsAssumption DEF Init, TypeOK, Live, Ended

\* A completion leaves a well-formed row.
LEMMA CompleteType ==
  ASSUME TypeOK, NEW m \in Meetings, Complete(m)
  PROVE  /\ state' \in [Meetings -> Rows]
         /\ billing' \in SUBSET Meetings
BY DEF TypeOK, Complete, Rows, Ended

\* Every action keeps rows, jobs and passes well formed.
LEMMA TypeInductive == TypeOK /\ [Next]_vars => TypeOK'
<1> SUFFICES ASSUME TypeOK, [Next]_vars PROVE TypeOK'
  OBVIOUS
<1> USE DEF row, work, bbb, recon, bills, reqs
<1>1. ASSUME NEW m \in Meetings, CreateAndEnqueue(m) PROVE TypeOK'
  BY <1>1 DEF TypeOK, CreateAndEnqueue
<1>2. ASSUME NEW m \in Meetings, RuntimeEnds(m) PROVE TypeOK'
  BY <1>2 DEF TypeOK, RuntimeEnds
<1>3. ASSUME NEW m \in Meetings, MeetingEndedWebhook(m) PROVE TypeOK'
  BY <1>3, CompleteType DEF TypeOK, MeetingEndedWebhook, Rows
<1>4. ASSUME NEW m \in Meetings, StaleActiveRuntime(m) PROVE TypeOK'
  BY <1>4, CompleteType DEF TypeOK, StaleActiveRuntime, Rows
<1>5. ASSUME NEW m \in Meetings, EndMeeting(m) PROVE TypeOK'
  BY <1>5 DEF TypeOK, EndMeeting
<1>6. ASSUME NEW m \in Meetings, Bill(m) PROVE TypeOK'
  BY <1>6 DEF TypeOK, Bill
<1>7. ASSUME NEW m \in Meetings, BillingFails(m) PROVE TypeOK'
  BY <1>7 DEF TypeOK, BillingFails
<1>8. ASSUME NEW w \in Workers, NEW m \in Meetings, TakeJob(w, m) PROVE TypeOK'
  <2>1. [pc |-> "read", m |-> m] \in Handling
    BY DEF Handling
  <2> QED
    BY <1>8, <2>1 DEF TypeOK, TakeJob, Handling
<1>9. ASSUME NEW w \in Workers, Promote(w) PROVE TypeOK'
  <2>1. worker' \in [Workers -> {Resting} \cup Handling]
    <3>1. CASE worker' = [worker EXCEPT ![w].pc = "promoted"]
      BY <1>9, <3>1, WorkerMoves DEF Promote
    <3>2. CASE worker' = [worker EXCEPT ![w] = Resting]
      BY <3>2 DEF TypeOK, Handling
    <3> QED
      BY <1>9, <3>1, <3>2 DEF Promote
  <2>2. state' \in [Meetings -> Rows]
    BY <1>9, BusyHas DEF TypeOK, Promote, Rows, Live
  <2> QED
    BY <1>9, <2>1, <2>2 DEF TypeOK, Promote, Rows, Handling
<1>10. ASSUME NEW w \in Workers, CreateOnServer(w) PROVE TypeOK'
  <2>1. worker' \in [Workers -> {Resting} \cup Handling]
    BY <1>10, WorkerMoves DEF CreateOnServer
  <2> QED
    BY <1>10, <2>1, BusyHas DEF TypeOK, CreateOnServer, Handling
<1>11. ASSUME NEW w \in Workers, Activate(w) PROVE TypeOK'
  <2>1. worker' \in [Workers -> {Resting} \cup Handling]
    BY <1>11, WorkerMoves DEF Activate
  <2>2. state' \in [Meetings -> Rows]
    BY <1>11, BusyHas DEF TypeOK, Activate, Rows, Live
  <2> QED
    BY <1>11, <2>1, <2>2 DEF TypeOK, Activate, Rows, Handling
<1>12. ASSUME NEW w \in Workers, FailProvisioning(w) PROVE TypeOK'
  <2>1. worker' \in [Workers -> {Resting} \cup Handling]
    BY <1>12, WorkerMoves DEF FailProvisioning
  <2>2. state' \in [Meetings -> Rows]
    BY <1>12, BusyHas DEF TypeOK, FailProvisioning, Rows, Ended
  <2>3. retry' \in [Meetings -> 0 .. MaxProvisioningRetries]
    BY <1>12, BusyHas, NextRetryType DEF TypeOK, FailProvisioning
  <2> QED
    BY <1>12, <2>1, <2>2, <2>3 DEF TypeOK, FailProvisioning, Rows, Handling
<1>13. ASSUME NEW w \in Workers, TellRoom(w) PROVE TypeOK'
  BY <1>13 DEF TypeOK, TellRoom
<1>14. ASSUME NEW w \in Workers, WorkerCrash(w) PROVE TypeOK'
  BY <1>14, BusyHas DEF TypeOK, WorkerCrash, Busy
<1>15. ASSUME NEW m \in Meetings, ReadForUpdate(m) PROVE TypeOK'
  <2>1. <<m, state[m], retry[m]>>
          \in Meetings \X ({"Pending"} \cup Live \cup Ended) \X (0 .. MaxProvisioningRetries)
    BY <1>15 DEF TypeOK, ReadForUpdate
  <2> QED
    BY <1>15, <2>1 DEF TypeOK, ReadForUpdate
<1>16. ASSUME NEW e \in edit, SaveUpdate(e[1], e[2], e[3]) PROVE TypeOK'
  <2>1. e[1] \in Meetings /\ e[2] \in Rows /\ e[3] \in 0 .. MaxProvisioningRetries
    BY <1>16 DEF TypeOK, Rows
  <2> QED
    BY <1>16, <2>1 DEF TypeOK, SaveUpdate, Rows
<1>17. CASE ServerRestart
  BY <1>17 DEF TypeOK, ServerRestart
<1>18. ASSUME NEW m \in Meetings, ReconcilePendingBilling(m) PROVE TypeOK'
  BY <1>18 DEF TypeOK, ReconcilePendingBilling
<1>19. ASSUME NEW m \in Meetings, HandleActive(m) PROVE TypeOK'
  <2>1. state' \in [Meetings -> Rows] /\ billing' \in SUBSET Meetings
    BY <1>19, CompleteType DEF TypeOK, HandleActive, Rows, Ended
  <2> QED
    BY <1>19, <2>1 DEF TypeOK, HandleActive, Rows
<1>20. ASSUME NEW S \in SUBSET Meetings, FindStuck(S) PROVE TypeOK'
  BY <1>20 DEF TypeOK, FindStuck
<1>21. ASSUME NEW S \in SUBSET Meetings, FindActive(S) PROVE TypeOK'
  BY <1>21 DEF TypeOK, FindActive
<1>22. ASSUME NEW s \in stuck, RetryStuck(s[1], s[2]) PROVE TypeOK'
  <2>1. s[1] \in Meetings /\ s[2] \in 0 .. MaxProvisioningRetries
    BY <1>22 DEF TypeOK
  <2>2. state' \in [Meetings -> Rows]
    BY <1>22, <2>1 DEF TypeOK, RetryStuck, Rows, Ended
  <2>3. retry' \in [Meetings -> 0 .. MaxProvisioningRetries]
    BY <1>22, <2>1, NextRetryType DEF TypeOK, RetryStuck
  <2> QED
    BY <1>22, <2>2, <2>3 DEF TypeOK, RetryStuck, Rows
<1>23. CASE UNCHANGED vars
  BY <1>23 DEF TypeOK, vars
<1> QED
  BY <1>1, <1>2, <1>3, <1>4, <1>5, <1>6, <1>7, <1>8, <1>9, <1>10, <1>11, <1>12,
     <1>13, <1>14, <1>15, <1>16, <1>17, <1>18, <1>19, <1>20, <1>21, <1>22, <1>23
     DEF Next, Provision, Reconcile

\* Every row, job and pass stays in a state the code can put it in, whatever
\* administrators save meanwhile.
THEOREM TypeCorrect == Spec => []TypeOK
BY TypeInitial, TypeInductive, PTL DEF Spec

-----------------------------------------------------------------------------
(***************************************************************************)
(* The inductive invariant.                                                *)
(***************************************************************************)
EditedExist ==
  /\ \A m \in edited : state[m] # "Absent"
  /\ \A e \in edit : state[e[1]] # "Absent"

IInv == TypeOK /\ HandlersAgree /\ BilledIsOver /\ EditedExist

Over(m) == state[m] \in {"Active"} \cup Ended

\* Steps that leave rows, jobs and workers alone.
LEMMA QuietKeeps ==
  ASSUME IInv, UNCHANGED <<state, jobs, worker, stuck, edited>>,
         \A m \in remote' \ edited : Over(m),
         \A m \in (billing' \cup ledger') \ edited : state[m] \in Ended
  PROVE  HandlersAgree' /\ BilledIsOver'
BY DEF IInv, HandlersAgree, BilledIsOver, JobHeldOnce, WorkerAgrees, PassesAgree,
       InWorker, Busy, Over

\* Steps that end, or end again, a row that is Active or over.
LEMMA EndingKeeps ==
  ASSUME IInv, NEW m \in Meetings, m \notin edited => Over(m), NEW to \in Ended,
         state' = [state EXCEPT ![m] = to],
         UNCHANGED <<jobs, worker, stuck, ledger, edited>>,
         remote' \subseteq remote, billing' \subseteq billing \cup {m}
  PROVE  HandlersAgree' /\ BilledIsOver'
<1>1. state'[m] = to /\ \A n \in Meetings \ {m} : state'[n] = state[n]
  BY DEF IInv, TypeOK
<1>2. JobHeldOnce'
  BY <1>1 DEF IInv, TypeOK, HandlersAgree, JobHeldOnce, Busy, Ended
<1>3. ASSUME NEW w \in Workers, worker'[w].m \notin edited' PROVE WorkerAgrees(w)'
  BY <1>1, <1>3, BusyHas DEF IInv, HandlersAgree, WorkerAgrees, Over, Ended
<1>4. PassesAgree'
  BY <1>1 DEF IInv, TypeOK, HandlersAgree, PassesAgree, InWorker, Over, Ended
<1>5. BilledIsOver' /\ \A n \in billing' \ edited' : state'[n] \in Ended
  BY <1>1 DEF IInv, TypeOK, HandlersAgree, BilledIsOver
<1> QED
  BY <1>2, <1>3, <1>4, <1>5 DEF HandlersAgree

\* A completion that took the lock saw the row Active, or did nothing.
LEMMA CompleteKeeps ==
  ASSUME IInv, NEW m \in Meetings, Complete(m),
         UNCHANGED <<jobs, worker, stuck, ledger, edited>>, remote' \subseteq remote
  PROVE  HandlersAgree' /\ BilledIsOver'
<1>1. CASE state[m] = "Active"
  BY <1>1, EndingKeeps DEF Complete, Over, Ended
<1>2. CASE state[m] # "Active"
  BY <1>2, QuietKeeps
     DEF Complete, IInv, HandlersAgree, PassesAgree, BilledIsOver, Over
<1> QED
  BY <1>1, <1>2

\* It holds before the first row is inserted.
LEMMA IInvInitial == Init => IInv
<1> SUFFICES ASSUME Init PROVE IInv
  OBVIOUS
<1>1. HandlersAgree
  BY DEF Init, Resting, HandlersAgree, JobHeldOnce, WorkerAgrees, PassesAgree, Busy
<1> QED
  BY <1>1, TypeInitial DEF Init, IInv, BilledIsOver, EditedExist

(***************************************************************************)
(* Each action keeps it.                                                   *)
(***************************************************************************)
\* A row is inserted under a number no handler knows yet.
LEMMA InsertKeeps ==
  ASSUME IInv, NEW m \in Meetings, CreateAndEnqueue(m)
  PROVE  HandlersAgree' /\ BilledIsOver'
<1> USE DEF CreateAndEnqueue, IsNext, row, work, bbb, recon, bills, reqs
<1>1. /\ state'[m] = "Pending"
      /\ \A n \in Meetings \ {m} : state'[n] = state[n]
      /\ state[m] = "Absent"
  BY DEF IInv, TypeOK
<1>2. JobHeldOnce'
  BY <1>1, BusyHas DEF IInv, TypeOK, HandlersAgree, JobHeldOnce, Busy
<1>3. ASSUME NEW w \in Workers, worker'[w].m \notin edited' PROVE WorkerAgrees(w)'
  BY <1>1, <1>3, BusyHas DEF IInv, HandlersAgree, WorkerAgrees, Ended
<1>4. PassesAgree'
  BY <1>1 DEF IInv, TypeOK, HandlersAgree, PassesAgree, InWorker, Ended
<1>5. BilledIsOver' /\ \A n \in billing' \ edited' : state'[n] \in Ended
  BY <1>1 DEF IInv, TypeOK, HandlersAgree, BilledIsOver, Ended
<1> QED
  BY <1>2, <1>3, <1>4, <1>5 DEF HandlersAgree

\* A job moves from the queue to one worker, which sees its row Pending.
LEMMA TakeJobKeeps ==
  ASSUME IInv, NEW v \in Workers, NEW m \in Meetings, TakeJob(v, m)
  PROVE  HandlersAgree' /\ BilledIsOver'
<1> USE DEF TakeJob, row, work, bbb, recon, bills, reqs
<1>1. /\ worker'[v] = IF state[m] = "Pending" THEN [pc |-> "read", m |-> m] ELSE worker[v]
      /\ \A w \in Workers \ {v} : worker'[w] = worker[w]
  BY DEF IInv, TypeOK
<1>2. JobHeldOnce'
  BY <1>1, BusyHas DEF IInv, TypeOK, HandlersAgree, JobHeldOnce, Busy
<1>3. ASSUME NEW w \in Workers, worker'[w].m \notin edited' PROVE WorkerAgrees(w)'
  BY <1>1, <1>3 DEF IInv, HandlersAgree, WorkerAgrees
<1>4. PassesAgree'
  BY <1>1 DEF IInv, TypeOK, HandlersAgree, PassesAgree, InWorker
<1> QED
  BY <1>2, <1>3, <1>4 DEF IInv, HandlersAgree, BilledIsOver

\* The holder v of a row goes on, or lets go of it, and may change its state;
\* no other handler's row is touched.
LEMMA HolderKeeps ==
  ASSUME IInv, NEW v \in Workers, worker[v].pc # "idle",
         UNCHANGED <<stuck, remote, billing, ledger, edited>>,
         \A w \in Workers \ {v} : worker'[w] = worker[w],
         \/ worker'[v].m = worker[v].m /\ jobs' = jobs
         \/ worker'[v].pc = "idle" /\ jobs' \subseteq jobs \cup {worker[v].m},
         \A n \in Meetings \ {worker[v].m} : state'[n] = state[n],
         state'[worker[v].m] # "Absent",
         worker[v].m \notin edited =>
           /\ WorkerAgrees(v)'
           /\ state'[worker[v].m] # state[worker[v].m] =>
                \/ state[worker[v].m] = "Pending"
                \/ /\ worker[v].pc \in {"promoted", "created", "activated"}
                   /\ \/ state'[worker[v].m] \in Ended
                      \/ worker[v].pc = "created" /\ state'[worker[v].m] = "Active",
         worker'[v].pc \in {"promoted", "created"} =>
            worker[v].pc \in {"read", "promoted"}
  PROVE  HandlersAgree' /\ BilledIsOver'
<1> DEFINE n == worker[v].m
<1>0. n \in Meetings
  BY BusyHas DEF IInv
<1>1. JobHeldOnce'
  BY <1>0, BusyHas DEF IInv, TypeOK, HandlersAgree, JobHeldOnce, Busy
<1>2. ASSUME NEW w \in Workers, worker'[w].m \notin edited' PROVE WorkerAgrees(w)'
  <2>1. CASE w = v
    <3>1. CASE worker'[v].pc = "idle"
      BY <2>1, <3>1 DEF WorkerAgrees
    <3> QED
      BY <1>2, <2>1, <3>1
  <2>2. CASE w # v
    BY <1>2, <2>2, BusyHas DEF IInv, HandlersAgree, JobHeldOnce, Busy, WorkerAgrees
  <2> QED
    BY <2>1, <2>2
<1>3. ASSUME NEW s \in stuck, s[1] \notin edited
      PROVE  state'[s[1]] = "Provisioning" /\ ~InWorker(s[1])'
  <2>1. s[1] \in Meetings /\ state[s[1]] = "Provisioning" /\ ~InWorker(s[1])
    BY <1>3 DEF IInv, TypeOK, HandlersAgree, PassesAgree
  <2>2. worker[v].m = s[1] => worker[v].pc \notin {"read", "promoted", "created", "activated"}
    BY <1>3, <2>1 DEF IInv, HandlersAgree, WorkerAgrees, InWorker, Ended
  <2>3. state'[s[1]] = state[s[1]]
    BY <1>3, <2>1, <2>2
  <2>4. ~(worker'[v].m = s[1] /\ worker'[v].pc \in {"promoted", "created"})
    BY <2>2
  <2> QED
    BY <2>1, <2>3, <2>4 DEF InWorker
<1>4. ASSUME NEW k \in Meetings \ edited
      PROVE  /\ Over(k) => Over(k)'
             /\ state[k] \in Ended => state'[k] \in Ended
  BY DEF IInv, HandlersAgree, WorkerAgrees, Over, Ended
<1>5. PassesAgree'
  BY <1>3, <1>4 DEF IInv, TypeOK, HandlersAgree, PassesAgree, Over
<1> QED
  BY <1>1, <1>2, <1>4, <1>5 DEF IInv, TypeOK, HandlersAgree, BilledIsOver

\* The row a worker promotes is still Pending.
LEMMA PromoteKeeps ==
  ASSUME IInv, NEW v \in Workers, Promote(v)
  PROVE  HandlersAgree' /\ BilledIsOver'
<1> USE DEF Promote, row, work, bbb, recon, bills, reqs
<1>1. /\ worker[v].m \in Meetings /\ worker[v].pc = "read"
      /\ state[worker[v].m] # "Absent"
      /\ worker[v].m \notin edited => state[worker[v].m] = "Pending"
  BY BusyHas DEF IInv, HandlersAgree, WorkerAgrees, JobHeldOnce, Busy
<1>2. CASE /\ state' = [state EXCEPT ![worker[v].m] = "Provisioning"]
           /\ worker' = [worker EXCEPT ![v].pc = "promoted"]
  <2>1. /\ \A w \in Workers \ {v} : worker'[w] = worker[w]
        /\ worker'[v].pc = "promoted" /\ worker'[v].m = worker[v].m
    BY <1>2, BusyHas DEF IInv, TypeOK
  <2>2. /\ \A n \in Meetings \ {worker[v].m} : state'[n] = state[n]
        /\ state'[worker[v].m] = "Provisioning"
    BY <1>1, <1>2 DEF IInv, TypeOK
  <2>3. WorkerAgrees(v)'
    BY <2>1, <2>2 DEF WorkerAgrees
  <2> QED
    BY <1>1, <2>1, <2>2, <2>3, HolderKeeps
<1>3. CASE worker' = [worker EXCEPT ![v] = Resting] /\ UNCHANGED state
  <2>1. /\ \A w \in Workers \ {v} : worker'[w] = worker[w]
        /\ worker'[v] = Resting
    BY <1>3 DEF IInv, TypeOK
  <2>2. WorkerAgrees(v)'
    BY <2>1 DEF WorkerAgrees, Resting
  <2> QED
    BY <1>1, <1>3, <2>1, <2>2, HolderKeeps DEF Resting
<1> QED
  BY <1>2, <1>3

\* BBB is called while the row is Provisioning ...
LEMMA CreateKeeps ==
  ASSUME IInv, NEW v \in Workers, CreateOnServer(v)
  PROVE  HandlersAgree' /\ BilledIsOver'
<1> USE DEF CreateOnServer, row, work, bbb, recon, bills, reqs
<1>1. /\ worker[v].m \in Meetings /\ worker[v].pc = "promoted"
      /\ state[worker[v].m] # "Absent"
      /\ worker[v].m \notin edited => state[worker[v].m] = "Provisioning"
  BY BusyHas DEF IInv, HandlersAgree, WorkerAgrees, JobHeldOnce, Busy
<1>2. /\ \A w \in Workers \ {v} : worker'[w] = worker[w]
      /\ worker'[v].pc = "created" /\ worker'[v].m = worker[v].m
  BY BusyHas DEF IInv, TypeOK
<1>3. worker[v].m \notin edited => WorkerAgrees(v)'
  BY <1>1, <1>2 DEF WorkerAgrees
<1> QED
  BY <1>1, <1>2, <1>3, HolderKeeps

\* ... and it is still Provisioning when it becomes Active.
LEMMA ActivateKeeps ==
  ASSUME IInv, NEW v \in Workers, Activate(v)
  PROVE  HandlersAgree' /\ BilledIsOver'
<1> USE DEF Activate, row, work, bbb, recon, bills, reqs
<1>1. worker[v].m \in Meetings /\ worker[v].pc = "created"
  BY BusyHas DEF IInv
<1>2. /\ \A w \in Workers \ {v} : worker'[w] = worker[w]
      /\ worker'[v].pc = "activated" /\ worker'[v].m = worker[v].m
  BY BusyHas DEF IInv, TypeOK
<1>3. /\ \A n \in Meetings \ {worker[v].m} : state'[n] = state[n]
      /\ state'[worker[v].m] = "Active"
  BY <1>1 DEF IInv, TypeOK
<1>4. WorkerAgrees(v)'
  BY <1>2, <1>3 DEF WorkerAgrees
<1> QED
  BY <1>1, <1>2, <1>3, <1>4, HolderKeeps

\* A worker fails its own row only.
LEMMA FailKeeps ==
  ASSUME IInv, NEW v \in Workers, FailProvisioning(v)
  PROVE  HandlersAgree' /\ BilledIsOver'
<1> USE DEF FailProvisioning, row, work, bbb, recon, bills, reqs
<1>1. /\ worker[v].m \in Meetings
      /\ worker[v].pc \in {"promoted", "created", "activated"}
  BY BusyHas DEF IInv
<1>2. /\ \A w \in Workers \ {v} : worker'[w] = worker[w]
      /\ worker'[v].pc = "failed" /\ worker'[v].m = worker[v].m
  BY BusyHas DEF IInv, TypeOK
<1>3. /\ \A n \in Meetings \ {worker[v].m} : state'[n] = state[n]
      /\ state'[worker[v].m] = "Failed"
  BY <1>1 DEF IInv, TypeOK
<1>4. WorkerAgrees(v)'
  BY <1>2, <1>3 DEF WorkerAgrees
<1> QED
  BY <1>1, <1>2, <1>3, <1>4, HolderKeeps DEF Ended

\* A worker that is done, or dies, leaves its row as it is.
LEMMA LettingGoKeeps ==
  ASSUME IInv, NEW v \in Workers, worker[v].pc # "idle",
         UNCHANGED <<state, stuck, remote, billing, ledger, edited>>,
         worker' = [worker EXCEPT ![v] = Resting],
         jobs' \subseteq jobs \cup {worker[v].m}
  PROVE  HandlersAgree' /\ BilledIsOver'
<1>1. /\ \A w \in Workers \ {v} : worker'[w] = worker[w]
      /\ worker'[v] = Resting
  BY DEF IInv, TypeOK
<1>2. WorkerAgrees(v)'
  BY <1>1 DEF WorkerAgrees, Resting
<1>3. state[worker[v].m] # "Absent"
  BY DEF IInv, HandlersAgree, JobHeldOnce, Busy
<1> QED
  BY <1>1, <1>2, <1>3, HolderKeeps DEF Resting

\* What the pass reads as stuck is Provisioning and nobody's.
LEMMA FindStuckKeeps ==
  ASSUME IInv, NEW S \in SUBSET Meetings, FindStuck(S)
  PROVE  HandlersAgree' /\ BilledIsOver'
<1> USE DEF FindStuck, row, work, bbb, recon, bills, reqs
<1>1. PassesAgree'
  BY DEF IInv, HandlersAgree, PassesAgree, InWorker
<1> QED
  BY <1>1 DEF IInv, HandlersAgree, JobHeldOnce, Busy, WorkerAgrees, BilledIsOver

\* It still is when the pass puts it back or fails it.
LEMMA RetryKeeps ==
  ASSUME IInv, NEW s \in stuck, RetryStuck(s[1], s[2])
  PROVE  HandlersAgree' /\ BilledIsOver'
<1> USE DEF RetryStuck, row, work, bbb, recon, bills, reqs
<1>1. /\ s[1] \in Meetings
      /\ s[1] \notin edited => state[s[1]] = "Provisioning" /\ ~InWorker(s[1])
      /\ \A r \in stuck : r[1] = s[1] => r = s
  BY DEF IInv, TypeOK, HandlersAgree, PassesAgree
<1>2. /\ \A n \in Meetings \ {s[1]} : state'[n] = state[n]
      /\ state'[s[1]] \in {"Pending", "Failed"}
  BY <1>1 DEF IInv, TypeOK
<1>3. s = <<s[1], s[2]>>
  BY DEF IInv, TypeOK
<1>4. JobHeldOnce'
  BY <1>2, BusyHas DEF IInv, TypeOK, HandlersAgree, JobHeldOnce, Busy
<1>5. ASSUME NEW w \in Workers, worker'[w].m \notin edited' PROVE WorkerAgrees(w)'
  <2>1. WorkerAgrees(w)
    BY <1>5 DEF IInv, HandlersAgree
  <2>2. CASE worker[w].pc = "idle" \/ worker[w].m # s[1]
    BY <1>2, <2>1, <2>2, BusyHas DEF IInv, WorkerAgrees
  <2>3. CASE worker[w].m = s[1]
    BY <1>1, <1>5, <2>1, <2>3 DEF WorkerAgrees, InWorker, Ended
  <2> QED
    BY <2>2, <2>3
<1>6. PassesAgree'
  BY <1>1, <1>2, <1>3 DEF IInv, TypeOK, HandlersAgree, PassesAgree, InWorker, Ended
<1>7. BilledIsOver' /\ \A n \in billing' \ edited' : state'[n] \in Ended
  BY <1>1, <1>2 DEF IInv, TypeOK, HandlersAgree, BilledIsOver, Ended
<1> QED
  BY <1>4, <1>5, <1>6, <1>7 DEF HandlersAgree

\* What an administrator's save changes is an edited row from then on; a save
\* that finds the state it read changes none.
LEMMA SaveKeeps ==
  ASSUME IInv, NEW e \in edit, SaveUpdate(e[1], e[2], e[3])
  PROVE  HandlersAgree' /\ BilledIsOver'
<1> USE DEF SaveUpdate, row, work, bbb, recon, bills, reqs
<1>1. e[1] \in Meetings /\ e[2] # "Absent"
  BY DEF IInv, TypeOK, Live, Ended
<1>2. /\ state'[e[1]] = e[2]
      /\ \A n \in Meetings \ {e[1]} : state'[n] = state[n]
  BY <1>1 DEF IInv, TypeOK
<1>3. edited \subseteq edited' /\ \A n \in Meetings \ edited' : state'[n] = state[n]
  BY <1>1, <1>2
<1>4. JobHeldOnce'
  BY <1>1, <1>2, BusyHas DEF IInv, TypeOK, HandlersAgree, JobHeldOnce, Busy
<1>5. ASSUME NEW w \in Workers, worker'[w].m \notin edited' PROVE WorkerAgrees(w)'
  BY <1>3, <1>5, BusyHas DEF IInv, HandlersAgree, WorkerAgrees
<1>6. PassesAgree'
  BY <1>3 DEF IInv, TypeOK, HandlersAgree, PassesAgree, InWorker
<1>7. BilledIsOver' /\ \A n \in billing' \ edited' : state'[n] \in Ended
  BY <1>3 DEF IInv, TypeOK, HandlersAgree, BilledIsOver
<1> QED
  BY <1>4, <1>5, <1>6, <1>7 DEF HandlersAgree

\* No row is deleted.
LEMMA RowsStay ==
  ASSUME IInv, [Next]_vars
  PROVE  \A m \in Meetings : state[m] # "Absent" => state'[m] # "Absent"
<1> USE DEF IInv, TypeOK, row, work, bbb, recon, bills, reqs
<1> DEFINE Stay == \A m \in Meetings : state[m] # "Absent" => state'[m] # "Absent"
<1>1. ASSUME NEW m \in Meetings,
             \/ CreateAndEnqueue(m) \/ RuntimeEnds(m) \/ MeetingEndedWebhook(m)
             \/ StaleActiveRuntime(m) \/ EndMeeting(m) \/ Bill(m) \/ BillingFails(m)
             \/ ReadForUpdate(m) \/ ReconcilePendingBilling(m) \/ HandleActive(m)
      PROVE  Stay
  BY <1>1 DEF CreateAndEnqueue, RuntimeEnds, MeetingEndedWebhook, StaleActiveRuntime,
              EndMeeting, Bill, BillingFails, ReadForUpdate, ReconcilePendingBilling,
              HandleActive, Complete
<1>2. ASSUME NEW w \in Workers, Provision(w) PROVE Stay
  BY <1>2 DEF Provision, TakeJob, Promote, CreateOnServer, Activate, FailProvisioning,
              TellRoom, WorkerCrash
<1>3. ASSUME NEW e \in edit, SaveUpdate(e[1], e[2], e[3]) PROVE Stay
  BY <1>3 DEF SaveUpdate, Live, Ended
<1>4. ASSUME NEW s \in stuck, RetryStuck(s[1], s[2]) PROVE Stay
  BY <1>4 DEF RetryStuck
<1>5. ASSUME NEW S \in SUBSET Meetings, FindStuck(S) \/ FindActive(S) PROVE Stay
  BY <1>5 DEF FindStuck, FindActive
<1>6. CASE ServerRestart \/ UNCHANGED vars
  BY <1>6 DEF ServerRestart, vars
<1> QED
  BY <1>1, <1>2, <1>3, <1>4, <1>5, <1>6 DEF Next, Reconcile

\* What was put back is never forgotten.
LEMMA EditedGrows ==
  ASSUME IInv, [Next]_vars
  PROVE  /\ \/ edited' = edited
            \/ \E e \in edit : /\ SaveUpdate(e[1], e[2], e[3])
                               /\ edited' = edited \cup {e[1]}
         /\ edit' \subseteq edit \/ \E m \in Meetings : ReadForUpdate(m)
BY DEF Next, Provision, Reconcile, CreateAndEnqueue, RuntimeEnds,
       MeetingEndedWebhook, StaleActiveRuntime, EndMeeting, Bill, BillingFails,
       ReadForUpdate, SaveUpdate, ReconcilePendingBilling, HandleActive, TakeJob, Promote,
       CreateOnServer, Activate, FailProvisioning, TellRoom, WorkerCrash, RetryStuck,
       FindStuck, FindActive, ServerRestart, vars, reqs

\* The rows an administrator's save put back are rows.
LEMMA EditedStay ==
  ASSUME IInv, [Next]_vars
  PROVE  EditedExist'
<1>1. \A m \in edited : state'[m] # "Absent"
  BY RowsStay DEF IInv, TypeOK, EditedExist
<1>2. ASSUME NEW e \in edit, SaveUpdate(e[1], e[2], e[3])
      PROVE  state'[e[1]] # "Absent"
  BY <1>2 DEF IInv, TypeOK, SaveUpdate, Live, Ended
<1>3. \A m \in edited' : state'[m] # "Absent"
  <2>1. CASE edited' = edited
    BY <1>1, <2>1
  <2>2. ASSUME NEW e \in edit, SaveUpdate(e[1], e[2], e[3]), edited' = edited \cup {e[1]}
        PROVE  \A m \in edited' : state'[m] # "Absent"
    BY <1>1, <1>2, <2>2
  <2>3. \/ edited' = edited
        \/ \E e \in edit : SaveUpdate(e[1], e[2], e[3]) /\ edited' = edited \cup {e[1]}
    BY EditedGrows
  <2> QED
    BY <2>1, <2>2, <2>3
<1>4. CASE edit' \subseteq edit
  <2>1. \A e \in edit : e[1] \in Meetings /\ state[e[1]] # "Absent"
    BY DEF IInv, TypeOK, EditedExist
  <2> QED
    BY <1>3, <1>4, <2>1, RowsStay DEF EditedExist
<1>5. ASSUME NEW m \in Meetings, ReadForUpdate(m) PROVE \A e \in edit' : state'[e[1]] # "Absent"
  BY <1>5 DEF ReadForUpdate, row
<1> QED
  BY <1>3, <1>4, <1>5, EditedGrows DEF EditedExist

\* The inductive step.
LEMMA HandlersInductive ==
  ASSUME IInv, [Next]_vars
  PROVE  IInv'
<1> USE DEF row, work, bbb, recon, bills, reqs
<1> DEFINE Keeps == HandlersAgree' /\ BilledIsOver'
<1>0. /\ TypeOK /\ BilledIsOver
      /\ \A m \in remote \ edited : Over(m)
      /\ \A m \in billing \ edited : state[m] \in Ended
  BY DEF IInv, HandlersAgree, PassesAgree, Over
<1>1. ASSUME NEW m \in Meetings, CreateAndEnqueue(m) PROVE Keeps
  BY <1>0, <1>1, InsertKeeps DEF CreateAndEnqueue
<1>2. ASSUME NEW m \in Meetings, RuntimeEnds(m) \/ EndMeeting(m) PROVE Keeps
  BY <1>0, <1>2, QuietKeeps DEF RuntimeEnds, EndMeeting, BilledIsOver
<1>3. ASSUME NEW m \in Meetings, MeetingEndedWebhook(m) \/ StaleActiveRuntime(m) PROVE Keeps
  BY <1>0, <1>3, CompleteKeeps DEF MeetingEndedWebhook, StaleActiveRuntime
<1>4. ASSUME NEW m \in Meetings, Bill(m) \/ BillingFails(m) PROVE Keeps
  BY <1>0, <1>4, QuietKeeps DEF Bill, BillingFails, BilledIsOver
<1>5. ASSUME NEW m \in Meetings, ReconcilePendingBilling(m) PROVE Keeps
  BY <1>0, <1>5, QuietKeeps DEF ReconcilePendingBilling, BilledIsOver, Ended
<1>6. ASSUME NEW w \in Workers, Provision(w) PROVE Keeps
  <2>1. ASSUME NEW m \in Meetings, TakeJob(w, m) PROVE Keeps
    BY <1>0, <2>1, TakeJobKeeps DEF TakeJob
  <2>2. CASE Promote(w)
    BY <1>0, <2>2, PromoteKeeps DEF Promote
  <2>3. CASE CreateOnServer(w)
    BY <1>0, <2>3, CreateKeeps DEF CreateOnServer
  <2>4. CASE Activate(w)
    BY <1>0, <2>4, ActivateKeeps DEF Activate
  <2>5. CASE FailProvisioning(w)
    BY <1>0, <2>5, FailKeeps DEF FailProvisioning
  <2>6. CASE TellRoom(w)
    BY <1>0, <2>6, LettingGoKeeps DEF TellRoom
  <2>7. CASE WorkerCrash(w)
    BY <1>0, <2>7, LettingGoKeeps DEF WorkerCrash, Busy
  <2> QED
    BY <1>6, <2>1, <2>2, <2>3, <2>4, <2>5, <2>6, <2>7 DEF Provision
<1>7. ASSUME NEW m \in Meetings, ReadForUpdate(m) PROVE Keeps
  BY <1>0, <1>7, QuietKeeps DEF ReadForUpdate, BilledIsOver, Over
<1>8. ASSUME ServerRestart PROVE Keeps
  BY <1>0, <1>8, QuietKeeps DEF ServerRestart, BilledIsOver
<1>9. ASSUME NEW m \in Meetings, HandleActive(m) PROVE Keeps
  <2>1. m \notin edited => Over(m)
    BY <1>0, <1>9 DEF HandleActive
  <2>2. CASE Complete(m)
    BY <1>0, <1>9, <2>2, CompleteKeeps DEF HandleActive
  <2>3. CASE state' = [state EXCEPT ![m] = "Stale"] /\ UNCHANGED billing
    BY <1>0, <1>9, <2>1, <2>3, EndingKeeps DEF HandleActive, Ended
  <2>4. CASE UNCHANGED <<state, billing>>
    BY <1>0, <1>9, <2>4, QuietKeeps DEF HandleActive, BilledIsOver, Over
  <2> QED
    BY <1>9, <2>2, <2>3, <2>4 DEF HandleActive
<1>10. ASSUME NEW S \in SUBSET Meetings, FindStuck(S) PROVE Keeps
  BY <1>0, <1>10, FindStuckKeeps DEF FindStuck
<1>11. ASSUME NEW S \in SUBSET Meetings, FindActive(S) PROVE Keeps
  BY <1>0, <1>11, QuietKeeps DEF FindActive, BilledIsOver, Over
<1>12. ASSUME NEW s \in stuck, RetryStuck(s[1], s[2]) PROVE Keeps
  BY <1>0, <1>12, RetryKeeps DEF RetryStuck
<1>13. ASSUME UNCHANGED vars PROVE Keeps
  BY <1>0, <1>13, QuietKeeps DEF vars, BilledIsOver, Over
<1>14. ASSUME NEW e \in edit, SaveUpdate(e[1], e[2], e[3]) PROVE Keeps
  BY <1>14, SaveKeeps
<1>15. Keeps
  BY <1>0, <1>1, <1>2, <1>3, <1>4, <1>5, <1>6, <1>7, <1>8, <1>9, <1>10, <1>11,
     <1>12, <1>13, <1>14 DEF Next, Reconcile
<1> QED
  BY <1>0, <1>15, TypeInductive, EditedStay DEF IInv

\* The abstraction counts as the specification does, except for what an
\* administrator's save put back.
LEMMA SameCount == \A S : FSM!Cardinality(S) = Cardinality(S)
BY DEF FSM!Cardinality, Cardinality

LEMMA SeenAt ==
  /\ \A m \in Meetings : SeenState[m] = IF m \in edited THEN "Edited" ELSE state[m]
  /\ FSM!LiveMeetings = LiveMeetings \ edited
BY DEF SeenState, FSM!LiveMeetings, LiveMeetings, FSM!Meetings, Meetings, FSM!Live, Live

\* What a step changes of a row that was put back is not seen.
LEMMA SeenGoes ==
  ASSUME IInv, NEW m \in Meetings, NEW to, state' = [state EXCEPT ![m] = to],
         edited' = edited
  PROVE  IF m \in edited THEN SeenState' = SeenState ELSE FSM!Goes(m, to)
BY DEF IInv, TypeOK, SeenState, FSM!Goes

\* There are finitely many meetings, and fewer live ones without the edited.
LEMMA FewerSeen ==
  /\ Cardinality(LiveMeetings) \in Nat /\ Cardinality(LiveMeetings \ edited) \in Nat
  /\ Cardinality(LiveMeetings \ edited) <= Cardinality(LiveMeetings)
<1>1. IsFiniteSet(Meetings)
  BY FS_Interval, ConstantsAssumption DEF Meetings
<1>2. IsFiniteSet(LiveMeetings)
  BY <1>1, FS_Subset DEF LiveMeetings
<1> QED
  BY <1>2, FS_Subset, FS_CardinalityType

\* What every step does to the rows, from the invariant: a change MeetingFSM
\* allows.
LEMMA StepsAsFSM ==
  ASSUME IInv, [Next]_vars
  PROVE  [FSM!EditedNext]_SeenState
<1> USE DEF row, work, bbb, recon, bills, reqs
<1> DEFINE Steps == [FSM!EditedNext]_SeenState
<1>0. Meetings = FSM!Meetings /\ Live = FSM!Live /\ Ended = FSM!Ended
  BY DEF Meetings, FSM!Meetings, Live, FSM!Live, Ended, FSM!Ended
<1>a. ASSUME UNCHANGED <<state, edited>> PROVE Steps
  BY <1>a DEF SeenState
<1>b. ASSUME NEW m \in Meetings,
             \/ FSM!Insert(m) \/ FSM!Promote(m) \/ FSM!Activate(m) \/ FSM!Complete(m)
             \/ FSM!Retry(m) \/ FSM!GoStale(m) \/ FSM!Fail(m) \/ FSM!Edit(m)
      PROVE  Steps
  BY <1>0, <1>b DEF FSM!EditedNext, FSM!FSMNext
<1>1. ASSUME NEW m \in Meetings, CreateAndEnqueue(m) PROVE Steps
  <2>1. m \notin edited
    BY <1>1 DEF CreateAndEnqueue, IsNext, IInv, EditedExist
  <2>2. FSM!Goes(m, "Pending")
    BY <1>1, <2>1, SeenGoes DEF CreateAndEnqueue
  <2>3. \A n \in 1 .. m-1 : n \in Meetings
    BY ConstantsAssumption DEF Meetings
  <2>4. FSM!IsNext(m)
    BY <1>0, <1>1, <2>1, <2>3, SeenAt DEF CreateAndEnqueue, IsNext, FSM!IsNext
  <2> QED
    BY <1>b, <2>2, <2>4 DEF FSM!Insert
<1>2. ASSUME NEW m \in Meetings, Complete(m), edited' = edited PROVE Steps
  <2>1. CASE state[m] = "Active"
    <3>1. CASE m \in edited
      BY <1>2, <2>1, <3>1, SeenGoes DEF Complete
    <3>2. CASE m \notin edited
      <4>1. FSM!Goes(m, "Completed")
        BY <1>2, <2>1, <3>2, SeenGoes DEF Complete
      <4> QED
        BY <1>b, <2>1, <3>2, <4>1, SeenAt DEF FSM!Complete
    <3> QED
      BY <3>1, <3>2
  <2>2. CASE state[m] # "Active"
    BY <1>2, <1>a, <2>2 DEF Complete
  <2> QED
    BY <2>1, <2>2
<1>3. ASSUME NEW w \in Workers, Promote(w) PROVE Steps
  <2> DEFINE m == worker[w].m
  <2>1. /\ m \in Meetings
        /\ m \notin edited => state[m] = "Pending"
    BY <1>3, BusyHas DEF Promote, IInv, HandlersAgree, WorkerAgrees
  <2>2. CASE UNCHANGED state
    BY <1>3, <1>a, <2>2 DEF Promote
  <2>3. CASE state' = [state EXCEPT ![m] = "Provisioning"]
    <3>1. Cardinality(LiveMeetings) < ConcurrentMeetingLimit \/ UNCHANGED state
      BY <1>3 DEF Promote
    <3>2. CASE m \in edited
      BY <1>3, <2>1, <2>3, <3>2, SeenGoes DEF Promote
    <3>3. CASE m \notin edited /\ Cardinality(LiveMeetings) < ConcurrentMeetingLimit
      <4>1. FSM!Goes(m, "Provisioning")
        BY <1>3, <2>1, <2>3, <3>3, SeenGoes DEF Promote
      <4>2. FSM!Cardinality(FSM!LiveMeetings) < ConcurrentMeetingLimit
        BY <3>3, FewerSeen, SeenAt, SameCount, ConstantsAssumption
      <4> QED
        BY <1>b, <2>1, <3>3, <4>1, <4>2, SeenAt DEF FSM!Promote
    <3> QED
      BY <2>2, <3>1, <3>2, <3>3
  <2> QED
    BY <1>3, <2>2, <2>3 DEF Promote
<1>4. ASSUME NEW w \in Workers, Activate(w) PROVE Steps
  <2> DEFINE m == worker[w].m
  <2>1. /\ m \in Meetings
        /\ m \notin edited => state[m] = "Provisioning"
    BY <1>4, BusyHas DEF Activate, IInv, HandlersAgree, WorkerAgrees
  <2>2. IF m \in edited THEN SeenState' = SeenState ELSE FSM!Goes(m, "Active")
    BY <1>4, <2>1, SeenGoes DEF Activate
  <2> QED
    BY <1>b, <2>1, <2>2, SeenAt DEF FSM!Activate
<1>5. ASSUME NEW w \in Workers, FailProvisioning(w) PROVE Steps
  <2> DEFINE m == worker[w].m
  <2>1. /\ m \in Meetings
        /\ m \notin edited => state[m] \in Live \cup Ended
    BY <1>5, BusyHas DEF FailProvisioning, IInv, HandlersAgree, WorkerAgrees, Live
  <2>2. IF m \in edited THEN SeenState' = SeenState ELSE FSM!Goes(m, "Failed")
    BY <1>5, <2>1, SeenGoes DEF FailProvisioning
  <2> QED
    BY <1>0, <1>b, <2>1, <2>2, SeenAt DEF FSM!Fail
<1>6. ASSUME NEW m \in Meetings, HandleActive(m) PROVE Steps
  <2>1. m \notin edited => state[m] \in {"Active"} \cup Ended
    BY <1>6 DEF HandleActive, IInv, HandlersAgree, PassesAgree
  <2>2. CASE state' = [state EXCEPT ![m] = "Stale"]
    <3>1. IF m \in edited THEN SeenState' = SeenState ELSE FSM!Goes(m, "Stale")
      BY <1>6, <2>2, SeenGoes DEF HandleActive
    <3> QED
      BY <1>0, <1>b, <2>1, <3>1, SeenAt DEF FSM!GoStale
  <2> QED
    BY <1>2, <1>6, <1>a, <2>2 DEF HandleActive
<1>7. ASSUME NEW s \in stuck, RetryStuck(s[1], s[2]) PROVE Steps
  <2>1. /\ s[1] \in Meetings
        /\ s[1] \notin edited => state[s[1]] = "Provisioning"
    BY DEF IInv, TypeOK, HandlersAgree, PassesAgree
  <2>2. ASSUME NEW to \in {"Pending", "Failed"}, state' = [state EXCEPT ![s[1]] = to]
        PROVE  Steps
    <3>1. IF s[1] \in edited THEN SeenState' = SeenState ELSE FSM!Goes(s[1], to)
      BY <1>7, <2>1, <2>2, SeenGoes DEF RetryStuck
    <3> QED
      BY <1>0, <1>b, <2>1, <3>1, SeenAt DEF FSM!Retry, FSM!Fail, Live
  <2> QED
    BY <1>7, <2>2 DEF RetryStuck
<1>8. ASSUME NEW m \in Meetings, ReadForUpdate(m) PROVE Steps
  BY <1>8, <1>a DEF ReadForUpdate
<1>9. ASSUME NEW e \in edit, SaveUpdate(e[1], e[2], e[3]) PROVE Steps
  <2>1. e[1] \in Meetings /\ e[2] # "Absent"
    BY DEF IInv, TypeOK, Live, Ended
  <2>2. CASE state[e[1]] = e[2]
    BY <1>9, <1>a, <2>1, <2>2 DEF SaveUpdate, IInv, TypeOK
  <2>3. CASE state[e[1]] # e[2]
    <3>1. SeenState' = [SeenState EXCEPT ![e[1]] = "Edited"]
      BY <1>9, <2>1, <2>3 DEF SaveUpdate, SeenState, IInv, TypeOK
    <3>2. state[e[1]] # "Absent"
      BY DEF IInv, EditedExist
    <3>3. SeenState[e[1]] # "Absent"
      BY <2>1, <3>2, SeenAt
    <3> QED
      BY <1>b, <2>1, <3>1, <3>3 DEF FSM!Edit, FSM!Goes
  <2> QED
    BY <2>2, <2>3
<1>10. ASSUME NEW m \in Meetings,
              \/ RuntimeEnds(m) \/ EndMeeting(m) \/ Bill(m) \/ BillingFails(m)
              \/ ReconcilePendingBilling(m)
       PROVE  Steps
  BY <1>10, <1>a DEF RuntimeEnds, EndMeeting, Bill, BillingFails, ReconcilePendingBilling
<1>11. ASSUME NEW m \in Meetings, MeetingEndedWebhook(m) \/ StaleActiveRuntime(m) PROVE Steps
  BY <1>2, <1>11 DEF MeetingEndedWebhook, StaleActiveRuntime
<1>12. ASSUME NEW w \in Workers, Provision(w) PROVE Steps
  BY <1>3, <1>4, <1>5, <1>12, <1>a DEF Provision, TakeJob, CreateOnServer, TellRoom, WorkerCrash
<1>13. ASSUME NEW S \in SUBSET Meetings, FindStuck(S) \/ FindActive(S) PROVE Steps
  BY <1>13, <1>a DEF FindStuck, FindActive
<1>14. CASE ServerRestart \/ UNCHANGED vars
  BY <1>14, <1>a DEF ServerRestart, vars
<1> QED
  BY <1>1, <1>6, <1>7, <1>8, <1>9, <1>10, <1>11, <1>12, <1>13, <1>14
     DEF Next, Reconcile

\* MeetingFSM never brings back what ended, unless it is edited.
LEMMA EndedStays ==
  ASSUME [FSM!EditedNext]_SeenState
  PROVE  \A m \in Meetings : SeenState[m] \in Ended => SeenState'[m] \in Ended \cup {"Edited"}
<1>0. Meetings = FSM!Meetings
  BY DEF Meetings, FSM!Meetings
<1> DEFINE Stays == \A m \in Meetings :
              SeenState[m] \in Ended => SeenState'[m] \in Ended \cup {"Edited"}
<1>1. ASSUME NEW n \in Meetings, NEW to, FSM!Goes(n, to),
             SeenState[n] \in Ended => to \in Ended \cup {"Edited"}
      PROVE  Stays
  <2>1. SeenState' = [SeenState EXCEPT ![n] = to]
    BY <1>1 DEF FSM!Goes
  <2>2. SeenState = [m \in Meetings |-> SeenState[m]]
    BY DEF SeenState
  <2> HIDE DEF SeenState
  <2> QED
    BY <1>1, <2>1, <2>2
<1>2. ASSUME NEW n \in Meetings,
             \/ FSM!Insert(n) \/ FSM!Promote(n) \/ FSM!Activate(n) \/ FSM!Complete(n)
             \/ FSM!Retry(n) \/ FSM!GoStale(n) \/ FSM!Fail(n) \/ FSM!Edit(n)
      PROVE  Stays
  BY <1>1, <1>2 DEF FSM!Insert, FSM!IsNext, FSM!Promote, FSM!Activate, FSM!Complete,
                    FSM!Retry, FSM!GoStale, FSM!Fail, FSM!Edit, Ended
<1> QED
  BY <1>0, <1>2 DEF FSM!EditedNext, FSM!FSMNext

\* What each handler was interrupted over is still as it left it, so that its
\* unconditional write is harmless, unless an administrator's save put it back.
THEOREM HandlersCorrect == Spec => []HandlersAgree
<1>1. IInv => HandlersAgree
  BY DEF IInv
<1> QED
  BY <1>1, IInvInitial, HandlersInductive, PTL DEF Spec

\* A meeting that was billed is over (consumeGrantHours after
\* completeMeetingLifecycle, against late workers, retries and failures), unless
\* an administrator's save put it back.
THEOREM BillingCorrect == Spec => []BilledIsOver
<1>1. IInv => BilledIsOver
  BY DEF IInv
<1> QED
  BY <1>1, IInvInitial, HandlersInductive, PTL DEF Spec

\* The worker, the completion service, the passes and the administrators change
\* rows only as MeetingFSM says.
THEOREM ImplementsFSM == Spec => FSMSpec
<1>1. Init => FSM!FSMInit
  BY DEF Init, SeenState, FSM!FSMInit, Meetings, FSM!Meetings
<1>2. IInv /\ [Next]_vars => [FSM!EditedNext]_SeenState
  BY StepsAsFSM
<1> QED
  BY <1>1, <1>2, IInvInitial, HandlersInductive, PTL DEF Spec, FSMSpec, FSM!EditedSpec

\* A row that ended stays ended, whatever was read before it did, or is one that
\* an administrator's save put back.
THEOREM EndedCorrect == Spec => EndedForever
<1> DEFINE Stays == \A m \in Meetings :
              state[m] \in Ended => state'[m] \in Ended \/ m \in edited'
<1>1. ASSUME IInv, [Next]_vars PROVE Stays
  <2>1. \A m \in Meetings : SeenState[m] \in Ended => SeenState'[m] \in Ended \cup {"Edited"}
    BY <1>1, StepsAsFSM, EndedStays
  <2>2. \A m \in Meetings : m \in edited => m \in edited'
    BY <1>1, EditedGrows, Zenon
  <2>3. ASSUME NEW m \in Meetings, m \notin edited'
        PROVE  SeenState[m] = state[m] /\ SeenState'[m] = state'[m]
    BY <2>2, <2>3 DEF SeenState
  <2>4. \A m \in Meetings : state'[m] # "Edited"
    BY <1>1, TypeInductive DEF IInv, TypeOK, Live, Ended
  <2> QED
    BY <2>1, <2>3, <2>4 DEF Ended
<1>2. IInv /\ [Next]_vars => [Stays]_vars
  BY <1>1
<1> QED
  BY <1>2, IInvInitial, HandlersInductive, PTL DEF Spec, EndedForever

Abstract == INSTANCE MeetingFSMProofs WITH state <- SeenState

\* Both instances of MeetingFSM are the same specification.
LEMMA SameFSM == FSMSpec => Abstract!EditedSpec
<1>1. /\ FSM!Meetings = Abstract!Meetings /\ FSM!Live = Abstract!Live
      /\ FSM!Ended = Abstract!Ended /\ FSM!LiveMeetings = Abstract!LiveMeetings
  BY DEF FSM!Meetings, Abstract!Meetings, FSM!Live, Abstract!Live, FSM!Ended,
         Abstract!Ended, FSM!LiveMeetings, Abstract!LiveMeetings
<1>2. \A S : FSM!Cardinality(S) = Abstract!Cardinality(S)
  BY DEF FSM!Cardinality, Abstract!Cardinality
<1>3. FSM!FSMInit => Abstract!FSMInit
  BY <1>1 DEF FSM!FSMInit, Abstract!FSMInit
<1>4. [FSM!EditedNext]_SeenState => [Abstract!EditedNext]_SeenState
  <2>1. ASSUME NEW m, NEW to PROVE FSM!Goes(m, to) <=> Abstract!Goes(m, to)
    BY DEF FSM!Goes, Abstract!Goes
  <2>2. ASSUME NEW m
        PROVE  /\ FSM!Insert(m) => Abstract!Insert(m)
               /\ FSM!Promote(m) => Abstract!Promote(m)
               /\ FSM!Activate(m) => Abstract!Activate(m)
               /\ FSM!Complete(m) => Abstract!Complete(m)
               /\ FSM!Retry(m) => Abstract!Retry(m)
               /\ FSM!GoStale(m) => Abstract!GoStale(m)
               /\ FSM!Fail(m) => Abstract!Fail(m)
               /\ FSM!Edit(m) => Abstract!Edit(m)
    BY <1>1, <1>2, <2>1
       DEF FSM!Insert, Abstract!Insert, FSM!IsNext, Abstract!IsNext,
           FSM!Promote, Abstract!Promote, FSM!Activate, Abstract!Activate,
           FSM!Complete, Abstract!Complete, FSM!Retry, Abstract!Retry,
           FSM!GoStale, Abstract!GoStale, FSM!Fail, Abstract!Fail, FSM!Edit, Abstract!Edit
  <2> QED
    BY <1>1, <2>2 DEF FSM!EditedNext, Abstract!EditedNext, FSM!FSMNext, Abstract!FSMNext
<1> QED
  BY <1>3, <1>4, PTL DEF FSMSpec, FSM!EditedSpec, Abstract!EditedSpec

\* The organization's limit holds, because MeetingFSM keeps it
\* (reserveProvisioningCapacity).
THEOREM LimitCorrect == Spec => []ConcurrencyLimit
<1>1. Abstract!EditedSpec => [](Abstract!EditedOK /\ Abstract!LimitKept)
  BY Abstract!EditedSafe, ConstantsAssumption
<1>2. \A S : Abstract!Cardinality(S) = Cardinality(S)
  BY DEF Abstract!Cardinality, Cardinality
<1>3. Abstract!LiveMeetings = LiveMeetings \ edited
  BY DEF Abstract!LiveMeetings, LiveMeetings, Abstract!Meetings, Meetings,
         Abstract!Live, Live, SeenState
<1>4. Abstract!LimitKept => ConcurrencyLimit
  BY <1>2, <1>3 DEF Abstract!LimitKept, ConcurrencyLimit
<1> QED
  BY <1>1, <1>4, ImplementsFSM, SameFSM, PTL
=============================================================================
