------------------------ MODULE OrganizationProofs ------------------------
(***************************************************************************)
(* EndMeeting, for any number of requests, inside or outside of a request  *)
(* transaction: only the billing ceiling completes what BBB still runs,    *)
(* and the first requester that is recorded stays.                         *)
(*                                                                         *)
(* TenantCapacity, for any number of announcements, edits, days, failures  *)
(* and restarts: no day is granted twice, and the limit is that of the     *)
(* plan or a cause that the module names has come.                         *)
(***************************************************************************)
EXTENDS EndMeeting, TenantCapacity, TLAPS

(* A request that got past the /end call did so after BBB ended the meeting. *)
PastEnd == {"acked", "stamped", "completed"}
AckedIsOver == \A e \in Enders : pc[e] \in PastEnd => ~running

(* A stamp that is not committed is the only one there can be: nobody writes
   endedByUserId while a request holds the row. *)
LockedIsUnstamped == rowLock # Nobody => endedBy = Nobody /\ ~running

IInv == EndTypeOK /\ AckedIsOver /\ LockedIsUnstamped /\ CompletedAfterBbb

-----------------------------------------------------------------------------
\* Nothing has happened yet.
LEMMA Initially == EndInit => IInv
BY EndersAssumption DEF EndInit, IInv, EndTypeOK, AckedIsOver, LockedIsUnstamped, CompletedAfterBbb, PastEnd

\* A step of one request moves that request only.
LEMMA Moves ==
  ASSUME EndTypeOK, NEW e \in Enders, NEW p, pc' = [pc EXCEPT ![e] = p]
  PROVE  pc'[e] = p /\ \A d \in Enders \ {e} : pc'[d] = pc[d]
BY DEF EndTypeOK

\* The invariant is inductive.
LEMMA Inductive ==
  ASSUME IInv, [EndNext]_<<endVars, inTx>>
  PROVE  IInv'
<1>0. inTx' \in BOOLEAN
  BY DEF IInv, EndTypeOK, EndNext
<1> USE EndersAssumption, <1>0 DEF IInv, PastEnd
<1>1. ASSUME NEW e \in Enders, Refuse(e) PROVE IInv'
  BY <1>1, Moves DEF Refuse, EndTypeOK, AckedIsOver, LockedIsUnstamped, CompletedAfterBbb
<1>2. ASSUME NEW e \in Enders, ReadMeeting(e) PROVE IInv'
  BY <1>2, Moves DEF ReadMeeting, EndTypeOK, AckedIsOver, LockedIsUnstamped, CompletedAfterBbb
<1>3. ASSUME NEW e \in Enders, EndOnBbb(e) PROVE IInv'
  <2>1. CASE running' = FALSE /\ pc' = [pc EXCEPT ![e] = "acked"]
    BY <1>3, <2>1, Moves DEF EndOnBbb, EndTypeOK, AckedIsOver, LockedIsUnstamped, CompletedAfterBbb
  <2>2. CASE UNCHANGED running /\ pc' = [pc EXCEPT ![e] = "done"]
    BY <1>3, <2>2, Moves DEF EndOnBbb, EndTypeOK, AckedIsOver, LockedIsUnstamped, CompletedAfterBbb
  <2> QED
    BY <1>3, <2>1, <2>2 DEF EndOnBbb
<1>4. ASSUME NEW e \in Enders, Stamp(e) PROVE IInv'
  BY <1>4, Moves DEF Stamp, EndTypeOK, AckedIsOver, LockedIsUnstamped, CompletedAfterBbb
<1>5. ASSUME NEW e \in Enders, CompleteRequested(e) PROVE IInv'
  BY <1>5, Moves DEF CompleteRequested, CompleteRow, EndTypeOK, AckedIsOver, LockedIsUnstamped,
     CompletedAfterBbb
<1>6. ASSUME NEW e \in Enders, Respond(e) PROVE IInv'
  BY <1>6, Moves DEF Respond, EndTypeOK, AckedIsOver, LockedIsUnstamped, CompletedAfterBbb
<1>7. CASE RuntimeEnds \/ CompleteBySystem \/ CapMeeting \/ CompleteCapped
  <2>1. CASE RuntimeEnds
    BY <2>1 DEF RuntimeEnds, EndTypeOK, AckedIsOver, LockedIsUnstamped, CompletedAfterBbb
  <2>2. CASE CompleteBySystem
    BY <2>2 DEF CompleteBySystem, CompleteRow, EndTypeOK, AckedIsOver, LockedIsUnstamped, CompletedAfterBbb
  <2>3. CASE CapMeeting
    BY <2>3 DEF CapMeeting, EndTypeOK, AckedIsOver, LockedIsUnstamped, CompletedAfterBbb
  <2>4. CASE CompleteCapped
    BY <2>4 DEF CompleteCapped, CompleteRow, EndTypeOK, AckedIsOver, LockedIsUnstamped, CompletedAfterBbb
  <2> QED
    BY <1>7, <2>1, <2>2, <2>3, <2>4
<1>8. CASE ServerRestart
  BY <1>8 DEF ServerRestart, EndTypeOK, AckedIsOver, LockedIsUnstamped, CompletedAfterBbb
<1>9. CASE UNCHANGED <<endVars, inTx>>
  BY <1>9 DEF endVars, EndTypeOK, AckedIsOver, LockedIsUnstamped, CompletedAfterBbb
<1> QED
  BY <1>1, <1>2, <1>3, <1>4, <1>5, <1>6, <1>7, <1>8, <1>9 DEF EndNext, EndStep

\* Every request, lock and stamp stays in a state the code can put it in.
THEOREM TypeCorrect == EndSpec => []EndTypeOK
<1>1. IInv => EndTypeOK
  BY DEF IInv
<1>2. IInv /\ [EndNext]_<<endVars, inTx>> => IInv'
  BY Inductive
<1> QED
  BY <1>1, <1>2, Initially, PTL DEF EndSpec

\* Nobody is credited with ending a meeting that BBB still runs, and nothing but
\* the billing ceiling completes one (the post-acknowledgement contract of endMeeting).
THEOREM CompletionCorrect == EndSpec => []CompletedAfterBbb
<1>1. IInv => CompletedAfterBbb
  BY DEF IInv
<1>2. IInv /\ [EndNext]_<<endVars, inTx>> => IInv'
  BY Inductive
<1> QED
  BY <1>1, <1>2, Initially, PTL DEF EndSpec

\* The first requester that is recorded stays recorded, whoever completes and
\* whichever transaction commits last (UPDATE ... WHERE endedByUserId IS NULL).
THEOREM FirstEnderCorrect == EndSpec => FirstEnderKept
<1>1. IInv /\ [EndNext]_<<endVars, inTx>> => [endedBy # Nobody => endedBy' = endedBy]_endVars
  <2>1. SUFFICES ASSUME IInv, EndNext, endedBy # Nobody PROVE endedBy' = endedBy
    BY DEF endVars
  <2>2. ASSUME NEW e \in Enders, Respond(e) PROVE endedBy' = endedBy
    BY <2>1, <2>2, EndersAssumption DEF Respond, IInv, LockedIsUnstamped
  <2>3. CASE ~\E e \in Enders : Respond(e)
    BY <2>1, <2>3 DEF EndNext, EndStep, Refuse, ReadMeeting, EndOnBbb, Stamp, CompleteRequested,
       RuntimeEnds, CompleteBySystem, CapMeeting, CompleteCapped, ServerRestart
  <2> QED
    BY <2>2, <2>3
<1>2. IInv /\ [EndNext]_<<endVars, inTx>> => IInv'
  BY Inductive
<1> QED
  BY <1>1, <1>2, Initially, PTL DEF EndSpec, FirstEnderKept

-----------------------------------------------------------------------------
(***************************************************************************)
(* The types of a tenant's capacity.                                       *)
(***************************************************************************)
TaskPcs == {"idle", "read", "resolve", "cache", "save", "update",
            "commit", "billing", "allow", "lock", "insert"}
Tasks == [pc : TaskPcs, copy : Nat, plan : Plans \cup {NoPlan}, day : 0 .. MaxDay]

\* A task that writes the row, or may, has read one.
Writing == {"resolve", "cache", "save", "commit", "update", "billing"}
CopyIsRead == \A t \in Slots : task[t].pc \in Writing => task[t].copy > 0
CapacityInv == CapacityTypeOK /\ CopyIsRead

\* A task's step changes that task only.
LEMMA OneTask ==
  ASSUME CapacityTypeOK, NEW t \in Slots, NEW r, task' = [task EXCEPT ![t] = r]
  PROVE  task'[t] = r /\ \A u \in Slots \ {t} : task'[u] = task[u]
BY DEF CapacityTypeOK

\* The fields of a task that begins, and of one that is over.
LEMMA Begun ==
  ASSUME CapacityTypeOK, NEW t \in Slots, NEW p \in TaskPcs, NEW n \in Nat
  PROVE  /\ Idle \in Tasks /\ Idle.pc = "idle"
         /\ Finish(t) => task'[t] = Idle /\ \A u \in Slots \ {t} : task'[u] = task[u]
         /\ Begin(t, p, n) => /\ task'[t] \in Tasks
                              /\ task'[t].pc = p /\ task'[t].copy = n
                              /\ \A u \in Slots \ {t} : task'[u] = task[u]
<1> USE CapacityAssumption
<1>1. Idle \in Tasks /\ Idle.pc = "idle"
  BY DEF Idle, Tasks, TaskPcs
<1>2. ASSUME Finish(t) PROVE task'[t] = Idle /\ \A u \in Slots \ {t} : task'[u] = task[u]
  BY <1>2, OneTask DEF Finish
<1>3. ASSUME Begin(t, p, n)
      PROVE  /\ task'[t] \in Tasks /\ task'[t].pc = p /\ task'[t].copy = n
             /\ \A u \in Slots \ {t} : task'[u] = task[u]
  <2>1. /\ task'[t] = [Idle EXCEPT !.pc = p, !.copy = n]
        /\ \A u \in Slots \ {t} : task'[u] = task[u]
    BY <1>3, OneTask DEF Begin
  <2> QED
    BY <1>1, <2>1 DEF Tasks
<1> QED
  BY <1>1, <1>2, <1>3

\* Every limit is positive, and the limits of the plans are numbers.
LEMMA Limits ==
  /\ \A p \in Plans : PlanLimit(p) \in Nat \ {0}
  /\ DefaultLimit \in Nat \ {0}
BY CapacityAssumption DEF PlanLimit

\* The function of tasks is well formed when the one that moved is.
LEMMA TasksMoved ==
  ASSUME CapacityInv, NEW t \in Slots, task'[t] \in Tasks,
         \A u \in Slots \ {t} : task'[u] = task[u],
         \E r : task' = [task EXCEPT ![t] = r],
         task'[t].pc \in Writing => task'[t].copy > 0
  PROVE  task' \in [Slots -> Tasks] /\ CopyIsRead'
<1>1. task \in [Slots -> Tasks]
  BY DEF CapacityInv, CapacityTypeOK, Tasks, TaskPcs
<1> QED
  BY <1>1 DEF CapacityInv, CopyIsRead

LEMMA CapacityInitial == CapacityInit => CapacityInv
<1> SUFFICES ASSUME CapacityInit PROVE CapacityInv
  OBVIOUS
<1> USE CapacityAssumption
<1>1. Idle \in Tasks /\ Idle.pc = "idle"
  BY DEF Idle, Tasks, TaskPcs
<1>2. task \in [Slots -> Tasks] /\ \A t \in Slots : task[t].pc = "idle"
  BY <1>1 DEF CapacityInit
<1>3. /\ sub \in [plan : Plans \cup {NoPlan},
                  status : {"none", "pending", "active", "past_due", "cancelled"}]
      /\ limit \in Nat /\ daily \in [0 .. MaxDay -> Nat] /\ today \in 0 .. MaxDay
      /\ strayed \in BOOLEAN /\ moves \in 0 .. MaxMoves /\ faults \in 0 .. MaxFaults
  <2>1. MaxDay \in Nat /\ MaxMoves \in Nat /\ MaxFaults \in Nat
    OBVIOUS
  <2>2. strayed = FALSE /\ moves = 0 /\ faults = 0 /\ today = 0 /\ limit = 0
    BY DEF CapacityInit
  <2>3. sub \in [plan : Plans \cup {NoPlan},
                status : {"none", "pending", "active", "past_due", "cancelled"}]
    BY DEF CapacityInit
  <2>4. daily \in [0 .. MaxDay -> Nat]
    BY DEF CapacityInit
  <2>5. moves \in 0 .. MaxMoves /\ faults \in 0 .. MaxFaults /\ today \in 0 .. MaxDay
    BY <2>1, <2>2
  <2> QED
    BY <2>2, <2>3, <2>4, <2>5
<1>4. CopyIsRead
  BY <1>2 DEF CopyIsRead, Writing
<1>5. CapacityTypeOK
  BY <1>2, <1>3 DEF CapacityTypeOK, Tasks, TaskPcs
<1> QED
  BY <1>4, <1>5 DEF CapacityInv

LEMMA CapacityInductive ==
  ASSUME CapacityInv, [CapacityNext]_capacityVars
  PROVE  CapacityInv'
<1> USE CapacityAssumption
<1>0. /\ sub \in [plan : Plans \cup {NoPlan},
                  status : {"none", "pending", "active", "past_due", "cancelled"}]
      /\ limit \in Nat /\ daily \in [0 .. MaxDay -> Nat] /\ today \in 0 .. MaxDay
      /\ strayed \in BOOLEAN /\ moves \in 0 .. MaxMoves /\ faults \in 0 .. MaxFaults
      /\ task \in [Slots -> Tasks] /\ CopyIsRead /\ CapacityTypeOK
  BY DEF CapacityInv, CapacityTypeOK, Tasks, TaskPcs
<1> DEFINE
      RestOK == /\ sub' \in [plan : Plans \cup {NoPlan},
                             status : {"none", "pending", "active", "past_due", "cancelled"}]
                /\ limit' \in Nat /\ daily' \in [0 .. MaxDay -> Nat] /\ today' \in 0 .. MaxDay
                /\ strayed' \in BOOLEAN /\ moves' \in 0 .. MaxMoves /\ faults' \in 0 .. MaxFaults
      TaskOK == task' \in [Slots -> Tasks] /\ CopyIsRead'
<1>1. RestOK /\ TaskOK => CapacityInv'
  BY DEF CapacityInv, CapacityTypeOK, CopyIsRead, Writing, Tasks, TaskPcs
<1>2. ASSUME NEW t \in Slots, NEW p \in TaskPcs, NEW n \in Nat,
             Finish(t) \/ (Begin(t, p, n) /\ (p \in Writing => n > 0))
      PROVE  TaskOK
  <2>1. /\ task'[t] \in Tasks /\ \A u \in Slots \ {t} : task'[u] = task[u]
        /\ task'[t].pc \in Writing => task'[t].copy > 0
    <3>1. CASE Finish(t)
      BY <1>0, <3>1, Begun DEF Writing
    <3>2. CASE Begin(t, p, n) /\ (p \in Writing => n > 0)
      BY <1>0, <3>2, Begun
    <3> QED
      BY <1>2, <3>1, <3>2
  <2>2. \E r : task' = [task EXCEPT ![t] = r]
    BY <1>2 DEF Finish, Begin
  <2> QED
    BY <1>0, <2>1, <2>2, TasksMoved
<1>3. task' = task => TaskOK
  BY <1>0 DEF CopyIsRead
<1>4. \A p \in Plans \cup {NoPlan} : \A s \in {"none", "pending", "active", "past_due", "cancelled"} :
        Becomes(p, s) /\ strayed' \in BOOLEAN => RestOK
  BY <1>0 DEF Becomes
<1>5. Announce => TaskOK /\ strayed' \in BOOLEAN
  BY <1>2 DEF Announce, Slots, TaskPcs, Writing
<1>6. CASE ProvisionFree \/ Activate \/ PastDue \/ CancelPlan
  <2>1. sub.plan \in Plans \cup {NoPlan}
    BY <1>0
  <2>2. CASE ProvisionFree
    BY <1>1, <1>4, <1>5, <2>2 DEF ProvisionFree, Plans
  <2>3. CASE Activate \/ PastDue \/ CancelPlan
    BY <1>0, <1>1, <1>3, <1>4, <2>1, <2>3 DEF Activate, PastDue, CancelPlan
  <2> QED
    BY <1>6, <2>2, <2>3
<1>7. ASSUME NEW p \in Plans, SubscribeToPlan(p) \/ ChangePlan(p) PROVE CapacityInv'
  BY <1>1, <1>4, <1>5, <1>7 DEF SubscribeToPlan, ChangePlan
<1>8. CASE CreateOrg
  <2>1. TaskOK
    BY <1>2, <1>8, Limits DEF CreateOrg, Slots, TaskPcs
  <2> QED
    BY <1>0, <1>1, <1>8, <2>1, Limits DEF CreateOrg
<1>9. CASE StartSweep
  <2>1. "sweep" \in Slots /\ [Idle EXCEPT !.pc = "lock", !.day = today] \in Tasks
    BY <1>0 DEF Idle, Tasks, TaskPcs, Slots
  <2>2. /\ task'["sweep"] = [Idle EXCEPT !.pc = "lock", !.day = today]
        /\ \A u \in Slots \ {"sweep"} : task'[u] = task[u]
    BY <1>0, <1>9, <2>1, OneTask DEF StartSweep
  <2>3. task'["sweep"].pc = "lock"
    BY <2>2 DEF Idle
  <2>4. TaskOK
    BY <1>0, <1>9, <2>1, <2>2, <2>3, TasksMoved DEF StartSweep, CapacityInv, Writing
  <2> QED
    BY <1>0, <1>1, <1>9, <2>4 DEF StartSweep
<1>10. CASE Midnight \/ UNCHANGED capacityVars
  BY <1>0, <1>1, <1>3, <1>10 DEF Midnight, capacityVars
<1>11. CASE Restart
  <2>1. Idle \in Tasks /\ Idle.pc = "idle"
    BY DEF Idle, Tasks, TaskPcs
  <2>2. /\ [Idle EXCEPT !.pc = "resolve", !.copy = limit] \in Tasks
        /\ [Idle EXCEPT !.pc = "resolve", !.copy = limit].copy = limit
    BY <1>0, <2>1 DEF Tasks, TaskPcs
  <2>3. /\ task' \in [Slots -> Tasks]
        /\ \A t \in Slots : task'[t].pc # "idle" => task'[t].copy = limit /\ limit # 0
    BY <1>11, <2>1, <2>2 DEF Restart
  <2>4. TaskOK
    BY <1>0, <2>3 DEF CopyIsRead, Writing
  <2>5. /\ faults < MaxFaults /\ faults' = faults + 1 /\ strayed' = FALSE
        /\ UNCHANGED <<sub, limit, daily, today, moves>>
    BY <1>11 DEF Restart
  <2>6. faults' \in 0 .. MaxFaults
    BY <1>0, <2>5
  <2>7. RestOK
    BY <1>0, <2>5, <2>6
  <2> QED
    BY <1>1, <2>4, <2>7
<1>12. ASSUME NEW p \in {"update", "billing"}, ReadForEdit(p) PROVE CapacityInv'
  <2>1. PICK n \in {limit} \cup IF p = "update" THEN {DefaultLimit} ELSE {} : Begin("edit", p, n)
    BY <1>12 DEF ReadForEdit
  <2>2. n \in Nat /\ n > 0
    BY <1>0, <1>12, <2>1, Limits DEF ReadForEdit
  <2>3. TaskOK
    BY <1>2, <2>1, <2>2 DEF Slots, TaskPcs
  <2> QED
    BY <1>0, <1>1, <1>12, <2>3 DEF ReadForEdit
<1>13. ASSUME NEW t \in Slots, Fails(t) PROVE CapacityInv'
  <2>1. RestOK
    BY <1>0, <1>13 DEF Fails
  <2> QED
    BY <1>1, <1>2, <1>13, <2>1 DEF Fails, TaskPcs
<1>14. ASSUME NEW t \in Slots, Resolve(t) PROVE CapacityInv'
  <2>0. /\ task[t] \in Tasks /\ task[t].pc = "resolve" /\ task[t].copy > 0
        /\ PlanInForce \in Plans \cup {NoPlan}
    BY <1>0, <1>14 DEF Resolve, At, CopyIsRead, Writing, PlanInForce
  <2>1. PICK p \in {"cache", "commit", "save"} :
          task' = [task EXCEPT ![t] = [[@ EXCEPT !.plan = PlanInForce] EXCEPT !.pc = p]]
    BY <1>0, <1>14 DEF Resolve
  <2>2. /\ task'[t] \in Tasks /\ task'[t].copy > 0 /\ strayed' \in BOOLEAN
        /\ \A u \in Slots \ {t} : task'[u] = task[u]
    BY <1>0, <1>14, <2>0, <2>1 DEF Resolve, Tasks, TaskPcs
  <2>3. TaskOK
    BY <1>0, <2>1, <2>2, TasksMoved DEF CapacityInv
  <2> QED
    BY <1>0, <1>1, <1>14, <2>2, <2>3 DEF Resolve
<1>15. ASSUME NEW t \in Slots, SaveLimit(t) PROVE CapacityInv'
  <2>0. task[t].plan \in Plans \cup {NoPlan}
    BY <1>0 DEF Tasks
  <2>1. limit' \in Nat /\ strayed' \in BOOLEAN
    <3>1. CASE UNCHANGED limit
      BY <1>0, <1>15, <3>1 DEF SaveLimit
    <3>2. CASE task[t].plan \in Plans /\ limit' = PlanLimit(task[t].plan)
      BY <1>15, <3>2, Limits DEF SaveLimit
    <3> QED
      BY <1>15, <2>0, <3>1, <3>2 DEF SaveLimit
  <2>2. TaskOK
    BY <1>2, <1>15 DEF SaveLimit, TaskPcs, Writing
  <2> QED
    BY <1>0, <1>1, <1>15, <2>1, <2>2 DEF SaveLimit
<1>16. ASSUME NEW t \in Slots, NEW p \in TaskPcs, p \in Writing => task[t].pc \in Writing,
              task' = [task EXCEPT ![t].pc = p]
       PROVE  TaskOK
  <2>0. task[t] \in Tasks /\ task' = [task EXCEPT ![t] = [@ EXCEPT !.pc = p]]
    BY <1>0, <1>16
  <2>1. /\ task'[t] \in Tasks /\ task'[t].pc = p /\ task'[t].copy = task[t].copy
        /\ \A u \in Slots \ {t} : task'[u] = task[u]
    BY <1>0, <2>0 DEF Tasks
  <2> QED
    BY <1>0, <1>16, <2>0, <2>1, TasksMoved DEF CapacityInv, CopyIsRead
<1>17. ASSUME NEW t \in Slots, Ensure(t) PROVE CapacityInv'
  <2>1. TaskOK
    BY <1>2, <1>16, <1>17 DEF Ensure, TaskPcs, Writing
  <2> QED
    BY <1>0, <1>1, <1>17, <2>1 DEF Ensure
<1>18. ASSUME NEW t \in Slots, Insert(t) PROVE CapacityInv'
  <2>1. task[t].day \in 0 .. MaxDay
    BY <1>0 DEF Tasks
  <2>2. daily' \in [0 .. MaxDay -> Nat]
    BY <1>0, <1>18, <2>1 DEF Insert
  <2> QED
    BY <1>0, <1>1, <1>2, <1>18, <2>2 DEF Insert, TaskPcs
<1>19. ASSUME NEW l \in Listeners, ReadOrg(l) \/ Allow(l) PROVE CapacityInv'
  <2>0. l \in Slots
    BY DEF Slots
  <2>1. CASE ReadOrg(l)
    <3>1. TaskOK
      BY <1>0, <1>2, <2>0, <2>1 DEF ReadOrg, TaskPcs, Writing
    <3> QED
      BY <1>0, <1>1, <2>1, <3>1 DEF ReadOrg
  <2>2. CASE Allow(l)
    <3>1. CASE Finish(l)
      BY <1>0, <1>1, <1>2, <2>0, <2>2, <3>1 DEF Allow, TaskPcs
    <3>2. CASE task' = [task EXCEPT ![l].pc = "lock", ![l].day = today]
      <4>0. task' = [task EXCEPT ![l] = [[@ EXCEPT !.pc = "lock"] EXCEPT !.day = today]]
        BY <1>0, <2>0, <3>2
      <4>1. /\ task'[l] \in Tasks /\ task'[l].pc = "lock"
            /\ \A u \in Slots \ {l} : task'[u] = task[u]
        BY <1>0, <2>0, <4>0 DEF Tasks, TaskPcs
      <4>2. TaskOK
        BY <1>0, <2>0, <4>0, <4>1, TasksMoved DEF CapacityInv, Writing
      <4> QED
        BY <1>0, <1>1, <2>2, <4>2 DEF Allow
    <3> QED
      BY <2>2, <3>1, <3>2 DEF Allow
  <2> QED
    BY <1>19, <2>1, <2>2
<1>20. CASE SyncRooms
  <2>0. "create" \in Slots /\ task["create"].copy \in Nat
    BY <1>0 DEF Slots, Tasks
  <2>1. TaskOK
    BY <1>16, <1>20, <2>0 DEF SyncRooms, At, TaskPcs, Writing
  <2>2. limit' \in Nat /\ strayed' \in BOOLEAN
    BY <1>0, <1>20, <2>0 DEF SyncRooms
  <2> QED
    BY <1>0, <1>1, <1>20, <2>1, <2>2 DEF SyncRooms
<1>21. CASE UpdateRow \/ CommitUpdate \/ SaveBilling
  <2>0. "edit" \in Slots /\ task["edit"].copy \in Nat /\ task["edit"].plan \in Plans \cup {NoPlan}
    BY <1>0 DEF Slots, Tasks
  <2>1. TaskOK
    BY <1>2, <1>16, <1>21, <2>0 DEF UpdateRow, CommitUpdate, SaveBilling, At, TaskPcs, Writing
  <2>2. limit' \in Nat /\ strayed' \in BOOLEAN
    BY <1>0, <1>21, <2>0, Limits DEF UpdateRow, CommitUpdate, SaveBilling
  <2> QED
    BY <1>0, <1>1, <1>21, <2>1, <2>2 DEF UpdateRow, CommitUpdate, SaveBilling
<1>22. \A p \in PaidPlans : p \in Plans
  BY DEF Plans
<1> QED
  BY <1>6, <1>7, <1>8, <1>9, <1>10, <1>11, <1>12, <1>13, <1>14, <1>15, <1>17, <1>18, <1>19,
     <1>20, <1>21, <1>22 DEF CapacityNext, TaskStep

\* Every subscription, limit, grant and task stays well formed, for any plans,
\* listeners and bounds; a task that writes the row has read one.
THEOREM CapacityTypeCorrect == CapacitySpec => []CapacityTypeOK
<1>1. CapacityInv /\ [CapacityNext]_capacityVars => CapacityInv'
  BY CapacityInductive
<1> QED
  BY <1>1, CapacityInitial, PTL DEF CapacitySpec, CapacityInv

-----------------------------------------------------------------------------
(***************************************************************************)
(* The grants of the days: who is about to insert one holds the day's lock *)
(* and has seen none.                                                      *)
(***************************************************************************)
LockedDayIsFree ==
  \A t \in Slots :
    At(t, "insert") =>
      /\ daily[task[t].day] = 0
      /\ \A u \in Slots : At(u, "insert") /\ task[u].day = task[t].day => u = t

\* Only a task that has the lock inserts, and only the lock lets a task insert.
LEMMA GrantSteps ==
  ASSUME CapacityInv, [CapacityNext]_capacityVars
  PROVE  \/ \E t \in Slots : Ensure(t) \/ Insert(t)
         \/ /\ daily' = daily
            /\ \A t \in Slots : task'[t].pc = "insert" => task'[t] = task[t]
<1> DEFINE Quiet0 == /\ daily' = daily
                     /\ \A t \in Slots : task'[t].pc = "insert" => task'[t] = task[t]
<1>0. CapacityTypeOK /\ limit \in Nat /\ DefaultLimit \in Nat
  BY CapacityAssumption DEF CapacityInv, CapacityTypeOK
<1>1. ASSUME NEW t \in Slots, NEW p \in TaskPcs \ {"insert"}, NEW n \in Nat,
             Finish(t) \/ Begin(t, p, n) \/ task' = [task EXCEPT ![t].pc = p]
      PROVE  \A u \in Slots : task'[u].pc = "insert" => task'[u] = task[u]
  <2>1. CASE Finish(t) \/ Begin(t, p, n)
    BY <1>0, <1>1, <2>1, Begun
  <2>2. CASE task' = [task EXCEPT ![t].pc = p]
    BY <1>0, <1>1, <2>2 DEF CapacityTypeOK
  <2> QED
    BY <1>1, <2>1, <2>2
<1>2. Announce => \A u \in Slots : task'[u].pc = "insert" => task'[u] = task[u]
  BY <1>1 DEF Announce, Slots, TaskPcs
<1>3. CASE ProvisionFree \/ Activate \/ PastDue \/ CancelPlan
  BY <1>2, <1>3 DEF ProvisionFree, Activate, PastDue, CancelPlan, Becomes
<1>4. ASSUME NEW p, SubscribeToPlan(p) \/ ChangePlan(p) PROVE Quiet0
  BY <1>2, <1>4 DEF SubscribeToPlan, ChangePlan, Becomes
<1>5. CASE CreateOrg
  BY <1>0, <1>1, <1>5 DEF CreateOrg, Slots, TaskPcs
<1>6. CASE StartSweep
  BY <1>0, <1>6 DEF StartSweep, Slots, CapacityTypeOK, Idle
<1>7. CASE Midnight \/ UNCHANGED capacityVars
  BY <1>7 DEF Midnight, capacityVars
<1>8. CASE Restart
  BY <1>8 DEF Restart, Idle
<1>9. ASSUME NEW p \in {"update", "billing"}, ReadForEdit(p) PROVE Quiet0
  <2>1. PICK n \in {limit, DefaultLimit} : Begin("edit", p, n)
    BY <1>9 DEF ReadForEdit
  <2> QED
    BY <1>0, <1>1, <1>9, <2>1 DEF ReadForEdit, Slots, TaskPcs
<1>10. ASSUME NEW t \in Slots, Fails(t) \/ SaveLimit(t) PROVE Quiet0
  <2>1. (Finish(t) \/ Begin(t, "allow", 0)) /\ daily' = daily
    BY <1>10 DEF Fails, SaveLimit
  <2> QED
    BY <1>1, <2>1 DEF TaskPcs
<1>11. ASSUME NEW t \in Slots, Resolve(t) PROVE Quiet0
  <2>1. PICK p \in {"cache", "commit", "save"} :
          task' = [task EXCEPT ![t] = [[@ EXCEPT !.plan = PlanInForce] EXCEPT !.pc = p]]
    BY <1>0, <1>11 DEF Resolve, CapacityTypeOK
  <2> QED
    BY <1>0, <1>11, <2>1 DEF Resolve, CapacityTypeOK
<1>12. ASSUME NEW l \in Listeners, ReadOrg(l) \/ Allow(l) PROVE Quiet0
  <2>1. l \in Slots
    BY DEF Slots
  <2>2. CASE ReadOrg(l)
    BY <1>0, <1>1, <2>1, <2>2 DEF ReadOrg, TaskPcs
  <2>3. CASE Allow(l) /\ Finish(l)
    BY <1>1, <2>1, <2>3 DEF Allow, TaskPcs
  <2>4. CASE Allow(l) /\ task' = [task EXCEPT ![l].pc = "lock", ![l].day = today]
    BY <1>0, <2>1, <2>4 DEF Allow, CapacityTypeOK
  <2> QED
    BY <1>12, <2>2, <2>3, <2>4 DEF Allow
<1>13. CASE SyncRooms \/ UpdateRow \/ CommitUpdate \/ SaveBilling
  <2>1. CASE SyncRooms
    BY <1>1, <2>1 DEF SyncRooms, Slots, TaskPcs
  <2>2. CASE UpdateRow
    BY <1>1, <2>2 DEF UpdateRow, Slots, TaskPcs
  <2>3. CASE CommitUpdate \/ SaveBilling
    <3>1. "edit" \in Slots /\ Finish("edit") /\ daily' = daily
      BY <2>3 DEF CommitUpdate, SaveBilling, Slots
    <3> QED
      BY <1>0, <3>1, Begun DEF TaskPcs
  <2> QED
    BY <1>13, <2>1, <2>2, <2>3
<1> QED
  BY <1>3, <1>4, <1>5, <1>6, <1>7, <1>8, <1>9, <1>10, <1>11, <1>12, <1>13
     DEF CapacityNext, TaskStep

LEMMA DailyInductive ==
  ASSUME CapacityInv, LockedDayIsFree, OneDailyGrant, [CapacityNext]_capacityVars
  PROVE  LockedDayIsFree' /\ OneDailyGrant'
<1> USE DEF At
<1>0. /\ CapacityTypeOK /\ daily \in [0 .. MaxDay -> Nat]
      /\ \A t \in Slots : task[t].day \in 0 .. MaxDay
  BY DEF CapacityInv, CapacityTypeOK
<1>1. CASE /\ daily' = daily
           /\ \A t \in Slots : task'[t].pc = "insert" => task'[t] = task[t]
  BY <1>1 DEF LockedDayIsFree, OneDailyGrant
<1>2. ASSUME NEW t \in Slots, Ensure(t) PROVE LockedDayIsFree' /\ OneDailyGrant'
  <2>1. CASE daily[task[t].day] > 0
    <3>1. task'[t].pc = "idle" /\ \A u \in Slots \ {t} : task'[u] = task[u]
      BY <1>0, <1>2, <2>1, Begun DEF Ensure, TaskPcs
    <3> QED
      BY <1>2, <3>1 DEF Ensure, LockedDayIsFree, OneDailyGrant
  <2>2. CASE ~(daily[task[t].day] > 0)
    <3>1. /\ task'[t].pc = "insert" /\ task'[t].day = task[t].day
          /\ \A u \in Slots \ {t} : task'[u] = task[u]
      BY <1>0, <1>2, <2>2 DEF Ensure, CapacityTypeOK
    <3>2. /\ daily' = daily /\ daily[task[t].day] = 0
          /\ \A u \in Slots : task[u].pc = "insert" => task[u].day # task[t].day
      BY <1>0, <1>2, <2>2 DEF Ensure
    <3> QED
      BY <3>1, <3>2 DEF LockedDayIsFree, OneDailyGrant
  <2> QED
    BY <2>1, <2>2
<1>3. ASSUME NEW t \in Slots, Insert(t) PROVE LockedDayIsFree' /\ OneDailyGrant'
  <2>1. task'[t].pc = "idle" /\ \A u \in Slots \ {t} : task'[u] = task[u]
    BY <1>0, <1>3, Begun DEF Insert, TaskPcs
  <2>2. /\ daily[task[t].day] = 0
        /\ \A u \in Slots : task[u].pc = "insert" /\ task[u].day = task[t].day => u = t
    BY <1>3 DEF Insert, LockedDayIsFree
  <2>3. /\ daily'[task[t].day] = 1
        /\ \A d \in 0 .. MaxDay : d # task[t].day => daily'[d] = daily[d]
    BY <1>0, <1>3, <2>2 DEF Insert
  <2>4. OneDailyGrant'
    BY <2>3 DEF OneDailyGrant
  <2>5. LockedDayIsFree'
    BY <1>0, <2>1, <2>2, <2>3 DEF LockedDayIsFree
  <2> QED
    BY <2>4, <2>5
<1> QED
  BY <1>1, <1>2, <1>3, GrantSteps

\* No day is granted twice, whichever handlers and sweeps run when the day turns
\* (the advisory lock of ensureDailyAllowance).
THEOREM DailyCorrect == CapacitySpec => []OneDailyGrant
<1> DEFINE Inv == CapacityInv /\ LockedDayIsFree /\ OneDailyGrant
<1>1. CapacityInit => Inv
  <2> SUFFICES ASSUME CapacityInit PROVE Inv
    OBVIOUS
  <2>1. \A t \in Slots : task[t].pc = "idle"
    BY DEF CapacityInit, Idle
  <2> QED
    BY <2>1, CapacityInitial DEF LockedDayIsFree, OneDailyGrant, CapacityInit, At
<1>2. Inv /\ [CapacityNext]_capacityVars => Inv'
  BY CapacityInductive, DailyInductive
<1> QED
  BY <1>1, <1>2, PTL DEF CapacitySpec

-----------------------------------------------------------------------------
(***************************************************************************)
(* The limit: until a cause of a wrong one has come, it is that of the live *)
(* subscription's plan, or a task is under way that makes it so.            *)
(***************************************************************************)
Mends(t) ==
  \/ t \in Listeners /\ At(t, "read")
  \/ t # "edit" /\ At(t, "resolve")
  \/ t # "edit" /\ task[t].pc \in {"cache", "save"} /\ task[t].plan = sub.plan

LimitInv ==
  /\ Live => sub.plan \in Plans
  /\ Live /\ ~strayed /\ limit # 0 => \/ limit = PlanLimit(sub.plan)
                                      \/ \E t \in Slots : Mends(t)

\* Every derivation of a limit that has begun ends with the right one, or as a cause.
LEMMA LimitInductive ==
  ASSUME CapacityInv, LimitInv, [CapacityNext]_capacityVars
  PROVE  LimitInv'
<1> USE CapacityAssumption DEF At
<1>0. /\ CapacityTypeOK /\ limit \in Nat /\ strayed \in BOOLEAN
      /\ \A t \in Slots : task[t] \in Tasks
      /\ sub.plan \in Plans \cup {NoPlan}
  BY DEF CapacityInv, CapacityTypeOK, Tasks, TaskPcs
<1>1. Announce => /\ strayed' = FALSE
                  /\ \E l \in Listeners : task'[l].pc = "read"
  <2>1. ASSUME NEW l \in Listeners, Begin(l, "read", 0) PROVE task'[l].pc = "read"
    BY <1>0, <2>1, Begun DEF Slots, TaskPcs
  <2> QED
    BY <2>1 DEF Announce
<1>2. CASE ProvisionFree
  <2>1. sub'.plan \in Plans
    BY <1>2 DEF ProvisionFree, Becomes, Plans
  <2> QED
    BY <1>1, <1>2, <2>1 DEF ProvisionFree, LimitInv, Mends, Slots
<1>3. ASSUME NEW p \in Plans, SubscribeToPlan(p) \/ ChangePlan(p) PROVE LimitInv'
  <2>1. sub'.plan \in Plans
    BY <1>3 DEF SubscribeToPlan, ChangePlan, Becomes
  <2> QED
    BY <1>1, <1>3, <2>1 DEF SubscribeToPlan, ChangePlan, LimitInv, Mends, Slots
<1>4. CASE Activate \/ PastDue
  BY <1>4 DEF Activate, PastDue, Becomes, LimitInv, Mends, Live
<1>5. CASE CancelPlan
  BY <1>5 DEF CancelPlan, Becomes, LimitInv, Live
<1>6. CASE CreateOrg
  <2>1. task'["create"].pc = "resolve"
    BY <1>0, <1>6, Begun DEF CreateOrg, Slots, TaskPcs
  <2> QED
    BY <1>6, <2>1 DEF CreateOrg, LimitInv, Mends, Slots, Live
\* A step that leaves the limit and the subscription, of a task that mends nothing.
<1>7. ASSUME UNCHANGED <<sub, limit>>, strayed => strayed', NEW t \in Slots, ~Mends(t),
             \A u \in Slots \ {t} : task'[u] = task[u]
      PROVE  LimitInv'
  BY <1>7 DEF LimitInv, Mends, Live
<1>8. CASE StartSweep
  <2>1. \A u \in Slots \ {"sweep"} : task'[u] = task[u]
    BY <1>0, <1>8, OneTask DEF StartSweep, Slots
  <2> QED
    BY <1>7, <1>8, <2>1 DEF StartSweep, Mends, Slots
<1>9. CASE Midnight \/ UNCHANGED capacityVars
  BY <1>9 DEF Midnight, capacityVars, LimitInv, Mends, Live
<1>10. CASE Restart
  <2>1. limit # 0 => task'["boot"].pc = "resolve"
    BY <1>10 DEF Restart, Slots, Idle
  <2> QED
    BY <1>10, <2>1 DEF Restart, LimitInv, Mends, Slots, Live
<1>11. ASSUME NEW p \in {"update", "billing"}, ReadForEdit(p) PROVE LimitInv'
  <2>1. \A u \in Slots \ {"edit"} : task'[u] = task[u]
    BY <1>0, <1>11, OneTask DEF ReadForEdit, Begin, Slots
  <2> QED
    BY <1>7, <1>11, <2>1 DEF ReadForEdit, Mends, Slots
<1>12. ASSUME NEW t \in Slots, Fails(t) PROVE LimitInv'
  <2>1. \A u \in Slots \ {t} : task'[u] = task[u]
    BY <1>0, <1>12, OneTask DEF Fails, Finish
  <2>2. CASE Mends(t) /\ t # "edit"
    <3>1. strayed'
      BY <1>12, <2>2 DEF Fails, Mends
    <3> QED
      BY <1>12, <3>1 DEF Fails, LimitInv, Live
  <2>3. CASE ~Mends(t)
    BY <1>7, <1>12, <2>1, <2>3 DEF Fails
  <2>4. ~Mends("edit")
    BY DEF Mends
  <2> QED
    BY <2>2, <2>3, <2>4
\* A lookup finds the plan of a subscription in force, or is a cause.
<1>13. ASSUME NEW t \in Slots, Resolve(t) PROVE LimitInv'
  <2>0. task'[t].plan = PlanInForce /\ \A u \in Slots \ {t} : task'[u] = task[u]
    BY <1>0, <1>13 DEF Resolve, CapacityTypeOK
  <2>1. CASE t = "edit"
    BY <1>7, <1>13, <2>0, <2>1 DEF Resolve, Mends
  <2>2. CASE t # "edit" /\ Live /\ PlanInForce = NoPlan
    BY <1>13, <2>2 DEF Resolve, LimitInv, Live
  <2>3. CASE t # "edit" /\ Live /\ PlanInForce # NoPlan
    <3>1. PlanInForce = sub.plan
      BY <2>3 DEF PlanInForce
    <3>2. task'[t].pc \in {"cache", "save"}
      BY <1>0, <1>13, <2>3 DEF Resolve, CapacityTypeOK
    <3> QED
      BY <1>13, <2>0, <2>3, <3>1, <3>2 DEF Resolve, LimitInv, Mends, Live
  <2>4. CASE ~Live
    BY <1>13, <2>4 DEF Resolve, LimitInv, Live
  <2> QED
    BY <2>1, <2>2, <2>3, <2>4
\* A write of the plan's limit makes it so; any other is a cause, or writes nothing new.
<1>14. ASSUME NEW t \in Slots, SaveLimit(t) PROVE LimitInv'
  <2> DEFINE p == task[t].plan
             writes == p # NoPlan /\ task[t].copy # PlanLimit(p)
  <2>0. \A u \in Slots \ {t} : task'[u] = task[u]
    BY <1>0, <1>14, Begun DEF SaveLimit, TaskPcs
  <2>1. /\ UNCHANGED sub
        /\ strayed => strayed'
        /\ writes /\ p # PlanInForce => strayed'
        /\ ~writes /\ p # NoPlan /\ task[t].copy # limit => strayed'
        /\ IF writes THEN limit' = PlanLimit(p) ELSE limit' = limit
        /\ task[t].pc = "save"
    BY <1>14 DEF SaveLimit
  <2> HIDE DEF p, writes
  <2>2. CASE strayed' \/ ~Live
    BY <2>1, <2>2 DEF LimitInv, Live
  <2>3. CASE ~strayed' /\ Live /\ writes
    <3>1. p = PlanInForce /\ p # NoPlan
      BY <2>1, <2>3 DEF writes
    <3>2. p = sub.plan
      BY <3>1 DEF PlanInForce
    <3> QED
      BY <2>1, <2>3, <3>2 DEF LimitInv, Live
  <2>4. CASE ~strayed' /\ Live /\ ~writes
    <3>1. CASE p = NoPlan \/ p # sub.plan
      <4>1. ~Mends(t)
        BY <1>0, <2>1, <2>4, <3>1 DEF Mends, LimitInv, p
      <4> QED
        BY <1>7, <2>0, <2>1, <2>4, <4>1
    <3>2. CASE p # NoPlan /\ p = sub.plan
      <4>1. limit = PlanLimit(sub.plan)
        BY <2>1, <2>4, <3>2 DEF writes, p
      <4> QED
        BY <2>1, <2>4, <4>1 DEF LimitInv, Live
    <3> QED
      BY <3>1, <3>2
  <2> QED
    BY <2>2, <2>3, <2>4
<1>15. ASSUME NEW t \in Slots, Ensure(t) \/ Insert(t) PROVE LimitInv'
  <2>1. /\ ~Mends(t) /\ \A u \in Slots \ {t} : task'[u] = task[u]
        /\ UNCHANGED <<sub, limit, strayed>>
    <3>1. CASE Insert(t)
      BY <1>0, <3>1, Begun DEF Insert, Mends, TaskPcs
    <3>2. CASE Ensure(t)
      BY <1>0, <3>2, OneTask DEF Ensure, Mends, Finish, CapacityTypeOK
    <3> QED
      BY <1>15, <3>1, <3>2
  <2> QED
    BY <1>7, <2>1
<1>16. ASSUME NEW l \in Listeners, ReadOrg(l) PROVE LimitInv'
  <2>1. l \in Slots /\ l # "edit"
    BY DEF Slots
  <2>2. CASE limit = 0
    BY <1>16, <2>2 DEF ReadOrg, LimitInv, Live
  <2>3. CASE limit # 0
    <3>1. task'[l].pc = "resolve"
      BY <1>0, <1>16, <2>1, <2>3, Begun DEF ReadOrg, TaskPcs
    <3> QED
      BY <1>16, <2>1, <3>1 DEF ReadOrg, LimitInv, Mends, Live
  <2> QED
    BY <2>2, <2>3
<1>17. ASSUME NEW l \in Listeners, Allow(l) PROVE LimitInv'
  <2>1. /\ l \in Slots /\ ~Mends(l) /\ \A u \in Slots \ {l} : task'[u] = task[u]
        /\ UNCHANGED <<sub, limit, strayed>>
    BY <1>0, <1>17 DEF Allow, Mends, Slots, Finish, CapacityTypeOK
  <2> QED
    BY <1>7, <2>1
<1>18. CASE SyncRooms
  <2>0. /\ "create" \in Slots /\ task["create"].pc = "cache"
        /\ task'["create"].pc = "save" /\ task'["create"].plan = task["create"].plan
        /\ \A u \in Slots \ {"create"} : task'[u] = task[u]
    BY <1>0, <1>18 DEF SyncRooms, Slots, CapacityTypeOK
  <2>1. sub' = sub /\ (strayed => strayed') /\ (limit' = limit \/ strayed')
    BY <1>18 DEF SyncRooms
  <2>2. \A u \in Slots : Mends(u) => Mends(u)'
    BY <2>0, <2>1 DEF Mends
  <2> QED
    BY <2>1, <2>2 DEF LimitInv, Live
<1>19. CASE UpdateRow \/ CommitUpdate \/ SaveBilling
  <2>0. /\ "edit" \in Slots /\ \A u \in Slots \ {"edit"} : task'[u] = task[u]
    <3>1. "edit" \in Slots
      BY DEF Slots
    <3>2. CASE UpdateRow
      BY <1>0, <3>1, <3>2 DEF UpdateRow, CapacityTypeOK
    <3>3. CASE CommitUpdate \/ SaveBilling
      BY <1>0, <3>1, <3>3, OneTask DEF CommitUpdate, SaveBilling, Finish
    <3> QED
      BY <1>19, <3>1, <3>2, <3>3
  <2>1. sub' = sub /\ (strayed => strayed')
    <3>1. CASE UpdateRow
      BY <3>1 DEF UpdateRow
    <3>2. CASE CommitUpdate
      BY <3>2 DEF CommitUpdate
    <3>3. CASE SaveBilling
      BY <3>3 DEF SaveBilling
    <3> QED
      BY <1>19, <3>1, <3>2, <3>3
  <2>2. CASE limit' = limit \/ strayed'
    <3>1. ~Mends("edit")
      BY DEF Mends
    <3> QED
      BY <1>7, <2>0, <2>1, <2>2, <3>1 DEF LimitInv, Live
  <2>3. CASE ~(limit' = limit \/ strayed')
    <3>1. limit' = PlanLimit(task["edit"].plan) /\ task["edit"].plan = PlanInForce
          /\ PlanInForce # NoPlan
      BY <1>19, <2>3 DEF UpdateRow, CommitUpdate, SaveBilling
    <3>2. limit' = PlanLimit(sub.plan)
      BY <3>1 DEF PlanInForce
    <3> QED
      BY <2>1, <3>2 DEF LimitInv, Live
  <2> QED
    BY <2>2, <2>3
<1>20. \A p \in PaidPlans : p \in Plans
  BY DEF Plans
<1> QED
  BY <1>2, <1>3, <1>4, <1>5, <1>6, <1>8, <1>9, <1>10, <1>11, <1>12, <1>13, <1>14, <1>15,
     <1>16, <1>17, <1>18, <1>19, <1>20 DEF CapacityNext, TaskStep

\* When no write is under way the limit is that of the plan in force, or one of the
\* named causes has come since the last announcement or start.
THEOREM LimitFollowsCorrect == CapacitySpec => []LimitFollows
<1> DEFINE Inv == CapacityInv /\ LimitInv
<1>1. CapacityInit => Inv
  BY CapacityInitial DEF CapacityInit, LimitInv, Live
<1>2. Inv /\ [CapacityNext]_capacityVars => Inv'
  BY CapacityInductive, LimitInductive
<1>3. Inv => LimitFollows
  <2> SUFFICES ASSUME Inv, Quiet, limit # 0, PlanInForce # NoPlan, ~strayed
               PROVE  limit = PlanLimit(PlanInForce)
    BY DEF LimitFollows
  <2>1. sub.status = "active" /\ PlanInForce = sub.plan /\ Live
    BY DEF PlanInForce, Live
  <2>2. \A t \in Slots : ~Mends(t)
    BY DEF Quiet, Mends, At
  <2> QED
    BY <2>1, <2>2 DEF LimitInv
<1> QED
  BY <1>1, <1>2, <1>3, PTL DEF CapacitySpec
=============================================================================
