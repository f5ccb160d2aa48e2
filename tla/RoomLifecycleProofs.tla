----------------------- MODULE RoomLifecycleProofs ------------------------
(***************************************************************************)
(* RoomLifecycle, for any number of meetings and requests: its type        *)
(* invariant, that the row of a room is never half written, that a room's  *)
(* lock is held exactly while its holder is inside or has outlived it,     *)
(* that learners insert only as a rebuild, that a room does to its         *)
(* meetings nothing MeetingFSM does not allow, and that, as long as one    *)
(* request is inside at a time, it has one unfinished meeting.             *)
(***************************************************************************)
EXTENDS MCRoomLifecycle, MeetingFSMProofs, WellFoundedInduction

Started == {"Active"} \cup Ended

\* The row and what reconcileRooms is about to write of it name a meeting
\* exactly when they say Active; what they name, and what a worker reports as
\* active, was started.
Named(r) ==
  /\ r.state = "Active" <=> r.current # None
  /\ r.current # None => state[r.current] \in Started

ReportsStarted ==
  \A m \in Meetings : <<m, "active">> \in tell => state[m] \in Started

WritesStarted ==
  pass.pc = "write" => /\ pass.state = "Active" <=> pass.m # None
                       /\ pass.m # None => state[pass.m] \in Started

IInv == TypeOK /\ Named(room) /\ ReportsStarted /\ WritesStarted
-----------------------------------------------------------------------------
\* A set of row numbers that is not empty has a greatest.
LEMMA LatestExists ==
  ASSUME Inserted # {}
  PROVE  Latest \in Inserted /\ Inserted \subseteq Meetings
<1> DEFINE below == {MaxMeetings - m : m \in Inserted}
<1>1. Inserted \subseteq Meetings /\ MaxMeetings \in Nat
  BY LimitAssumption DEF Inserted
<1>2. below \subseteq Nat /\ below # {}
  <2>1. \A m \in Inserted : MaxMeetings - m \in Nat
    BY <1>1 DEF Meetings
  <2> QED
    BY <2>1
<1> DEFINE less == {ss \in Nat \X Nat : ss[1] < ss[2]}
<1>a. IsWellFoundedOn(less, Nat)
  BY NatLessThanWellFounded DEF OpToRel
<1>3. PICK x \in below : \A y \in below : <<y, x>> \notin less
  <2> HIDE DEF less, below
  <2> QED
    BY <1>2, <1>a, WFMin
<1>4. ASSUME NEW y \in below PROVE x <= y
  <2>1. x \in Nat /\ y \in Nat
    BY <1>2
  <2>2. y < x => <<y, x>> \in less
    BY <2>1
  <2>3. <<y, x>> \notin less
    BY <1>3
  <2> QED
    BY <2>1, <2>2, <2>3
<1>5. PICK m \in Inserted : x = MaxMeetings - m
  BY <1>3
<1>6. \A n \in Inserted : n <= m
  BY <1>1, <1>4, <1>5 DEF Meetings
<1>7. \E l \in Inserted : \A n \in Inserted : n <= l
  BY <1>5, <1>6
<1> QED
  BY <1>1, <1>7 DEF Latest

LEMMA NextRetryType ==
  ASSUME NEW n \in 0 .. MaxAutoRetries
  PROVE  NextRetry(n) \in 0 .. MaxAutoRetries
BY RoomAssumption DEF NextRetry

\* What a step does to the meetings is what MeetingFSM allows.
LEMMA CompleteIsFSM ==
  ASSUME NEW m \in Meetings, CompleteMeeting(m)
  PROVE  FSMNext \/ UNCHANGED state
BY DEF CompleteMeeting, FSMNext

LEMMA StepIsFSM ==
  ASSUME TypeOK, [Next]_vars
  PROVE  FSMNext \/ UNCHANGED state
<1> USE DEF work, key, calls
<1>1. ASSUME NEW r \in Requests, NEW m \in Meetings, InsertMeeting(r, m) PROVE FSMNext
  BY <1>1 DEF InsertMeeting, FSMNext
<1>2. ASSUME NEW r \in Requests, RuntimeGone(r) PROVE FSMNext \/ UNCHANGED state
  BY <1>2, CompleteIsFSM DEF RuntimeGone, TypeOK
<1>3. ASSUME NEW r \in Requests, RebuildRoom(r) PROVE FSMNext \/ UNCHANGED state
  BY <1>3, CompleteIsFSM DEF RebuildRoom, TypeOK
<1>4. ASSUME NEW r \in Requests, Request(r) PROVE FSMNext \/ UNCHANGED state
  BY <1>1, <1>2, <1>3, <1>4 DEF Request, Arrive, Suppressed, StartProvisioning,
     ReadActiveRoom, ClearRoom, TrustRuntime, RequestFails, JoinUrl, CheckRoom, InsertFails
<1>5. ASSUME NEW m \in Meetings, Meeting(m) PROVE FSMNext \/ UNCHANGED state
  <2>1. CASE EndClass(m)
    BY <2>1, CompleteIsFSM DEF EndClass
  <2> QED
    BY <1>5, <2>1 DEF Meeting, PromoteJob, RefuseJob, ActivateMeeting, FailMeeting,
       OnMeetingActive, OnMeetingFailed, TimeOut, RuntimeEnds, MarkMeetingStale, FSMNext
<1> QED
  BY <1>4, <1>5 DEF Next, vars, WorkerCrash, LockExpires, ServerRestart, ResetRoom,
     DebounceElapses, ReconcileRooms, ReadRoom, JudgeRoom, RepairRoom

\* A meeting that was started stays so, whatever MeetingFSM does to it.
LEMMA StartedStays ==
  ASSUME StateOK, FSMNext \/ UNCHANGED state,
         NEW m \in Meetings, state[m] \in Started
  PROVE  state'[m] \in Started
BY DEF StateOK, FSMNext, Insert, IsNext, Promote, Activate, Complete, Retry, GoStale, Fail, Goes,
       Started, Ended, Live

LEMMA StateInductive ==
  ASSUME StateOK, FSMNext \/ UNCHANGED state
  PROVE  StateOK'
BY DEF StateOK, FSMNext, Insert, Promote, Activate, Complete, Retry, GoStale, Fail, Goes,
       States, Unended, Ended, Live
-----------------------------------------------------------------------------
Requested == [pc : {"request", "validate", "clear", "url", "check", "insert"},
              role : Roles, m : Meetings \cup {None}]

\* A request that goes on, or returns, stays one.
LEMMA RequestMoves ==
  ASSUME TypeOK, NEW r \in Requests, req[r].pc # "idle",
         NEW pc \in {"request", "validate", "clear", "url", "check", "insert"},
         Step(r, pc) \/ Return(r) \/ AfterRequest(r)
  PROVE  req' \in [Requests -> {NoRequest} \cup Requested]
<1>1. req[r] \in Requested /\ req \in [Requests -> {NoRequest} \cup Requested]
  BY DEF TypeOK, NoRequest, Requested
<1>2. \A q \in {"request", "validate", "clear", "url", "check", "insert"} :
        [req[r] EXCEPT !.pc = q] \in Requested
  BY <1>1 DEF Requested
<1>3. CASE Return(r)
  BY <1>1, <1>3 DEF Return
<1>4. ASSUME NEW q \in {"request", "validate", "clear", "url", "check", "insert"}, Step(r, q)
      PROVE  req' \in [Requests -> {NoRequest} \cup Requested]
  <2>1. req' = [req EXCEPT ![r] = [req[r] EXCEPT !.pc = q]]
    BY <1>1, <1>4 DEF Step
  <2> QED
    BY <1>1, <1>2, <2>1
<1> QED
  BY <1>3, <1>4 DEF AfterRequest

Rooms == [state : {"Idle", "Provisioning", "Active", "Failed"},
          current : Meetings \cup {None}, retry : 0 .. MaxAutoRetries, recent : BOOLEAN]

LEMMA IdleType ==
  ASSUME TypeOK
  PROVE  Idle(room) \in Rooms /\ [Idle(room) EXCEPT !.retry = 0] \in Rooms
<1>1. room \in Rooms
  BY DEF TypeOK, Rooms
<1>2. Idle(room) \in Rooms
  BY <1>1 DEF Rooms, Idle
<1> QED
  BY <1>2, RoomAssumption DEF Rooms

LEMMA CompleteRoomType ==
  ASSUME TypeOK, NEW m, CompleteMeeting(m)
  PROVE  room' \in Rooms
BY IdleType DEF CompleteMeeting, TypeOK, Rooms

LEMMA TypeInitial == Init => TypeOK
<1> SUFFICES ASSUME Init PROVE TypeOK
  OBVIOUS
<1>1. StateOK
  BY FSMInitial DEF Init, FSMInv
<1> QED
  BY <1>1, RoomAssumption DEF Init, TypeOK, NoPass, NoRequest

Passes ==
  {NoPass} \cup
  [pc : {"read"}, state : {"Provisioning", "Active"}, m : Meetings \cup {None}] \cup
  [pc : {"write"}, state : {"Idle", "Active"}, m : Meetings \cup {None}]

\* What the pass decides to write.
LEMMA VerdictType ==
  ASSUME TypeOK, NEW v, v \in {ProvisioningVerdict, ActiveVerdict}
  PROVE  /\ v \in Passes
         /\ v.pc = "write" => /\ v.state = "Active" <=> v.m # None
                              /\ v.m # None => state[v.m] \in Started
         /\ v.pc # "read"
<1>1. v \in {NoPass, ToIdle}
      \/ (Inserted # {} /\ state[Latest] = "Active" /\ v = ToActive(Latest))
  BY DEF ProvisioningVerdict, ActiveVerdict
<1>2. CASE v \in {NoPass, ToIdle}
  BY <1>2 DEF NoPass, ToIdle, Passes
<1>3. CASE Inserted # {} /\ state[Latest] = "Active" /\ v = ToActive(Latest)
  <2>1. Latest \in Meetings /\ Latest # None
    BY <1>3, LatestExists, RoomAssumption
  <2> QED
    BY <1>3, <2>1 DEF ToActive, Passes, Started
<1> QED
  BY <1>1, <1>2, <1>3

\* The judgement of a pass is one of its verdicts.
LEMMA JudgeWrites ==
  ASSUME TypeOK, JudgeRoom
  PROVE  /\ pass' \in Passes
         /\ pass'.pc = "write" => /\ pass'.state = "Active" <=> pass'.m # None
                                  /\ pass'.m # None => state[pass'.m] \in Started
BY VerdictType DEF JudgeRoom

\* Every action keeps the row, the requests, the lock and the pass well formed.
LEMMA TypeInductive == TypeOK /\ [Next]_vars => TypeOK'
<1> SUFFICES ASSUME TypeOK, [Next]_vars PROVE TypeOK'
  OBVIOUS
<1> USE DEF work, key, calls
<1>1. StateOK'
  BY StateInductive, StepIsFSM DEF TypeOK
<1>2. room \in Rooms /\ req \in [Requests -> {NoRequest} \cup Requested] /\ pass \in Passes
  BY DEF TypeOK, Rooms, Requested, Passes
<1>3. room' \in Rooms /\ req' \in [Requests -> {NoRequest} \cup Requested]
      /\ jobs' \subseteq Meetings /\ over' \subseteq Meetings
      /\ tell' \subseteq Meetings \X {"active", "failed"}
      /\ lock' \in Requests \cup {Left, None} /\ late' \subseteq Requests
      /\ pass' \in Passes
  <2>0. /\ jobs \subseteq Meetings /\ over \subseteq Meetings
        /\ tell \subseteq Meetings \X {"active", "failed"}
        /\ lock \in Requests \cup {Left, None} /\ late \subseteq Requests
    BY DEF TypeOK
  <2>1. ASSUME NEW r \in Requests, Request(r) PROVE <1>3!:
    <3>1. ASSUME NEW role \in Roles, Arrive(r, role) PROVE <1>3!:
      <4>1. [pc |-> "request", role |-> role, m |-> None] \in Requested
        BY DEF Requested
      <4> QED
        BY <1>2, <2>0, <3>1, <4>1 DEF Arrive
    <3>2. CASE Suppressed(r)
      BY <1>2, <2>0, <3>2 DEF Suppressed, PassThrough, Return
    <3>3. CASE StartProvisioning(r)
      <4>1. room' \in Rooms
        BY <1>2, <3>3 DEF StartProvisioning, Rooms
      <4>2. req' \in [Requests -> {NoRequest} \cup Requested]
        BY <3>3, RequestMoves DEF StartProvisioning
      <4> QED
        BY <1>2, <2>0, <3>3, <4>1, <4>2 DEF StartProvisioning, PassThrough
    <3>4. CASE ReadActiveRoom(r)
      <4>1. CASE room.current = None
        <5>1. req' \in [Requests -> {NoRequest} \cup Requested]
          BY <3>4, <4>1, RequestMoves DEF ReadActiveRoom
        <5> QED
          BY <1>2, <2>0, <3>4, <4>1, <5>1 DEF ReadActiveRoom, PassThrough
      <4>2. CASE room.current # None
        <5>1. PICK pc \in {"validate", "clear"} :
                req' = [req EXCEPT ![r] = [req[r] EXCEPT !.m = room.current, !.pc = pc]]
          BY <3>4, <4>2 DEF ReadActiveRoom
        <5>2. req[r] \in Requested
          BY <1>2, <3>4 DEF ReadActiveRoom, NoRequest
        <5>3. [req[r] EXCEPT !.m = room.current, !.pc = pc] \in Requested
          BY <1>2, <5>2 DEF Requested, Rooms
        <5> QED
          BY <1>2, <2>0, <3>4, <4>2, <5>1, <5>3 DEF ReadActiveRoom
      <4> QED
        BY <4>1, <4>2
    <3>5. CASE ClearRoom(r)
      <4>1. room' \in Rooms
        BY <3>5, IdleType DEF ClearRoom
      <4>2. req' \in [Requests -> {NoRequest} \cup Requested]
        BY <3>5, RequestMoves DEF ClearRoom
      <4> QED
        BY <1>2, <2>0, <3>5, <4>1, <4>2 DEF ClearRoom, Release
    <3>6. CASE TrustRuntime(r)
      <4>1. req' \in [Requests -> {NoRequest} \cup Requested]
        BY <3>6, RequestMoves DEF TrustRuntime
      <4> QED
        BY <1>2, <2>0, <3>6, <4>1 DEF TrustRuntime, Release
    <3>7. CASE RuntimeGone(r)
      <4>1. room' \in Rooms
        BY <3>7, CompleteRoomType DEF RuntimeGone
      <4>2. req' \in [Requests -> {NoRequest} \cup Requested]
        BY <3>7, RequestMoves DEF RuntimeGone
      <4> QED
        BY <1>2, <2>0, <3>7, <4>1, <4>2 DEF RuntimeGone, Release
    <3>8. CASE JoinUrl(r)
      BY <1>2, <2>0, <3>8 DEF JoinUrl, Return
    <3>9. CASE RebuildRoom(r)
      <4>1. room' \in Rooms
        BY <3>9, CompleteRoomType DEF RebuildRoom
      <4>2. req' \in [Requests -> {NoRequest} \cup Requested]
        BY <3>9, RequestMoves DEF RebuildRoom
      <4> QED
        BY <1>2, <2>0, <3>9, <4>1, <4>2 DEF RebuildRoom
    <3>10. CASE CheckRoom(r)
      <4>1. req' \in [Requests -> {NoRequest} \cup Requested]
        BY <3>10, RequestMoves DEF CheckRoom
      <4> QED
        BY <1>2, <2>0, <3>10, <4>1 DEF CheckRoom
    <3>11. CASE InsertFails(r)
      BY <1>2, <2>0, <3>11 DEF InsertFails, Return
    <3>12. ASSUME NEW m \in Meetings, InsertMeeting(r, m) PROVE <1>3!:
      BY <1>2, <2>0, <3>12 DEF InsertMeeting, Return
    <3>13. CASE RequestFails(r)
      BY <1>2, <2>0, <3>13 DEF RequestFails, Release, PassThrough, Return
    <3> QED
      BY <2>1, <3>1, <3>2, <3>3, <3>4, <3>5, <3>6, <3>7, <3>8, <3>9, <3>10, <3>11, <3>12, <3>13
      DEF Request
  <2>2. ASSUME NEW m \in Meetings, Meeting(m) PROVE <1>3!:
    <3>1. CASE OnMeetingActive(m)
      <4>1. room' = [room EXCEPT !.state = "Active", !.current = m, !.retry = 0]
        BY <3>1 DEF OnMeetingActive
      <4>2. 0 \in 0 .. MaxAutoRetries
        BY RoomAssumption
      <4>3. room' \in Rooms
        BY <1>2, <4>1, <4>2 DEF Rooms
      <4> QED
        BY <1>2, <2>0, <3>1, <4>3 DEF OnMeetingActive
    <3>2. CASE OnMeetingFailed(m)
      <4>1. NextRetry(room.retry) \in 0 .. MaxAutoRetries
        BY <1>2, NextRetryType DEF Rooms
      <4> QED
        BY <1>2, <2>0, <3>2, <4>1 DEF OnMeetingFailed, Rooms
    <3>3. CASE EndClass(m)
      <4>1. room' \in Rooms
        BY <3>3, CompleteRoomType DEF EndClass
      <4> QED
        BY <1>2, <2>0, <3>3, <4>1 DEF EndClass
    <3>4. CASE PromoteJob(m) \/ RefuseJob(m) \/ ActivateMeeting(m) \/ FailMeeting(m)
      BY <1>2, <2>0, <3>4 DEF PromoteJob, RefuseJob, ActivateMeeting, FailMeeting
    <3>5. CASE TimeOut(m) \/ RuntimeEnds(m) \/ MarkMeetingStale(m)
      BY <1>2, <2>0, <3>5 DEF TimeOut, RuntimeEnds, MarkMeetingStale
    <3> QED
      BY <2>2, <3>1, <3>2, <3>3, <3>4, <3>5 DEF Meeting
  <2>3. ASSUME NEW t \in tell, WorkerCrash(t) PROVE <1>3!:
    BY <1>2, <2>0, <2>3 DEF WorkerCrash
  <2>4. CASE LockExpires
    BY <1>2, <2>0, <2>4 DEF LockExpires
  <2>5. CASE ServerRestart
    BY <1>2, <2>0, <2>5 DEF ServerRestart
  <2>6. CASE ResetRoom
    BY <1>2, <2>0, <2>6, IdleType DEF ResetRoom
  <2>7. CASE DebounceElapses
    BY <1>2, <2>0, <2>7 DEF DebounceElapses, Rooms
  <2>8. CASE ReadRoom
    BY <1>2, <2>0, <2>8 DEF ReadRoom, Passes, Rooms
  <2>9. CASE JudgeRoom
    <3>1. pass' \in Passes
      BY <2>9, JudgeWrites
    <3> QED
      BY <1>2, <2>0, <2>9, <3>1 DEF JudgeRoom
  <2>10. CASE RepairRoom
    <3>1. pass \in [pc : {"write"}, state : {"Idle", "Active"}, m : Meetings \cup {None}]
      BY <1>2, <2>10 DEF RepairRoom, Passes, NoPass
    <3>2. room' \in Rooms
      BY <1>2, <2>10, <3>1 DEF RepairRoom, Rooms
    <3> QED
      BY <1>2, <2>0, <2>10, <3>2 DEF RepairRoom, Passes
  <2>11. CASE UNCHANGED vars
    BY <1>2, <2>0, <2>11 DEF vars
  <2> QED
    BY <2>1, <2>2, <2>3, <2>4, <2>5, <2>6, <2>7, <2>8, <2>9, <2>10, <2>11
    DEF Next, ReconcileRooms
<1> QED
  BY <1>1, <1>3 DEF TypeOK, Rooms, Requested, Passes

\* Every row, request, lock and pass of a room is well typed, and so are its
\* meetings.
THEOREM TypeCorrect == Spec => []TypeOK
BY TypeInitial, TypeInductive, PTL DEF Spec

\* A room does to its meetings only what MeetingFSM allows, so that what is shown
\* of MeetingFSM holds of them.
THEOREM ImplementsFSM == Spec => FSMSpec
<1>1. Init => FSMInit
  BY DEF Init
<1>2. TypeOK /\ [Next]_vars => [FSMNext]_state
  BY StepIsFSM
<1> QED
  BY <1>1, <1>2, TypeCorrect, PTL DEF Spec, FSMSpec
-----------------------------------------------------------------------------
\* A completion leaves the room Idle, or as it was.
LEMMA CompleteNames ==
  ASSUME TypeOK, Named(room), NEW m, CompleteMeeting(m),
         \A k \in Meetings : state[k] \in Started => state'[k] \in Started
  PROVE  Named(room)'
BY DEF CompleteMeeting, Idle, Named, TypeOK

\* Rows, reports and passes name meetings that were started.
LEMMA NamedInductive == IInv /\ [Next]_vars => IInv'
<1> SUFFICES ASSUME IInv, [Next]_vars PROVE IInv'
  OBVIOUS
<1> USE DEF work, key, calls
<1>1. TypeOK /\ TypeOK' /\ room \in Rooms
  BY TypeInductive DEF IInv, TypeOK, Rooms
<1>2. \A k \in Meetings : state[k] \in Started => state'[k] \in Started
  BY <1>1, StartedStays, StepIsFSM DEF TypeOK
<1>3. ASSUME UNCHANGED room PROVE Named(room)'
  BY <1>1, <1>2, <1>3 DEF IInv, Named, TypeOK
<1>4. ASSUME tell' \subseteq tell PROVE ReportsStarted'
  BY <1>2, <1>4 DEF IInv, ReportsStarted
<1>5. ASSUME UNCHANGED pass PROVE WritesStarted'
  BY <1>1, <1>2, <1>5 DEF IInv, WritesStarted, TypeOK, NoPass
<1>6. ASSUME NEW r \in Requests, Request(r) PROVE IInv'
  <2>1. UNCHANGED <<tell, pass>>
    BY <1>6 DEF Request, Arrive, Suppressed, StartProvisioning, ReadActiveRoom, ClearRoom,
       TrustRuntime, RuntimeGone, RequestFails, JoinUrl, RebuildRoom, CheckRoom, InsertFails, InsertMeeting
  <2>2. CASE UNCHANGED room
    BY <1>1, <1>3, <1>4, <1>5, <2>1, <2>2 DEF IInv
  <2>3. CASE StartProvisioning(r) \/ ClearRoom(r)
    <3>1. Named(room)'
      BY <1>1, <2>3 DEF StartProvisioning, ClearRoom, Idle, Named, Rooms
    <3> QED
      BY <1>1, <1>4, <1>5, <2>1, <3>1 DEF IInv
  <2>4. CASE RuntimeGone(r) \/ RebuildRoom(r)
    <3>1. Named(room)'
      BY <1>1, <1>2, <2>4, CompleteNames DEF RuntimeGone, RebuildRoom, IInv
    <3> QED
      BY <1>1, <1>4, <1>5, <2>1, <3>1 DEF IInv
  <2> QED
    BY <1>6, <2>2, <2>3, <2>4 DEF Request, Arrive, Suppressed, ReadActiveRoom, TrustRuntime,
       RequestFails, JoinUrl, CheckRoom, InsertFails, InsertMeeting
<1>7. ASSUME NEW m \in Meetings, Meeting(m) PROVE IInv'
  <2>1. UNCHANGED pass
    BY <1>7 DEF Meeting, PromoteJob, RefuseJob, ActivateMeeting, FailMeeting, OnMeetingActive,
       OnMeetingFailed, TimeOut, RuntimeEnds, EndClass, MarkMeetingStale
  <2>2. WritesStarted'
    BY <1>5, <2>1
  <2>3. CASE ActivateMeeting(m)
    <3>1. state'[m] = "Active" /\ UNCHANGED room /\ tell' = tell \cup {<<m, "active">>}
      BY <1>1, <2>3 DEF ActivateMeeting, Activate, Goes, TypeOK, StateOK
    <3>2. ReportsStarted'
      BY <1>2, <3>1 DEF IInv, ReportsStarted, Started
    <3> QED
      BY <1>1, <1>3, <2>2, <3>1, <3>2 DEF IInv
  <2>4. CASE FailMeeting(m)
    <3>1. \A k \in Meetings : <<k, "active">> \in tell' => <<k, "active">> \in tell
      BY <2>4 DEF FailMeeting
    <3>2. ReportsStarted' /\ UNCHANGED room
      BY <1>2, <2>4, <3>1 DEF IInv, ReportsStarted, FailMeeting
    <3> QED
      BY <1>1, <1>3, <2>2, <3>2 DEF IInv
  <2>5. CASE OnMeetingActive(m)
    <3>1. state[m] \in Started /\ m # None /\ UNCHANGED state
      BY <2>5, RoomAssumption DEF OnMeetingActive, IInv, ReportsStarted
    <3>2. room'.state = "Active" /\ room'.current = m
      BY <1>1, <2>5 DEF OnMeetingActive, Rooms
    <3>3. Named(room)'
      BY <3>1, <3>2 DEF Named
    <3> QED
      BY <1>1, <1>4, <2>2, <2>5, <3>3 DEF IInv, OnMeetingActive
  <2>6. CASE OnMeetingFailed(m)
    <3>1. room'.state \in {"Failed", "Idle"} /\ room'.current = None
      BY <1>1, <2>6 DEF OnMeetingFailed, Rooms
    <3>2. Named(room)'
      BY <3>1 DEF Named
    <3> QED
      BY <1>1, <1>4, <2>2, <2>6, <3>2 DEF IInv, OnMeetingFailed
  <2>7. CASE EndClass(m)
    <3>1. Named(room)'
      BY <1>1, <1>2, <2>7, CompleteNames DEF EndClass, IInv
    <3> QED
      BY <1>1, <1>4, <2>2, <2>7, <3>1 DEF IInv, EndClass
  <2>8. CASE UNCHANGED <<room, tell>>
    BY <1>1, <1>3, <1>4, <2>2, <2>8 DEF IInv
  <2> QED
    BY <1>7, <2>3, <2>4, <2>5, <2>6, <2>7, <2>8 DEF Meeting, PromoteJob, RefuseJob, TimeOut,
       RuntimeEnds, MarkMeetingStale
<1>8. CASE ResetRoom \/ DebounceElapses
  <2>1. Named(room)' /\ UNCHANGED <<tell, pass>>
    BY <1>1, <1>8 DEF ResetRoom, DebounceElapses, Idle, Named, Rooms, IInv
  <2> QED
    BY <1>1, <1>4, <1>5, <2>1 DEF IInv
<1>9. CASE ReadRoom
  <2>1. WritesStarted' /\ UNCHANGED <<room, tell>>
    BY <1>9 DEF ReadRoom, WritesStarted
  <2> QED
    BY <1>1, <1>3, <1>4, <2>1 DEF IInv
<1>10. CASE JudgeRoom
  <2>1. UNCHANGED <<state, room, tell>>
    BY <1>10 DEF JudgeRoom
  <2>2. WritesStarted'
    BY <1>1, <1>10, <2>1, JudgeWrites DEF WritesStarted
  <2> QED
    BY <1>1, <1>3, <1>4, <2>1, <2>2 DEF IInv
<1>11. CASE RepairRoom
  <2>1. room'.state = pass.state /\ room'.current = pass.m /\ UNCHANGED <<state, tell>>
    BY <1>1, <1>11 DEF RepairRoom, Rooms
  <2>2. Named(room)' /\ WritesStarted'
    BY <1>11, <2>1 DEF RepairRoom, IInv, WritesStarted, Named, NoPass
  <2> QED
    BY <1>1, <1>4, <2>1, <2>2 DEF IInv
<1>12. CASE (\E t \in tell : WorkerCrash(t)) \/ LockExpires \/ ServerRestart \/ UNCHANGED vars
  <2>1. UNCHANGED <<room, pass>> /\ tell' \subseteq tell
    BY <1>12 DEF WorkerCrash, LockExpires, ServerRestart, vars
  <2> QED
    BY <1>1, <1>3, <1>4, <1>5, <2>1 DEF IInv
<1> QED
  BY <1>6, <1>7, <1>8, <1>9, <1>10, <1>11, <1>12 DEF Next, ReconcileRooms

\* Whatever joins, resets, callbacks, completions, crashes and passes do and
\* however old what they know, the room names a meeting exactly while it is
\* Active, and one that was started.
THEOREM PointsCorrect == Spec => []PointsToStarted
<1>1. Init => IInv
  <2> SUFFICES ASSUME Init PROVE IInv
    OBVIOUS
  <2>1. Named(room) /\ ReportsStarted /\ WritesStarted
    BY DEF Init, Named, ReportsStarted, WritesStarted, NoPass
  <2> QED
    BY <2>1, TypeInitial DEF IInv
<1>2. IInv => PointsToStarted
  BY DEF IInv, Named, Started, PointsToStarted
<1> QED
  BY <1>1, <1>2, NamedInductive, PTL DEF Spec
-----------------------------------------------------------------------------
\* A request takes the lock when it has an Active room to judge, and gives it up
\* with the judgement.
LEMMA LockInductive == TypeOK /\ LockIsReleased /\ [Next]_vars => LockIsReleased'
<1> SUFFICES ASSUME TypeOK, LockIsReleased, [Next]_vars PROVE LockIsReleased'
  OBVIOUS
<1> USE DEF work, key, calls
<1>1. /\ req \in [Requests -> {NoRequest} \cup Requested]
      /\ {None, Left} \cap Requests = {} /\ Left # None
  BY RoomAssumption DEF TypeOK, Requested
<1>2. ASSUME NEW r \in Requests, Request(r) PROVE LockIsReleased'
  <2>1. ASSUME NEW pc \in {"check", "url", "insert"}, Step(r, pc) \/ Return(r) \/ AfterRequest(r)
        PROVE  /\ req'[r].pc \notin {"validate", "clear"}
               /\ \A q \in Requests \ {r} : req'[q] = req[q]
    BY <1>1, <2>1 DEF Step, Return, AfterRequest, NoRequest, Requested
  <2>2. CASE /\ req[r].pc \notin {"validate", "clear"} /\ (UNCHANGED key \/ PassThrough)
             /\ \E pc \in {"check", "url", "insert"} : Step(r, pc) \/ Return(r) \/ AfterRequest(r)
    BY <1>1, <2>1, <2>2 DEF LockIsReleased, PassThrough
  <2>3. CASE req[r].pc \in {"validate", "clear"} /\ Release(r)
             /\ \E pc \in {"check", "url", "insert"} : Step(r, pc) \/ Return(r) \/ AfterRequest(r)
    BY <1>1, <2>1, <2>3 DEF LockIsReleased, Release
  <2>4. ASSUME NEW role \in Roles, Arrive(r, role) PROVE LockIsReleased'
    BY <1>1, <2>4 DEF LockIsReleased, Arrive
  <2>5. CASE ReadActiveRoom(r) /\ room.current # None
    <3>1. PICK pc \in {"validate", "clear"} :
            req' = [req EXCEPT ![r] = [req[r] EXCEPT !.m = room.current, !.pc = pc]]
      BY <2>5 DEF ReadActiveRoom
    <3>2. req[r] \in Requested
      BY <1>1, <2>5 DEF ReadActiveRoom, NoRequest
    <3>3. req'[r].pc = pc /\ \A q \in Requests \ {r} : req'[q] = req[q]
      BY <1>1, <3>1, <3>2 DEF Requested
    <3>4. lock = None /\ lock' = r /\ UNCHANGED late
      BY <2>5 DEF ReadActiveRoom
    <3> QED
      BY <1>1, <3>3, <3>4 DEF LockIsReleased
  <2> QED
    BY <1>2, <2>2, <2>3, <2>4, <2>5 DEF Request, Suppressed, StartProvisioning, ReadActiveRoom,
       ClearRoom, TrustRuntime, RuntimeGone, RequestFails, JoinUrl, RebuildRoom, CheckRoom,
       InsertFails, InsertMeeting
<1>3. CASE LockExpires
  BY <1>1, <1>3 DEF LockExpires, LockIsReleased
<1>4. CASE ServerRestart
  BY <1>1, <1>4 DEF ServerRestart, LockIsReleased, NoRequest
<1>5. CASE UNCHANGED calls
  BY <1>5 DEF LockIsReleased
<1>6. ASSUME NEW m \in Meetings, Meeting(m) PROVE UNCHANGED calls
  BY <1>6 DEF Meeting, PromoteJob, RefuseJob, ActivateMeeting, FailMeeting, OnMeetingActive,
     OnMeetingFailed, TimeOut, RuntimeEnds, EndClass, MarkMeetingStale
<1> QED
  BY <1>2, <1>3, <1>4, <1>5, <1>6 DEF Next, vars, WorkerCrash, ResetRoom, DebounceElapses,
     ReconcileRooms, ReadRoom, JudgeRoom, RepairRoom

\* A request holds the lock of a room exactly while it is inside, unless it
\* expired on it: for any number of requests, no exit of requestProvisioning,
\* by an answer or by an error, keeps the lock; what a failed release leaves in
\* Redis has no request inside.
THEOREM LockCorrect == Spec => []LockIsReleased
<1>1. Init => LockIsReleased
  BY RoomAssumption DEF Init, LockIsReleased, NoRequest
<1> QED
  BY <1>1, LockInductive, TypeCorrect, PTL DEF Spec

\* Every way to the insert but the rebuild turns a learner away.
LEMMA LearnersInductive == TypeOK /\ LearnersOnlyRebuild /\ [Next]_vars => LearnersOnlyRebuild'
<1> SUFFICES ASSUME TypeOK, LearnersOnlyRebuild, [Next]_vars,
                    NEW q \in Requests, req'[q].role = "learner",
                    req'[q].pc \in {"check", "insert"}
             PROVE  req'[q].m \in over'
  BY DEF LearnersOnlyRebuild
<1> USE DEF work, key, calls
<1>1. req \in [Requests -> {NoRequest} \cup Requested]
  BY DEF TypeOK, Requested
<1>2. ASSUME NEW r \in Requests, Request(r) PROVE req'[q].m \in over'
  <2>1. UNCHANGED over
    BY <1>2 DEF Request, Arrive, Suppressed, StartProvisioning, ReadActiveRoom, ClearRoom,
       TrustRuntime, RuntimeGone, RequestFails, JoinUrl, RebuildRoom, CheckRoom, InsertFails, InsertMeeting
  <2>2. CASE req'[q] = req[q]
    BY <2>1, <2>2 DEF LearnersOnlyRebuild
  <2>3. CASE q = r /\ CheckRoom(r)
    BY <1>1, <2>1, <2>3 DEF CheckRoom, Step, Return, LearnersOnlyRebuild, NoRequest, Requested
  <2>4. CASE q = r /\ RebuildRoom(r)
    BY <1>1, <2>1, <2>4 DEF RebuildRoom, Step, NoRequest, Requested
  <2>5. CASE AfterRequest(r) /\ req[r].pc # "idle"
    BY <1>1, <2>2, <2>5 DEF AfterRequest, Step, Return, NoRequest, Requested
  <2>6. CASE Return(r)
    BY <1>1, <2>2, <2>6 DEF Return, NoRequest
  <2>7. ASSUME NEW role \in Roles, Arrive(r, role) PROVE req'[q].m \in over'
    BY <1>1, <2>2, <2>7 DEF Arrive
  <2>8. CASE TrustRuntime(r)
    BY <1>1, <2>2, <2>8 DEF TrustRuntime, Step, NoRequest, Requested
  <2>9. CASE ReadActiveRoom(r) /\ room.current # None
    <3>1. PICK pc \in {"validate", "clear"} :
            req' = [req EXCEPT ![r] = [req[r] EXCEPT !.m = room.current, !.pc = pc]]
      BY <2>9 DEF ReadActiveRoom
    <3>2. req[r] \in Requested
      BY <1>1, <2>9 DEF ReadActiveRoom, NoRequest
    <3> QED
      BY <1>1, <2>2, <3>1, <3>2 DEF Requested
  <2>10. CASE (CheckRoom(r) \/ RebuildRoom(r)) /\ q # r
    BY <1>1, <2>2, <2>10 DEF CheckRoom, RebuildRoom, Step, Return
  <2> QED
    BY <1>2, <2>3, <2>4, <2>5, <2>6, <2>7, <2>8, <2>9, <2>10 DEF Request, Suppressed,
       StartProvisioning, ReadActiveRoom, ClearRoom, RuntimeGone, RequestFails, JoinUrl, InsertFails,
       InsertMeeting
<1>3. CASE ServerRestart
  BY <1>3 DEF ServerRestart, NoRequest
<1>4. CASE UNCHANGED req /\ over \subseteq over'
  BY <1>4 DEF LearnersOnlyRebuild
<1>5. ASSUME NEW m \in Meetings, Meeting(m) PROVE UNCHANGED req /\ over \subseteq over'
  BY <1>5 DEF Meeting, PromoteJob, RefuseJob, ActivateMeeting, FailMeeting, OnMeetingActive,
     OnMeetingFailed, TimeOut, RuntimeEnds, EndClass, MarkMeetingStale
<1> QED
  BY <1>2, <1>3, <1>4, <1>5 DEF Next, vars, WorkerCrash, LockExpires, ResetRoom,
     DebounceElapses, ReconcileRooms, ReadRoom, JudgeRoom, RepairRoom

\* A learner's request inserts a meeting only in place of one BBB has ended.
THEOREM LearnersCorrect == Spec => []LearnersOnlyRebuild
<1>1. Init => LearnersOnlyRebuild
  BY DEF Init, LearnersOnlyRebuild, NoRequest
<1> QED
  BY <1>1, LearnersInductive, TypeCorrect, PTL DEF Spec

-----------------------------------------------------------------------------
(***************************************************************************)
(* One meeting to a room.  The existence check keeps it so when no two     *)
(* requests are inside at a time: the meetings change under a request that *)
(* is about to insert, but none that is not over appears.                  *)
(***************************************************************************)
Inside(r) == req[r].pc # "idle"

OneRequest == \A r, s \in Requests : Inside(r) /\ Inside(s) => r = s

OneMeeting == \A m, n \in Meetings : state[m] \in Unended /\ state[n] \in Unended => m = n

InsertsAlone == \A r \in Requests : req[r].pc = "insert" => ~HasUnended

AloneInv == TypeOK /\ OneMeeting /\ InsertsAlone

NoneAppears == \A m \in Meetings : state'[m] \in Unended => state[m] \in Unended

LEMMA OneMeetingCounted ==
  ASSUME OneMeeting
  PROVE  OneMeetingPerRoom
<1> DEFINE unended == {m \in Meetings : state[m] \in Unended}
<1>1. CASE unended = {}
  BY <1>1, FS_EmptySet DEF OneMeetingPerRoom
<1>2. CASE unended # {}
  <2>1. PICK m : unended = {m}
    BY <1>2 DEF OneMeeting
  <2>2. Cardinality(unended) = 1
    <3> HIDE DEF unended
    <3> QED
      BY <2>1, FS_Singleton
  <2> QED
    BY <2>2 DEF OneMeetingPerRoom
<1> QED
  BY <1>1, <1>2

\* Everything but an insert leaves at most the meetings that are not over.
LEMMA ChangeAppears ==
  ASSUME StateOK, NEW m \in Meetings,
         Promote(m) \/ Activate(m) \/ Complete(m) \/ Retry(m) \/ GoStale(m) \/ Fail(m)
  PROVE  NoneAppears
BY DEF NoneAppears, StateOK, Promote, Activate, Complete, Retry, GoStale, Fail, Goes, Unended,
       Live, Ended

LEMMA CompleteAppears ==
  ASSUME StateOK, NEW m \in Meetings, CompleteMeeting(m)
  PROVE  NoneAppears
BY ChangeAppears DEF CompleteMeeting, NoneAppears

LEMMA QuietAppears ==
  ASSUME TypeOK, [Next]_vars,
         ~ \E r \in Requests, m \in Meetings : InsertMeeting(r, m)
  PROVE  NoneAppears
<1> USE DEF work, key, calls
<1>0. StateOK
  BY DEF TypeOK
<1>1. CASE UNCHANGED state
  BY <1>1 DEF NoneAppears
<1>2. ASSUME NEW r \in Requests, RuntimeGone(r) \/ RebuildRoom(r) PROVE NoneAppears
  BY <1>0, <1>1, <1>2, CompleteAppears DEF RuntimeGone, RebuildRoom, CompleteMeeting, TypeOK
<1>3. ASSUME NEW r \in Requests, Request(r) PROVE NoneAppears
  BY <1>1, <1>2, <1>3 DEF Request, Arrive, Suppressed, StartProvisioning, ReadActiveRoom,
     ClearRoom, TrustRuntime, RequestFails, JoinUrl, CheckRoom, InsertFails
<1>4. ASSUME NEW m \in Meetings, Meeting(m) PROVE NoneAppears
  BY <1>0, <1>1, <1>4, ChangeAppears, CompleteAppears DEF Meeting, PromoteJob, RefuseJob,
     ActivateMeeting, FailMeeting, OnMeetingActive, OnMeetingFailed, TimeOut, RuntimeEnds,
     EndClass, MarkMeetingStale
<1> QED
  BY <1>1, <1>3, <1>4 DEF Next, vars, WorkerCrash, LockExpires, ServerRestart, ResetRoom,
     DebounceElapses, ReconcileRooms, ReadRoom, JudgeRoom, RepairRoom

\* Only the existence check sends a request to the insert.
LEMMA InsertReached ==
  ASSUME TypeOK, [Next]_vars, NEW q \in Requests, req'[q].pc = "insert"
  PROVE  req[q].pc = "insert" \/ (~HasUnended /\ UNCHANGED state)
<1> USE DEF work, key, calls
<1>1. req \in [Requests -> {NoRequest} \cup Requested]
  BY DEF TypeOK, Requested
<1>2. CASE req'[q] = req[q]
  BY <1>2
<1>3. ASSUME NEW r \in Requests, Request(r), r = q
      PROVE  ~HasUnended /\ UNCHANGED state
  <2>1. req[q].pc # "idle" => req[q] \in Requested
    BY <1>1 DEF NoRequest
  <2>2. CASE CheckRoom(q)
    BY <1>1, <2>2 DEF CheckRoom, Return, NoRequest
  <2>3. ASSUME NEW pc \in {"check", "url"}, req[q].pc # "idle",
               Step(q, pc) \/ Return(q) \/ AfterRequest(q)
        PROVE  FALSE
    BY <1>1, <2>1, <2>3 DEF Step, Return, AfterRequest, NoRequest, Requested
  <2>4. ASSUME NEW role \in Roles, Arrive(q, role) PROVE FALSE
    BY <1>1, <2>4 DEF Arrive
  <2>5. CASE ReadActiveRoom(q) /\ room.current # None
    <3>1. PICK pc \in {"validate", "clear"} :
            req' = [req EXCEPT ![q] = [req[q] EXCEPT !.m = room.current, !.pc = pc]]
      BY <2>5 DEF ReadActiveRoom
    <3> QED
      BY <1>1, <2>1, <2>5, <3>1 DEF ReadActiveRoom, Requested
  <2> QED
    BY <1>3, <2>2, <2>3, <2>4, <2>5 DEF Request, Suppressed, StartProvisioning, ReadActiveRoom,
       ClearRoom, TrustRuntime, RuntimeGone, RequestFails, JoinUrl, RebuildRoom, InsertFails, InsertMeeting
<1>4. ASSUME NEW r \in Requests, Request(r), r # q PROVE req'[q] = req[q]
  BY <1>1, <1>4 DEF Request, Arrive, Suppressed, StartProvisioning, ReadActiveRoom, ClearRoom,
     TrustRuntime, RuntimeGone, RequestFails, JoinUrl, RebuildRoom, CheckRoom, InsertFails, InsertMeeting,
     Step, Return, AfterRequest
<1>5. CASE ServerRestart
  BY <1>5 DEF ServerRestart, NoRequest
<1>6. ASSUME NEW m \in Meetings, Meeting(m) PROVE UNCHANGED req
  BY <1>6 DEF Meeting, PromoteJob, RefuseJob, ActivateMeeting, FailMeeting, OnMeetingActive,
     OnMeetingFailed, TimeOut, RuntimeEnds, EndClass, MarkMeetingStale
<1> QED
  BY <1>2, <1>3, <1>4, <1>5, <1>6 DEF Next, vars, WorkerCrash, LockExpires, ResetRoom,
     DebounceElapses, ReconcileRooms, ReadRoom, JudgeRoom, RepairRoom

LEMMA AloneInductive == AloneInv /\ OneRequest /\ [Next]_vars => AloneInv'
<1> SUFFICES ASSUME AloneInv, OneRequest, [Next]_vars PROVE AloneInv'
  OBVIOUS
<1>0. TypeOK /\ TypeOK'
  BY TypeInductive DEF AloneInv
<1>1. CASE ~ \E r \in Requests, m \in Meetings : InsertMeeting(r, m)
  <2>1. NoneAppears
    BY <1>0, <1>1, QuietAppears
  <2>2. OneMeeting'
    BY <2>1 DEF AloneInv, OneMeeting, NoneAppears
  <2>3. InsertsAlone'
    BY <1>0, <2>1, InsertReached DEF AloneInv, InsertsAlone, HasUnended, NoneAppears
  <2> QED
    BY <1>0, <2>2, <2>3 DEF AloneInv
<1>2. ASSUME NEW r \in Requests, NEW m \in Meetings, InsertMeeting(r, m) PROVE AloneInv'
  <2>1. ~HasUnended /\ Inside(r)
    BY <1>2 DEF InsertMeeting, AloneInv, InsertsAlone, Inside
  <2>2. \A n \in Meetings : state'[n] \in Unended => n = m
    BY <1>0, <1>2, <2>1 DEF InsertMeeting, Insert, Goes, TypeOK, StateOK, HasUnended
  <2>3. OneMeeting'
    BY <2>2 DEF OneMeeting
  <2>4. \A q \in Requests : req'[q].pc # "insert"
    BY <1>0, <1>2, <2>1 DEF InsertMeeting, Return, OneRequest, Inside, TypeOK, NoRequest
  <2>5. InsertsAlone'
    BY <2>4 DEF InsertsAlone
  <2> QED
    BY <1>0, <2>3, <2>5 DEF AloneInv
<1> QED
  BY <1>1, <1>2

LEMMA AloneInit == Init => AloneInv
<1> SUFFICES ASSUME Init PROVE AloneInv
  OBVIOUS
<1>1. OneMeeting /\ InsertsAlone
  BY DEF Init, FSMInit, OneMeeting, InsertsAlone, Unended, Live, NoRequest
<1> QED
  BY <1>1, TypeInitial DEF AloneInv

\* A room to which one request at a time comes has at most one meeting that is not
\* over, for any number of its requests one after the other and whatever resets,
\* passes, callbacks and restarts do (createRoomMeetingAndEnqueue; two requests that
\* check and insert at once can add two, which the run room_two shows).
THEOREM OneMeetingAloneCorrect == MCSpec => []OneMeetingAlone
<1> DEFINE Single == \A r \in Requests \ {r1} : req[r].pc = "idle"
           Inv    == shape = "one" => Single /\ AloneInv
<1>1. MCInit => Inv
  BY AloneInit DEF MCInit, Init, NoRequest
<1>2. Inv /\ [MCNext]_<<vars, shape>> => Inv'
  <2> SUFFICES ASSUME Inv, [MCNext]_<<vars, shape>>, shape = "one", shape' = shape
               PROVE  Single' /\ AloneInv'
    BY DEF MCNext
  <2>1. Single => OneRequest
    BY DEF OneRequest, Inside
  <2>2. [Next]_vars
    BY DEF MCNext
  <2>3. AloneInv'
    BY <2>1, <2>2, AloneInductive
  <2>4. CASE MCNext
    BY <2>3, <2>4 DEF MCNext, Fits
  <2>5. CASE UNCHANGED <<vars, shape>>
    BY <2>3, <2>5 DEF vars, calls
  <2> QED
    BY <2>4, <2>5
<1>3. Inv => OneMeetingAlone
  BY OneMeetingCounted DEF AloneInv, OneMeetingAlone
<1> QED
  BY <1>1, <1>2, <1>3, PTL DEF MCSpec
=============================================================================
