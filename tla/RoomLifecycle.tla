--------------------------- MODULE RoomLifecycle ---------------------------
(***************************************************************************)
(* One room and its meetings.  Join and start requests provision the room  *)
(* under the room's Redis lock but insert the meeting after releasing it;  *)
(* the worker's callbacks, completions, resets and the reconcileRooms pass *)
(* write the room row unconditionally from what they know.                 *)
(*                                                                         *)
(* The meetings change as MeetingFSM says.  The organization's limit is    *)
(* shared with rooms that are not modelled, so a promotion can always be   *)
(* refused.  The Redis lock excludes until it expires; it is strict, as    *)
(* everywhere but in development: an acquisition that fails is an error.   *)
(***************************************************************************)
EXTENDS MeetingFSM

CONSTANTS
  Requests,         \* bound: bbbJoinRoom / bbbStartRoom requests at one time
  MaxAutoRetries,   \* failures after which a room stays Failed
  Left,             \* a key in Redis whose holder is gone
  None

ASSUME RoomAssumption ==
  /\ MaxAutoRetries \in Nat \ {0}
  /\ None \notin Meetings \cup Requests /\ Left \notin Requests \cup {None}

VARIABLES
  room,     \* the room row: state, current meeting, retryCount, and recent: it
            \* was asked to provision within provisionDebounceMs
  jobs,     \* provisioning jobs in the queue or read by a worker
  tell,     \* what workers have still to tell the room: <<meeting, outcome>>
  over,     \* meetings BBB no longer knows
  req,      \* the requests: step, role of the caller, meeting seen
  lock,     \* the request that holds the room's Redis lock, or Left
  late,     \* requests still inside whose lock has expired
  pass      \* reconcileRooms: step and what it read or is about to write

vars  == <<state, room, jobs, tell, over, req, lock, late, pass>>
work  == <<jobs, tell, over>>
key   == <<lock, late>>
calls == <<req, key>>

Roles     == {"moderator", "learner"}
NoRequest == [pc |-> "idle", role |-> None, m |-> None]
NoPass    == [pc |-> "idle", state |-> None, m |-> None]

Idle(r)        == [r EXCEPT !.state = "Idle", !.current = None]
\* bound: the counter stops where it no longer matters
NextRetry(n)   == IF n < MaxAutoRetries THEN n + 1 ELSE n
HasUnended     == \E m \in Meetings : state[m] \in Unended
InsertsPending == \E r \in Requests : req[r].pc \in {"check", "insert"}

Init ==
  /\ FSMInit
  /\ room = [state |-> "Idle", current |-> None, retry |-> 0, recent |-> FALSE]
  /\ jobs = {} /\ tell = {} /\ over = {}
  /\ req = [r \in Requests |-> NoRequest]
  /\ lock = None /\ late = {}
  /\ pass = NoPass

(***************************************************************************)
(* joinRoom, startRoomAsModerator                                          *)
(***************************************************************************)
Return(r)   == req' = [req EXCEPT ![r] = NoRequest]
Step(r, pc) == req' = [req EXCEPT ![r].pc = pc]

\* mutant: the key is deleted whatever token it holds
Release_AnyToken(r) == lock' = None /\ late' = late \ {r}

\* RoomLock.release: the key goes only if its token is the caller's, and stays
\* for the rest of its TTL when Redis does not answer, which is only logged
Release(r) ==
  /\ \/ lock' = IF lock = r THEN None ELSE lock
     \/ lock = r /\ lock' = Left
  /\ late' = late \ {r}

\* the lock is taken, if it is free, and released in the same step
PassThrough ==
  /\ lock' \in IF lock = None THEN {None, Left} ELSE {lock}
  /\ UNCHANGED late

\* mutant: the fence after requestProvisioning is gone
AfterRequest_NoFence(r) == Step(r, "check")

\* shouldEnqueue: a learner is turned away before the insert
AfterRequest(r) == IF req[r].role = "moderator" THEN Step(r, "check") ELSE Return(r)

\* a learner on a room that is not Active only waits for the trainer
Arrive(r, role) ==
  /\ req[r].pc = "idle"
  /\ role = "learner" => room.state = "Active"
  /\ req' = [req EXCEPT ![r] = [pc |-> "request", role |-> role, m |-> None]]
  /\ UNCHANGED <<state, room, work, key, pass>>

\* requestProvisioning answers without doing anything: lock held elsewhere,
\* already Provisioning, Failed for good, or debounced
Suppressed(r) ==
  /\ req[r].pc = "request"
  /\ \/ lock # None
     \/ room.state = "Provisioning"
     \/ room.state = "Failed" /\ room.retry >= MaxAutoRetries
     \/ room.state # "Active" /\ room.recent
  /\ Return(r)
  /\ PassThrough
  /\ UNCHANGED <<state, room, work, pass>>

\* a room that is not in use goes to Provisioning in one locked transaction
StartProvisioning(r) ==
  /\ req[r].pc = "request" /\ lock = None /\ ~room.recent
  /\ \/ room.state = "Idle"
     \/ room.state = "Failed" /\ room.retry < MaxAutoRetries
  /\ room' = [room EXCEPT !.state = "Provisioning", !.current = None, !.recent = TRUE]
  /\ AfterRequest(r)
  /\ PassThrough
  /\ UNCHANGED <<state, work, pass>>

\* 15 s go by, which is longer than a request takes from here to its insert
DebounceElapses ==
  /\ room.recent /\ ~InsertsPending
  /\ room' = [room EXCEPT !.recent = FALSE]
  /\ UNCHANGED <<state, work, calls, pass>>

\* An Active room: its meeting is read in the transaction and judged after it.
ReadActiveRoom(r) ==
  /\ req[r].pc = "request" /\ lock = None /\ room.state = "Active"
  /\ IF room.current = None
     THEN AfterRequest(r) /\ PassThrough
     ELSE /\ lock' = r /\ UNCHANGED late
          /\ req' = [req EXCEPT
               ![r] = [@ EXCEPT !.m = room.current,
                                !.pc = IF state[room.current] = "Active"
                                       THEN "validate" ELSE "clear"]]
  /\ UNCHANGED <<state, room, work, pass>>

\* the meeting read was not active: the room is cleared, whatever it is by now
ClearRoom(r) ==
  /\ req[r].pc = "clear"
  /\ room' = Idle(room)
  /\ Release(r)
  /\ AfterRequest(r)
  /\ UNCHANGED <<state, work, pass>>

\* validated recently, young, confirmed by BBB, or BBB cannot tell
TrustRuntime(r) ==
  /\ req[r].pc = "validate"
  /\ Release(r)
  /\ Step(r, "url")
  /\ UNCHANGED <<state, room, work, pass>>

\* completeMeetingLifecycle: the room goes Idle with its meeting, whichever
\* meeting it points to; nothing happens unless the meeting is Active
CompleteMeeting(m) ==
  IF state[m] = "Active" THEN Complete(m) /\ room' = Idle(room)
                         ELSE UNCHANGED <<state, room>>

RuntimeGone(r) ==
  /\ req[r].pc = "validate" /\ req[r].m \in over
  /\ CompleteMeeting(req[r].m)
  /\ Release(r)
  /\ AfterRequest(r)
  /\ UNCHANGED <<work, pass>>

\* the acquisition, a query or the completion throws: withLock releases in its
\* finally clause and the error leaves the request
RequestFails(r) ==
  /\ \/ req[r].pc = "request" /\ PassThrough
     \/ req[r].pc \in {"validate", "clear"} /\ Release(r)
  /\ Return(r)
  /\ UNCHANGED <<state, room, work, pass>>

\* a join URL, or an error that changes nothing
JoinUrl(r) ==
  /\ req[r].pc = "url"
  /\ Return(r)
  /\ UNCHANGED <<state, room, work, key, pass>>

\* ... unless the meeting is Active here and gone on BBB: it is completed and
\* replaced, for a learner too
RebuildRoom(r) ==
  /\ req[r].pc = "url"
  /\ state[req[r].m] = "Active" /\ req[r].m \in over
  /\ CompleteMeeting(req[r].m)
  /\ Step(r, "check")
  /\ UNCHANGED <<work, key, pass>>

(***************************************************************************)
(* createRoomMeetingAndEnqueue: two statements and no lock; no unique      *)
(* index backs them.                                                       *)
(***************************************************************************)
\* mutant: only meetings that already run count as existing
CheckRoom_ActiveOnly(r) ==
  /\ req[r].pc = "check"
  /\ IF \E m \in Meetings : state[m] = "Active" THEN Return(r) ELSE Step(r, "insert")
  /\ UNCHANGED <<state, room, work, key, pass>>

CheckRoom(r) ==
  /\ req[r].pc = "check"
  /\ IF HasUnended THEN Return(r) ELSE Step(r, "insert")
  /\ UNCHANGED <<state, room, work, key, pass>>

\* the job is queued after the insert, unless that fails or the server dies
InsertMeeting(r, m) ==
  /\ req[r].pc = "insert"
  /\ Insert(m)
  /\ jobs' \in {jobs, jobs \cup {m}}
  /\ Return(r)
  /\ UNCHANGED <<room, tell, over, key, pass>>

InsertFails(r) ==
  /\ req[r].pc = "insert"
  /\ Return(r)
  /\ UNCHANGED <<state, room, work, key, pass>>

\* the heartbeat fails, which nobody hears of, and the TTL ends
LockExpires ==
  /\ lock # None
  /\ late' = late \cup ({lock} \ {Left}) /\ lock' = None
  /\ UNCHANGED <<state, room, work, req, pass>>

\* the server dies; its key stays until the TTL ends
ServerRestart ==
  /\ req # [r \in Requests |-> NoRequest]
  /\ req' = [r \in Requests |-> NoRequest]
  /\ lock' = (IF lock = None THEN None ELSE Left) /\ late' = {}
  /\ UNCHANGED <<state, room, work, pass>>

\* resetBbbRoom, retryBbbMeeting: whatever state the room is in
ResetRoom ==
  /\ room' = [Idle(room) EXCEPT !.retry = 0]
  /\ UNCHANGED <<state, work, calls, pass>>

(***************************************************************************)
(* The provisioning worker and BBB.                                        *)
(***************************************************************************)
PromoteJob(m) ==
  /\ m \in jobs
  /\ jobs' = jobs \ {m}
  /\ Promote(m)
  /\ UNCHANGED <<room, tell, over, calls, pass>>

\* the organization is at its limit: the job ends, the row stays Pending
RefuseJob(m) ==
  /\ m \in jobs
  /\ jobs' = jobs \ {m}
  /\ UNCHANGED <<state, room, tell, over, calls, pass>>

ActivateMeeting(m) ==
  /\ Activate(m)
  /\ tell' = tell \cup {<<m, "active">>}
  /\ UNCHANGED <<room, jobs, over, calls, pass>>

\* provisioning fails, or the room update that follows it does
FailMeeting(m) ==
  /\ state[m] = "Provisioning" \/ <<m, "active">> \in tell
  /\ Fail(m)
  /\ tell' = (tell \ {<<m, "active">>}) \cup {<<m, "failed">>}
  /\ UNCHANGED <<room, jobs, over, calls, pass>>

OnMeetingActive(m) ==
  /\ <<m, "active">> \in tell
  /\ tell' = tell \ {<<m, "active">>}
  /\ room' = [room EXCEPT !.state = "Active", !.current = m, !.retry = 0]
  /\ UNCHANGED <<state, jobs, over, calls, pass>>

OnMeetingFailed(m) ==
  /\ <<m, "failed">> \in tell
  /\ tell' = tell \ {<<m, "failed">>}
  /\ LET n == NextRetry(room.retry)
     IN room' = [room EXCEPT !.state = IF n = MaxAutoRetries THEN "Failed" ELSE "Idle",
                             !.current = None, !.retry = n]
  /\ UNCHANGED <<state, jobs, over, calls, pass>>

\* the worker dies before it told the room
WorkerCrash(t) ==
  /\ t \in tell
  /\ tell' = tell \ {t}
  /\ UNCHANGED <<state, room, jobs, over, calls, pass>>

\* reconcileProvisioning: a meeting whose worker died is put back (its job may
\* still be redelivered) or fails; the room is not told
TimeOut(m) ==
  /\ state[m] = "Provisioning"
  /\ \/ Retry(m) /\ jobs' \in {jobs, jobs \cup {m}}
     \/ Fail(m) /\ UNCHANGED jobs
  /\ UNCHANGED <<room, tell, over, calls, pass>>

RuntimeEnds(m) ==
  /\ state[m] = "Active" /\ m \notin over
  /\ over' = over \cup {m}
  /\ UNCHANGED <<state, room, jobs, tell, calls, pass>>

\* webhook, endBbbMeeting, billing ceiling
EndClass(m) ==
  /\ state[m] = "Active"
  /\ CompleteMeeting(m)
  /\ UNCHANGED <<work, calls, pass>>

\* reconcileActiveMeetings, grant billing: the room is not told
MarkMeetingStale(m) ==
  /\ m \in over
  /\ GoStale(m)
  /\ UNCHANGED <<room, work, calls, pass>>

(***************************************************************************)
(* reconcileRooms: reads the room, then its meeting, then writes.          *)
(***************************************************************************)
Inserted == {m \in Meetings : state[m] # "Absent"}
Latest   == CHOOSE m \in Inserted : \A n \in Inserted : n <= m

ReadRoom ==
  /\ pass.pc = "idle" /\ room.state \in {"Provisioning", "Active"}
  /\ pass' = [pc |-> "read", state |-> room.state, m |-> room.current]
  /\ UNCHANGED <<state, room, work, calls>>

ToIdle     == [pc |-> "write", state |-> "Idle", m |-> None]
ToActive(m) == [pc |-> "write", state |-> "Active", m |-> m]

\* mutant: a meeting that went Stale is forgotten
ProvisioningVerdict_NotStale ==
  IF Inserted = {} THEN IF room.recent THEN NoPass ELSE ToIdle
  ELSE IF state[Latest] = "Active" THEN ToActive(Latest)
  ELSE IF state[Latest] \in Ended \ {"Stale"} THEN ToIdle ELSE NoPass

\* mutant: a meeting that is still being provisioned opens the room
ProvisioningVerdict_Early ==
  IF Inserted = {} THEN IF room.recent THEN NoPass ELSE ToIdle
  ELSE IF state[Latest] \in Live THEN ToActive(Latest)
  ELSE IF state[Latest] \in Ended THEN ToIdle ELSE NoPass

\* A Provisioning room follows its latest meeting, or, with no meeting after
\* roomStaleTimeoutMs (longer than the debounce), is given up.
\* A latest meeting that is Pending or Provisioning decides nothing.
ProvisioningVerdict ==
  IF Inserted = {} THEN IF room.recent THEN NoPass ELSE ToIdle
  ELSE IF state[Latest] = "Active" THEN ToActive(Latest)
  ELSE IF state[Latest] \in Ended THEN ToIdle ELSE NoPass

\* An Active room is given up when its meeting is not Active.
ActiveVerdict == IF pass.m # None /\ state[pass.m] = "Active" THEN NoPass ELSE ToIdle

JudgeRoom ==
  /\ pass.pc = "read"
  /\ pass' = IF pass.state = "Provisioning" THEN ProvisioningVerdict ELSE ActiveVerdict
  /\ UNCHANGED <<state, room, work, calls>>

RepairRoom ==
  /\ pass.pc = "write"
  /\ room' = [room EXCEPT !.state = pass.state, !.current = pass.m]
  /\ pass' = NoPass
  /\ UNCHANGED <<state, work, calls>>

ReconcileRooms == ReadRoom \/ JudgeRoom \/ RepairRoom
-----------------------------------------------------------------------------
Request(r) ==
  \/ \E role \in Roles : Arrive(r, role)
  \/ Suppressed(r) \/ StartProvisioning(r) \/ ReadActiveRoom(r)
  \/ ClearRoom(r) \/ TrustRuntime(r) \/ RuntimeGone(r)
  \/ RequestFails(r) \/ JoinUrl(r) \/ RebuildRoom(r)
  \/ CheckRoom(r) \/ InsertFails(r)
  \/ \E m \in Meetings : InsertMeeting(r, m)

Meeting(m) ==
  \/ PromoteJob(m) \/ RefuseJob(m) \/ ActivateMeeting(m) \/ FailMeeting(m)
  \/ OnMeetingActive(m) \/ OnMeetingFailed(m) \/ TimeOut(m)
  \/ RuntimeEnds(m) \/ EndClass(m) \/ MarkMeetingStale(m)

Next ==
  \/ \E r \in Requests : Request(r)
  \/ \E m \in Meetings : Meeting(m)
  \/ \E t \in tell : WorkerCrash(t)
  \/ LockExpires \/ ServerRestart \/ ResetRoom \/ DebounceElapses
  \/ ReconcileRooms

Spec == Init /\ [][Next]_vars

\* the task runs every 5 minutes
FairSpec == Spec /\ WF_vars(ReconcileRooms)
-----------------------------------------------------------------------------
\* The type invariant, with what the steps of a request know.
TypeOK ==
  /\ StateOK
  /\ room \in [state : {"Idle", "Provisioning", "Active", "Failed"},
               current : Meetings \cup {None}, retry : 0 .. MaxAutoRetries,
               recent : BOOLEAN]
  /\ jobs \subseteq Meetings /\ over \subseteq Meetings
  /\ tell \subseteq Meetings \X {"active", "failed"}
  /\ req \in [Requests -> {NoRequest} \cup
       [pc : {"request", "validate", "clear", "url", "check", "insert"},
        role : Roles, m : Meetings \cup {None}]]
  /\ lock \in Requests \cup {Left, None} /\ late \subseteq Requests
  /\ pass \in {NoPass} \cup
       [pc : {"read"}, state : {"Provisioning", "Active"}, m : Meetings \cup {None}] \cup
       [pc : {"write"}, state : {"Idle", "Active"}, m : Meetings \cup {None}]

\* A room has at most one meeting that is not over (the existence check in
\* createRoomMeetingAndEnqueue).
OneMeetingPerRoom == Cardinality({m \in Meetings : state[m] \in Unended}) <= 1

\* The room never points to a meeting that was not activated, and points to one
\* exactly while it is Active: no pass, callback or completion leaves the row
\* half written.
PointsToStarted ==
  /\ room.state = "Active" <=> room.current # None
  /\ room.current # None => state[room.current] \in {"Active"} \cup Ended

\* A request that judges an Active room holds the Redis lock until it leaves, by
\* an answer or by an error, or its own lock expired; a holder that comes out
\* late does not take the lock of the next.  What a failed release or a dead
\* server leaves in Redis (Left) has no request inside (withLock, release).
LockIsReleased ==
  \A r \in Requests : (lock = r \/ r \in late) <=> req[r].pc \in {"validate", "clear"}

\* A room whose row and meeting disagree is repaired without anyone joining it:
\* Active on a meeting that is over, or Provisioning with a latest meeting
\* that is Active or over (reconcileRooms).
Drifted ==
  \/ room.state = "Active" /\ state[room.current] # "Active"
  \/ /\ room.state = "Provisioning" /\ Inserted # {}
     /\ state[Latest] \in {"Active"} \cup Ended
DriftRepaired == Drifted ~> ~Drifted

\* A learner's request gets as far as the insert only as a rebuild: the class it
\* was let in for was Active and BBB had ended it (both fences of joinRoom).
LearnersOnlyRebuild ==
  \A r \in Requests : req[r].role = "learner" /\ req[r].pc \in {"check", "insert"}
                        => req[r].m \in over
=============================================================================
