--------------------------- MODULE SessionLifecycle ---------------------------
(***************************************************************************)
(* The scheduled sessions of one organization and the meetings they start. *)
(* A request of an administrator or a trainer reads a session row and      *)
(* saves it whole later on; the two listeners of                           *)
(* BbbSessionProvisioningListener do the same with its status.  Meetings   *)
(* change as MeetingFSM says, and end as BbbWebhookInbox says.             *)
(***************************************************************************)
EXTENDS BbbWebhookInbox

CONSTANTS
  Sessions, SessionCap,   \* see SessionFSM
  Creators, Editors,      \* bound: requests under way at one time, by whether
                          \* they create sessions or change one
  None

Requests == Creators \cup Editors

ASSUME NoneAssumption == None \notin Meetings \cup Requests
ASSUME SessionAssumption == IsFiniteSet(Sessions) /\ SessionCap \in Nat \ {0}

VARIABLES
  sess,       \* the session rows: status and activeMeeting
  req,        \* requests: operation, its sessions, and the row it read
  orgLock,    \* the request that holds the organization row FOR UPDATE
  events,     \* <<kind, meeting>>: published, not yet seen by the listener
  reading,    \* listener runs between their read and their save
  unbilled,   \* completed meetings whose billing is left to reconciliation
  disturbed,  \* history: sessions overwritten unseen, or LIVE from off their road
  stuck       \* history: LIVE sessions left to the next restart, because their
              \* meeting was over before or the run that was to finish them failed

history  == <<disturbed, stuck>>
vars     == <<state, runtime, inbox, sess, req, orgLock, events, reading,
              unbilled, history>>
meetings == <<state, runtime, inbox>>
requests == <<req, orgLock>>
listener == <<events, reading>>

Counting  == {"DRAFT", "SCHEDULED", "LIVE"}
NoRequest == [op |-> "idle", on |-> {}, seen |-> None]
NewRow    == [status |-> "DRAFT", link |-> None]

Counted    == {s \in Sessions : sess[s].status \in Counting}
Unused     == {s \in Sessions : sess[s].status = "Absent"}
Linking(m) == {s \in Sessions : sess[s].link = m}

Init ==
  /\ FSMInit /\ InboxInit
  /\ sess = [s \in Sessions |-> [status |-> "Absent", link |-> None]]
  /\ req = [r \in Requests |-> NoRequest]
  /\ orgLock = None
  /\ events = {} /\ reading = {} /\ unbilled = {}
  /\ disturbed = {} /\ stuck = {}

(***************************************************************************)
(* Requests.                                                               *)
(***************************************************************************)
Return(r) == req' = [req EXCEPT ![r] = NoRequest]

\* repository.save: the row becomes what was read, with the change made to it
Save(s, seen, new, astray) ==
  /\ sess' = [sess EXCEPT ![s] = new]
  /\ disturbed' = IF sess[s] # seen \/ astray THEN disturbed \cup {s} ELSE disturbed

\* mutant: the count is not made under the organization's row lock
CountSessions_NoLock(r, B) ==
  /\ req[r].op = "idle"
  /\ Cardinality(Counted) + Cardinality(B) <= SessionCap
  /\ req' = [req EXCEPT ![r] = [op |-> "create", on |-> B, seen |-> None]]
  /\ UNCHANGED <<meetings, sess, orgLock, listener, unbilled, history>>

\* create, createSessionsFromTemplate: lock the organization and count, for all
\* of the batch; over the cap the request ends here
CountSessions(r, B) ==
  /\ req[r].op = "idle" /\ orgLock = None
  /\ Cardinality(Counted) + Cardinality(B) <= SessionCap
  /\ orgLock' = r
  /\ req' = [req EXCEPT ![r] = [op |-> "create", on |-> B, seen |-> None]]
  /\ UNCHANGED <<meetings, sess, listener, unbilled, history>>

Unlock(r) == orgLock' = IF orgLock = r THEN None ELSE orgLock

InsertSessions(r) ==
  /\ req[r].op = "create"
  /\ req[r].on \subseteq Unused
  /\ sess' = [s \in Sessions |-> IF s \in req[r].on THEN NewRow ELSE sess[s]]
  /\ Return(r) /\ Unlock(r)
  /\ UNCHANGED <<meetings, listener, unbilled, history>>

\* mutant: publishing does not ask for a draft
ReadSession_AnyStatus(r, op, s) ==
  /\ req[r].op = "idle"
  /\ sess[s].status # "Absent"
  /\ op = "start" => sess[s].status = "SCHEDULED"
  /\ req' = [req EXCEPT ![r] = [op |-> op, on |-> {s}, seen |-> sess[s]]]
  /\ UNCHANGED <<meetings, sess, orgLock, listener, unbilled, history>>

\* publish asks for a draft and start for a SCHEDULED session (within its
\* window: after it, the FINISHED that startSession saves is rolled back with
\* the request it then fails); cancel and update take any
ReadSession(r, op, s) ==
  /\ req[r].op = "idle"
  /\ sess[s].status # "Absent"
  /\ op = "publish" => sess[s].status = "DRAFT"
  /\ op = "start" => sess[s].status = "SCHEDULED"
  /\ req' = [req EXCEPT ![r] = [op |-> op, on |-> {s}, seen |-> sess[s]]]
  /\ UNCHANGED <<meetings, sess, orgLock, listener, unbilled, history>>

Edited(op, seen) ==
  CASE op = "publish" -> [seen EXCEPT !.status = "SCHEDULED"]
    [] op = "cancel"  -> [seen EXCEPT !.status = "CANCELLED"]
    [] op = "update"  -> seen

SaveSession(r) ==
  /\ req[r].op \in {"publish", "cancel", "update"}
  /\ \E s \in req[r].on : Save(s, req[r].seen, Edited(req[r].op, req[r].seen), FALSE)
  /\ Return(r)
  /\ UNCHANGED <<meetings, orgLock, listener, unbilled, stuck>>

\* startSession: the meeting is inserted and linked in one transaction; the
\* session stays SCHEDULED
StartSession(r) ==
  /\ req[r].op = "start"
  /\ \E m \in Meetings, s \in req[r].on :
       Insert(m) /\ Save(s, req[r].seen, [req[r].seen EXCEPT !.link = m], FALSE)
  /\ Return(r)
  /\ UNCHANGED <<runtime, inbox, orgLock, listener, unbilled, stuck>>

\* no access, an unknown trainer, the meeting limit, a rollback
RequestFails(r) ==
  /\ req[r].op # "idle"
  /\ Return(r) /\ Unlock(r)
  /\ UNCHANGED <<meetings, sess, listener, unbilled, history>>

(***************************************************************************)
(* The meetings of the sessions.                                           *)
(***************************************************************************)
Sessionless == <<sess, requests, reading, history>>

\* what follows the commit of a completion: billing, and with it the event, or
\* neither of them
Announce(m) ==
  IF state'[m] = "Completed" /\ state[m] # "Completed"
  THEN \/ events' = events \cup {<<"completed", m>>} /\ UNCHANGED unbilled
       \/ unbilled' = unbilled \cup {m} /\ UNCHANGED events
  ELSE UNCHANGED <<events, unbilled>>

PromoteMeeting(m) ==
  Promote(m) /\ UNCHANGED <<runtime, inbox, events, unbilled, Sessionless>>

\* mutant: the event is published before BBB answers
CreateMeeting_TellsEarly(m) ==
  /\ CreateRuntime(m)
  /\ events' = events \cup {<<"provisioned", m>>}
  /\ UNCHANGED <<unbilled, Sessionless>>

CreateMeeting(m) == CreateRuntime(m) /\ UNCHANGED <<events, unbilled, Sessionless>>

ActivateMeeting(m) ==
  /\ runtime[m] # "none" /\ Activate(m)
  /\ events' = events \cup {<<"provisioned", m>>}
  /\ UNCHANGED <<runtime, inbox, unbilled, Sessionless>>

\* provisioning fails or times out (its retries are in MeetingLifecycle)
FailMeeting(m) ==
  /\ state[m] = "Provisioning" /\ Fail(m)
  /\ UNCHANGED <<runtime, inbox, events, unbilled, Sessionless>>

Inbox(m) ==
  /\ \/ RuntimeEnds(m) \/ ReceiveEnded(m) \/ HandleEnded(m)
     \/ HandleFails(m) \/ SkipEvent(m)
  /\ Announce(m)
  /\ UNCHANGED Sessionless

\* endBbbMeeting, the billing ceiling
EndClass(m) ==
  /\ Complete(m) /\ Announce(m)
  /\ UNCHANGED <<runtime, inbox, Sessionless>>

\* mutant: only a meeting the webhook never spoke of is reconciled
ReconcileRemoteGone_NoRow(m) ==
  /\ state[m] = "Active" /\ runtime[m] = "ended" /\ row[m] = "none"
  /\ Complete(m) \/ GoStale(m)
  /\ Announce(m)
  /\ UNCHANGED <<runtime, inbox, Sessionless>>

\* reconcileActiveMeetings on a confirmed end: a metered organization's meeting
\* is completed, another one goes Stale
ReconcileRemoteGone(m) ==
  /\ state[m] = "Active" /\ runtime[m] = "ended"
  /\ Complete(m) \/ GoStale(m)
  /\ Announce(m)
  /\ UNCHANGED <<runtime, inbox, Sessionless>>

\* the same pass when the meeting was completed after it read it
MarkMeetingStale(m) ==
  /\ state[m] = "Completed" /\ runtime[m] = "ended" /\ GoStale(m)
  /\ UNCHANGED <<runtime, inbox, events, unbilled, Sessionless>>

\* reconcilePendingBilling, reconcilePendingMeteredBilling: a meeting that went
\* Stale meanwhile is not looked for
ReconcileBilling(m) ==
  /\ m \in unbilled /\ state[m] = "Completed"
  /\ unbilled' = unbilled \ {m}
  /\ events' = events \cup {<<"completed", m>>}
  /\ UNCHANGED <<meetings, Sessionless>>

(***************************************************************************)
(* BbbSessionProvisioningListener.                                         *)
(***************************************************************************)
Hear(e) ==
  /\ e \in events
  /\ events' = events \ {e}
  /\ reading' = reading \cup
       {[kind |-> e[1], s |-> s, seen |-> sess[s]] :
          s \in {s \in Linking(e[2]) :
                   (sess[s].status = "LIVE") <=> (e[1] = "completed")}}
  /\ UNCHANGED <<meetings, sess, requests, unbilled, history>>

\* the status is saved, not the link, which was not read: a session whose road
\* led elsewhere meanwhile, or whose meeting is over, is LIVE all the same
SaveLive(h) ==
  /\ h \in reading /\ h.kind = "provisioned"
  /\ Save(h.s, h.seen, [sess[h.s] EXCEPT !.status = "LIVE"],
          h.seen.status # "SCHEDULED")
  /\ stuck' = IF state[h.seen.link] = "Active" THEN stuck ELSE stuck \cup {h.s}
  /\ reading' = reading \ {h}
  /\ UNCHANGED <<meetings, requests, events, unbilled>>

SaveFinished(h) ==
  /\ h \in reading /\ h.kind = "completed"
  /\ Save(h.s, h.seen, [sess[h.s] EXCEPT !.status = "FINISHED"], FALSE)
  /\ reading' = reading \ {h}
  /\ UNCHANGED <<meetings, requests, events, unbilled, stuck>>

\* The lookup or the save of a run fails: it is logged and the event is gone.
\* A provisioned meeting leaves its session SCHEDULED, a completed one LIVE.
LookupFails(e) ==
  /\ e \in events
  /\ events' = events \ {e}
  /\ stuck' = stuck \cup {s \in Linking(e[2]) : e[1] = "completed" /\ sess[s].status = "LIVE"}
  /\ UNCHANGED <<meetings, sess, requests, reading, unbilled, disturbed>>

SaveFails(h) ==
  /\ h \in reading
  /\ reading' = reading \ {h}
  /\ stuck' = IF h.kind = "completed" THEN stuck \cup {h.s} ELSE stuck
  /\ UNCHANGED <<meetings, sess, requests, events, unbilled, disturbed>>

\* mutant: no repair at startup
OrphanedLive_None == {}

\* repairOrphanedLiveSessions
OrphanedLive ==
  {s \in Sessions : /\ sess[s].status = "LIVE" /\ sess[s].link # None
                    /\ state[sess[s].link] = "Completed"}

\* The processes die with their requests, events and listener runs, and start
\* again with the repair, whose saves can fail as well.
Restart ==
  /\ <<req, events, reading, stuck>> # <<[r \in Requests |-> NoRequest], {}, {}, {}>>
  /\ req' = [r \in Requests |-> NoRequest]
  /\ orgLock' = None
  /\ events' = {}
  /\ reading' = {[kind |-> "completed", s |-> s, seen |-> sess[s]] : s \in OrphanedLive}
  /\ stuck' = stuck \ OrphanedLive
  /\ UNCHANGED <<meetings, sess, unbilled, disturbed>>
-----------------------------------------------------------------------------
Create(r) ==
  \/ \E B \in SUBSET Unused \ {{}} : CountSessions(r, B)
  \/ InsertSessions(r) \/ RequestFails(r)

Change(r) ==
  \/ \E s \in Sessions, op \in {"publish", "cancel", "update", "start"} :
       ReadSession(r, op, s)
  \/ SaveSession(r) \/ StartSession(r) \/ RequestFails(r)

Meeting(m) ==
  \/ PromoteMeeting(m) \/ CreateMeeting(m) \/ ActivateMeeting(m) \/ FailMeeting(m)
  \/ Inbox(m) \/ EndClass(m) \/ ReconcileRemoteGone(m) \/ MarkMeetingStale(m)
  \/ ReconcileBilling(m)

Listen == \E h \in reading : SaveLive(h) \/ SaveFinished(h) \/ SaveFails(h)

Next ==
  \/ \E r \in Creators : Create(r)
  \/ \E r \in Editors : Change(r)
  \/ \E m \in Meetings : Meeting(m)
  \/ \E e \in events : Hear(e) \/ LookupFails(e)
  \/ Listen \/ Restart

Spec == Init /\ [][Next]_vars

\* The reconciliation task runs every few minutes; the event bus delivers, and a
\* run of the listener ends, in a save or in a failure.
Fairness ==
  /\ \A m \in Meetings : /\ WF_vars(ReconcileRemoteGone(m))
                         /\ WF_vars(ReconcileBilling(m))
  /\ WF_vars(\E e \in events : Hear(e) \/ LookupFails(e))
  /\ WF_vars(Listen)

FairSpec == Spec /\ Fairness
-----------------------------------------------------------------------------
\* The type invariant; a request that creates holds the organization's lock.
TypeOK ==
  /\ StateOK /\ InboxOK
  /\ sess \in [Sessions -> [status : {"Absent", "FINISHED", "CANCELLED"} \cup Counting,
                            link : Meetings \cup {None}]]
  /\ \A r \in Requests :
       /\ req[r].op \in {"idle", "create", "publish", "cancel", "update", "start"}
       /\ req[r].on \subseteq Sessions
       /\ req[r].op = "create" <=> orgLock = r
  /\ events \subseteq {"provisioned", "completed"} \X Meetings
  /\ \A h \in reading : h.s \in Sessions /\ h.seen.link \in Meetings
  /\ unbilled \subseteq Meetings /\ disturbed \cup stuck \subseteq Sessions

\* A session is LIVE only with a meeting that BBB created, so that nobody is
\* let into a room that does not exist (the listener is the single place a
\* session becomes LIVE).
LiveIsProvisioned ==
  \A s \in Sessions \ disturbed : sess[s].status = "LIVE" =>
    sess[s].link # None /\ state[sess[s].link] \in {"Active", "Completed", "Stale"}

\* The rows keep the promises of SessionFSM, the cap on sessions among them,
\* except those that were disturbed.
Promise == INSTANCE SessionFSM WITH
  status <- [s \in Sessions |-> IF s \in disturbed THEN "Disturbed" ELSE sess[s].status]
PromiseSpec == Promise!PromiseSpec

\* A session that went LIVE while its meeting ran leaves LIVE once the meeting is
\* Completed, however that came about, billed at once, later or after a restart.
\* Only a lookup or a save of the listener that fails leaves it LIVE, until the
\* repair of a later start, whose own saves must then succeed.
FinishedLate(s) ==
  /\ s \notin disturbed \cup stuck /\ sess[s].status = "LIVE"
  /\ state[sess[s].link] = "Completed"
LiveEnds == \A s \in Sessions : FinishedLate(s) ~> ~FinishedLate(s)

\* A meeting that BBB ended does not stay Active, even when its webhook is
\* never delivered, never queued, or FAILED for good.
EndedIsNoticed ==
  \A m \in Meetings : (state[m] = "Active" /\ runtime[m] = "ended")
                        ~> state[m] # "Active"
=============================================================================
