----------------------- MODULE SessionLifecycleProofs -----------------------
(***************************************************************************)
(* The rows of a SessionLifecycle keep the promises of SessionFSM, for any *)
(* number of sessions, meetings and requests and any cap.                  *)
(*                                                                         *)
(* The argument: a request that is to save a row knows of it what its      *)
(* guard asked for (RequestsOK), a listener run likewise (ListenerOK), so  *)
(* that a save either finds the row as it was read, and then moves it as   *)
(* SessionFSM allows, or disturbs it.  Only the holder of the organization *)
(* row inserts, and meanwhile no other step makes a session count, so what *)
(* it counted still leaves room for what it inserts (CapOK).               *)
(***************************************************************************)
EXTENDS SessionLifecycle, FiniteSetTheorems, TLAPS

Stati   == {"Absent", "FINISHED", "CANCELLED"} \cup Counting
Rows    == [status : Stati, link : Meetings \cup {None}]
Edits   == {"publish", "cancel", "update", "start"}
Ops     == {"idle", "create"} \cup Edits
Kinds   == {"provisioned", "completed"}
Started == {"Active", "Completed", "Stale"}

\* the sessions SessionFSM counts
Keeping == {s \in Sessions : s \notin disturbed /\ sess[s].status \in Counting}

RowsOK ==
  /\ sess \in [Sessions -> Rows]
  /\ \A s \in Sessions : sess[s].status = "Absent" => sess[s].link = None /\ s \notin disturbed

RequestsOK ==
  /\ req \in [Requests -> [op : Ops, on : SUBSET Sessions, seen : Rows \cup {None}]]
  /\ orgLock \in Requests \cup {None}
  /\ \A r \in Requests :
       /\ req[r].op = "create" <=> orgLock = r
       /\ req[r].op \in Edits => req[r].seen \in Rows /\ req[r].seen.status # "Absent"
       /\ req[r].op = "publish" => req[r].seen.status = "DRAFT"
       /\ req[r].op = "start" => req[r].seen.status = "SCHEDULED"

ListenerOK ==
  /\ events \subseteq Kinds \X Meetings
  /\ reading \subseteq [kind : Kinds, s : Sessions, seen : Rows]
  /\ \A h \in reading : /\ h.seen.status # "Absent" /\ h.seen.link \in Meetings
                        /\ h.kind = "completed" => h.seen.status = "LIVE"

StartedOK ==
  /\ \A m \in Meetings : <<"provisioned", m>> \in events => state[m] \in Started
  /\ \A h \in reading : h.kind = "provisioned" => state[h.seen.link] \in Started

HistoryOK == unbilled \subseteq Meetings /\ disturbed \subseteq Sessions /\ stuck \subseteq Sessions

CapOK ==
  /\ Cardinality(Keeping) <= SessionCap
  /\ \A r \in Requests : req[r].op = "create" =>
       Cardinality(Keeping) + Cardinality(req[r].on) <= SessionCap

IInv ==
  /\ StateOK /\ InboxOK /\ RowsOK /\ RequestsOK /\ ListenerOK /\ StartedOK
  /\ HistoryOK /\ CapOK /\ LiveIsProvisioned

\* the statuses SessionFSM sees
promised == [s \in Sessions |-> IF s \in disturbed THEN "Disturbed" ELSE sess[s].status]

(***************************************************************************)
(* The cap.                                                                *)
(***************************************************************************)
\* Sets of sessions can be counted.
LEMMA Countable ==
  ASSUME NEW B \in SUBSET Sessions
  PROVE  IsFiniteSet(B) /\ Cardinality(B) \in Nat
<1>1. IsFiniteSet(B)
  BY FS_Subset, SessionAssumption
<1> QED
  BY <1>1, FS_CardinalityType

\* A step that makes no session count and starts no insertion keeps the cap.
LEMMA CapStays ==
  ASSUME CapOK, RequestsOK, Keeping' \subseteq Keeping,
         \A r \in Requests : req'[r].op = "create" => req'[r] = req[r]
  PROVE  CapOK'
<1>1. Keeping \in SUBSET Sessions /\ Keeping' \in SUBSET Sessions
  BY DEF Keeping
<1>2. /\ Cardinality(Keeping) \in Nat /\ Cardinality(Keeping') \in Nat
      /\ Cardinality(Keeping') <= Cardinality(Keeping)
  BY <1>1, Countable, FS_Subset
<1>3. \A r \in Requests : Cardinality(req[r].on) \in Nat
  <2> SUFFICES ASSUME NEW r \in Requests PROVE Cardinality(req[r].on) \in Nat
    OBVIOUS
  <2>1. req[r].on \in SUBSET Sessions
    BY DEF RequestsOK
  <2> QED
    BY <2>1, Countable
<1>4. Cardinality(Keeping') <= SessionCap
  BY <1>2, SessionAssumption DEF CapOK
<1>5. ASSUME NEW r \in Requests, req'[r].op = "create"
      PROVE  Cardinality(Keeping') + Cardinality(req'[r].on) <= SessionCap
  BY <1>2, <1>3, <1>5, SessionAssumption DEF CapOK
<1> QED
  BY <1>4, <1>5 DEF CapOK

\* SessionFSM counts as this module does.
LEMMA SameCount == \A S : Promise!Cardinality(S) = Cardinality(S)
BY DEF Promise!Cardinality, Cardinality

\* What was counted leaves room for what is inserted.
LEMMA CapAdds ==
  ASSUME NEW K \in SUBSET Sessions, NEW B \in SUBSET Sessions,
         Cardinality(K) + Cardinality(B) <= SessionCap
  PROVE  Cardinality(K \cup B) <= SessionCap
<1>1. /\ IsFiniteSet(K) /\ IsFiniteSet(B)
      /\ Cardinality(K) \in Nat /\ Cardinality(B) \in Nat
  BY Countable
<1>2. K \cap B \in SUBSET Sessions
  OBVIOUS
<1>3. Cardinality(K \cap B) \in Nat
  BY <1>2, Countable
<1>4. Cardinality(K \cup B) = Cardinality(K) + Cardinality(B) - Cardinality(K \cap B)
  BY <1>1, FS_Union
<1> QED
  BY <1>1, <1>3, <1>4, SessionAssumption

(***************************************************************************)
(* A save.                                                                 *)
(***************************************************************************)
\* the moves of a row that was found as it was read
Allowed(from, to) ==
  \/ from = to
  \/ from = "DRAFT" /\ to = "SCHEDULED"
  \/ from = "SCHEDULED" /\ to = "LIVE"
  \/ from = "LIVE" /\ to = "FINISHED"
  \/ to = "CANCELLED"

\* A save with an allowed move keeps the rows, makes no session count, and is a
\* step of SessionFSM.
LEMMA SaveMoves ==
  ASSUME RowsOK, HistoryOK,
         NEW s \in Sessions, NEW seen \in Rows, NEW new \in Rows, NEW astray \in BOOLEAN,
         Save(s, seen, new, astray),
         seen.status # "Absent", new.status # "Absent",
         sess[s] = seen /\ ~astray => Allowed(seen.status, new.status)
  PROVE  /\ RowsOK' /\ disturbed' \subseteq Sessions
         /\ Keeping' \subseteq Keeping
         /\ Promise!PromiseNext \/ promised' = promised
<1>1. /\ sess' = [sess EXCEPT ![s] = new]
      /\ disturbed' = IF sess[s] # seen \/ astray THEN disturbed \cup {s} ELSE disturbed
  BY DEF Save
<1>2. /\ sess \in [Sessions -> Rows] /\ sess' \in [Sessions -> Rows]
      /\ sess'[s] = new /\ \A t \in Sessions \ {s} : sess'[t] = sess[t]
  BY <1>1 DEF RowsOK
<1>3. disturbed' \subseteq Sessions
  BY <1>1 DEF HistoryOK
<1>4. RowsOK'
  BY <1>1, <1>2 DEF RowsOK
<1>5. CASE s \in disturbed
  <2>1. disturbed' = disturbed
    BY <1>1, <1>5
  <2>2. promised' = promised
    BY <1>2, <1>5, <2>1 DEF promised
  <2>3. Keeping' \subseteq Keeping
    BY <1>2, <1>5, <2>1 DEF Keeping
  <2> QED
    BY <1>3, <1>4, <2>2, <2>3
<1>6. CASE s \notin disturbed /\ (sess[s] # seen \/ astray)
  <2>1. disturbed' = disturbed \cup {s}
    BY <1>1, <1>6
  <2>2. promised' = [promised EXCEPT ![s] = "Disturbed"]
    BY <1>2, <2>1 DEF promised
  <2>3. promised[s] \in Promise!Statuses
    BY <1>2, <1>6 DEF promised, Rows, Stati, Counting, Promise!Statuses, Promise!Counting
  <2>4. Promise!Moves(s, Promise!Statuses, "Disturbed")
    BY <2>2, <2>3 DEF Promise!Moves, promised
  <2>5. Promise!PromiseNext
    BY <2>4 DEF Promise!PromiseNext
  <2>6. Keeping' \subseteq Keeping
    BY <1>2, <2>1 DEF Keeping
  <2> QED
    BY <1>3, <1>4, <2>5, <2>6
<1>7. CASE s \notin disturbed /\ sess[s] = seen /\ ~astray
  <2>1. disturbed' = disturbed /\ Allowed(seen.status, new.status)
    BY <1>1, <1>7
  <2>2. promised' = [promised EXCEPT ![s] = new.status] /\ promised[s] = seen.status
    BY <1>2, <1>7, <2>1 DEF promised
  <2>3. new.status \in Counting => seen.status \in Counting
    BY <2>1 DEF Allowed, Counting
  <2>4. Keeping' \subseteq Keeping
    BY <1>2, <1>7, <2>1, <2>3 DEF Keeping
  <2>5. Promise!PromiseNext \/ promised' = promised
    <3>1. CASE new.status = seen.status
      BY <2>2, <3>1 DEF promised
    <3>2. CASE new.status = "CANCELLED"
      <4>1. seen.status \in Promise!Statuses \ {"Absent", "Disturbed"}
        BY DEF Rows, Stati, Counting, Promise!Statuses, Promise!Counting
      <4>2. Promise!Moves(s, Promise!Statuses \ {"Absent", "Disturbed"}, "CANCELLED")
        BY <2>2, <3>2, <4>1 DEF Promise!Moves, promised
      <4> QED
        BY <4>2 DEF Promise!PromiseNext
    <3>3. CASE seen.status = "DRAFT" /\ new.status = "SCHEDULED"
      <4>1. Promise!Moves(s, {"DRAFT"}, "SCHEDULED")
        BY <2>2, <3>3 DEF Promise!Moves, promised
      <4> QED
        BY <4>1 DEF Promise!PromiseNext
    <3>4. CASE seen.status = "SCHEDULED" /\ new.status = "LIVE"
      <4>1. Promise!Moves(s, {"SCHEDULED"}, "LIVE")
        BY <2>2, <3>4 DEF Promise!Moves, promised
      <4> QED
        BY <4>1 DEF Promise!PromiseNext
    <3>5. CASE seen.status = "LIVE" /\ new.status = "FINISHED"
      <4>1. Promise!Moves(s, {"LIVE"}, "FINISHED")
        BY <2>2, <3>5 DEF Promise!Moves, promised
      <4> QED
        BY <4>1 DEF Promise!PromiseNext
    <3> QED
      BY <2>1, <3>1, <3>2, <3>3, <3>4, <3>5 DEF Allowed
  <2> QED
    BY <1>3, <1>4, <2>4, <2>5
<1> QED
  BY <1>5, <1>6, <1>7

(***************************************************************************)
(* The meetings.                                                           *)
(***************************************************************************)
\* A change of a meeting that keeps a started one started keeps all of them so.
LEMMA MeetingMoves ==
  ASSUME StateOK, NEW m \in Meetings, NEW to \in States, Goes(m, to),
         state[m] \in Started => to \in Started
  PROVE  /\ StateOK' /\ state'[m] = to
         /\ \A n \in Meetings : state[n] \in Started => state'[n] \in Started
<1> QED
  BY DEF StateOK, Goes

\* What a step of a meeting does to its row and to the inbox of its webhook.
LEMMA MeetingStates ==
  ASSUME StateOK, InboxOK, NEW m \in Meetings, Meeting(m)
  PROVE  /\ StateOK' /\ InboxOK'
         /\ \A n \in Meetings : state[n] \in Started => state'[n] \in Started
<1> DEFINE Kept == StateOK' /\ \A n \in Meetings : state[n] \in Started => state'[n] \in Started
<1>1. {"Provisioning", "Active", "Completed", "Stale", "Failed"} \subseteq States
  BY DEF States, Unended, Live, Ended
<1>2. ASSUME UNCHANGED state PROVE Kept
  BY <1>2 DEF StateOK
<1>3. ASSUME Complete(m) \/ GoStale(m) PROVE Kept
  <2>1. CASE Complete(m)
    BY <1>1, <2>1, MeetingMoves DEF Complete, Started
  <2>2. CASE GoStale(m)
    BY <1>1, <2>2, MeetingMoves DEF GoStale, Started
  <2> QED
    BY <1>3, <2>1, <2>2
<1>4. ASSUME UNCHANGED <<runtime, inbox>> PROVE InboxOK'
  BY <1>4 DEF InboxOK, inbox
<1>5. CASE PromoteMeeting(m)
  <2>1. Kept
    BY <1>1, <1>5, MeetingMoves DEF PromoteMeeting, Promote, Started
  <2> QED
    BY <1>4, <1>5, <2>1 DEF PromoteMeeting
<1>6. CASE CreateMeeting(m)
  <2>1. InboxOK'
    BY <1>6 DEF CreateMeeting, CreateRuntime, InboxOK, inbox
  <2> QED
    BY <1>2, <1>6, <2>1 DEF CreateMeeting, CreateRuntime
<1>7. CASE ActivateMeeting(m)
  <2>1. Kept
    BY <1>1, <1>7, MeetingMoves DEF ActivateMeeting, Activate, Started
  <2> QED
    BY <1>4, <1>7, <2>1 DEF ActivateMeeting
<1>8. CASE FailMeeting(m)
  <2>1. Kept
    BY <1>1, <1>8, MeetingMoves DEF FailMeeting, Fail, Started
  <2> QED
    BY <1>4, <1>8, <2>1 DEF FailMeeting
<1>9. CASE Inbox(m)
  <2>1. UNCHANGED state \/ Complete(m)
    BY <1>9 DEF Inbox, RuntimeEnds, ReceiveEnded, HandleEnded, HandleFails, SkipEvent
  <2>2. InboxOK'
    <3>1. CASE RuntimeEnds(m)
      BY <3>1 DEF RuntimeEnds, InboxOK, inbox
    <3>2. CASE ReceiveEnded(m)
      BY <3>2 DEF ReceiveEnded, InboxOK
    <3>3. CASE HandleEnded(m)
      BY <3>3 DEF HandleEnded, Processed, InboxOK, inbox
    <3>4. CASE HandleFails(m)
      BY <3>4 DEF HandleFails, InboxOK
    <3>5. CASE SkipEvent(m)
      BY <3>5 DEF SkipEvent, InboxOK
    <3> QED
      BY <1>9, <3>1, <3>2, <3>3, <3>4, <3>5 DEF Inbox
  <2> QED
    BY <1>2, <1>3, <2>1, <2>2
<1>10. CASE EndClass(m) \/ ReconcileRemoteGone(m) \/ MarkMeetingStale(m)
  BY <1>3, <1>4, <1>10 DEF EndClass, ReconcileRemoteGone, MarkMeetingStale
<1>11. CASE ReconcileBilling(m)
  BY <1>2, <1>4, <1>11 DEF ReconcileBilling, meetings
<1> QED
  BY <1>5, <1>6, <1>7, <1>8, <1>9, <1>10, <1>11 DEF Meeting

\* ... and what it leaves to others.
LEMMA MeetingTells ==
  ASSUME StateOK, HistoryOK, NEW m \in Meetings, Meeting(m)
  PROVE  /\ unbilled' \subseteq Meetings
         /\ events' \subseteq events \cup {<<"completed", m>>, <<"provisioned", m>>}
         /\ \/ <<"provisioned", m>> \notin events' \ events
            \/ state'[m] = "Active"
         /\ UNCHANGED <<sess, requests, reading, history>>
<1>1. ASSUME Announce(m)
      PROVE  /\ unbilled' \subseteq Meetings
             /\ events' \subseteq events \cup {<<"completed", m>>}
  BY <1>1 DEF Announce, HistoryOK
<1>2. CASE PromoteMeeting(m) \/ CreateMeeting(m) \/ FailMeeting(m) \/ MarkMeetingStale(m)
  BY <1>2 DEF PromoteMeeting, CreateMeeting, FailMeeting, MarkMeetingStale, Sessionless, HistoryOK
<1>3. CASE ActivateMeeting(m)
  <2>1. state'[m] = "Active"
    BY <1>3 DEF ActivateMeeting, Activate, Goes, StateOK
  <2> QED
    BY <1>3, <2>1 DEF ActivateMeeting, Sessionless, HistoryOK
<1>4. CASE Inbox(m) \/ EndClass(m) \/ ReconcileRemoteGone(m)
  <2>1. Announce(m) /\ UNCHANGED Sessionless
    BY <1>4 DEF Inbox, EndClass, ReconcileRemoteGone
  <2> QED
    BY <1>1, <2>1 DEF Sessionless
<1>5. CASE ReconcileBilling(m)
  BY <1>5 DEF ReconcileBilling, Sessionless, HistoryOK
<1> QED
  BY <1>2, <1>3, <1>4, <1>5 DEF Meeting

\* A step of a meeting keeps the invariant and moves no session.
LEMMA MeetingInductive ==
  ASSUME IInv, NEW m \in Meetings, Meeting(m)
  PROVE  IInv' /\ promised' = promised
<1>1. /\ StateOK' /\ InboxOK'
      /\ \A n \in Meetings : state[n] \in Started => state'[n] \in Started
  BY MeetingStates DEF IInv
<1>2. /\ unbilled' \subseteq Meetings
      /\ events' \subseteq events \cup {<<"completed", m>>, <<"provisioned", m>>}
      /\ \/ <<"provisioned", m>> \notin events' \ events
         \/ state'[m] = "Active"
      /\ UNCHANGED <<sess, requests, reading, history>>
  BY MeetingTells DEF IInv
<1>3. RowsOK' /\ HistoryOK' /\ promised' = promised
  BY <1>2 DEF IInv, RowsOK, HistoryOK, promised, history
<1>4. RequestsOK' /\ CapOK'
  BY <1>2 DEF IInv, RequestsOK, CapOK, Keeping, requests, history
<1>5. ListenerOK'
  BY <1>2 DEF IInv, ListenerOK, Kinds
<1>6. StartedOK'
  <2>1. \A h \in reading : h.seen.link \in Meetings
    BY DEF IInv, ListenerOK
  <2>2. ASSUME NEW n \in Meetings, <<"provisioned", n>> \in events'
        PROVE  state'[n] \in Started
    <3>1. CASE <<"provisioned", n>> \in events
      BY <1>1, <3>1 DEF IInv, StartedOK
    <3>2. CASE <<"provisioned", n>> \notin events
      BY <1>2, <2>2, <3>2 DEF Started
    <3> QED
      BY <3>1, <3>2
  <2>3. ASSUME NEW h \in reading', h.kind = "provisioned" PROVE state'[h.seen.link] \in Started
    BY <1>1, <1>2, <2>1, <2>3 DEF IInv, StartedOK
  <2> QED
    BY <2>2, <2>3 DEF StartedOK
<1>7. LiveIsProvisioned'
  <2> SUFFICES ASSUME NEW s \in Sessions, s \notin disturbed, sess[s].status = "LIVE"
               PROVE  sess[s].link # None /\ state'[sess[s].link] \in Started
    BY <1>2 DEF LiveIsProvisioned, Started, history
  <2>1. sess[s].link # None /\ state[sess[s].link] \in Started
    BY DEF IInv, LiveIsProvisioned, Started
  <2>2. sess[s].link \in Meetings
    BY <2>1 DEF IInv, RowsOK, Rows
  <2> QED
    BY <1>1, <2>1, <2>2
<1> QED
  BY <1>1, <1>3, <1>4, <1>5, <1>6, <1>7 DEF IInv

(***************************************************************************)
(* Requests.                                                               *)
(***************************************************************************)
\* What a request does not write stays as it is.
LEMMA RequestFrame ==
  ASSUME IInv, UNCHANGED <<meetings, listener, unbilled, stuck>>
  PROVE  StateOK' /\ InboxOK' /\ ListenerOK' /\ StartedOK'
<1> QED
  BY DEF IInv, StateOK, InboxOK, ListenerOK, StartedOK, meetings, inbox, listener

\* Reading, counting and failing keep the invariant and move no session.
LEMMA ReadInductive ==
  ASSUME IInv, NEW r \in Requests,
         \/ \E B \in SUBSET Unused \ {{}} : CountSessions(r, B)
         \/ \E s \in Sessions, op \in Edits : ReadSession(r, op, s)
         \/ RequestFails(r)
  PROVE  IInv' /\ promised' = promised
<1>1. UNCHANGED <<meetings, sess, listener, unbilled, history>>
  BY DEF CountSessions, ReadSession, RequestFails
<1>2. StateOK' /\ InboxOK' /\ ListenerOK' /\ StartedOK'
  BY <1>1, RequestFrame DEF history
<1>3. /\ RowsOK' /\ HistoryOK' /\ LiveIsProvisioned' /\ promised' = promised
      /\ Keeping' = Keeping
  BY <1>1 DEF IInv, RowsOK, HistoryOK, LiveIsProvisioned, promised, Keeping, history, meetings
<1>4. None \notin Requests
  BY NoneAssumption
<1>5. CASE \E B \in SUBSET Unused \ {{}} : CountSessions(r, B)
  <2> PICK B \in SUBSET Unused : CountSessions(r, B)
    BY <1>5
  <2>1. B \in SUBSET Sessions
    BY DEF Unused
  <2>2. /\ req' = [req EXCEPT ![r] = [op |-> "create", on |-> B, seen |-> None]]
        /\ orgLock = None /\ orgLock' = r
        /\ Cardinality(Counted) + Cardinality(B) <= SessionCap
    BY DEF CountSessions
  <2>3. RequestsOK'
    BY <1>4, <2>1, <2>2 DEF IInv, RequestsOK, Ops, Edits
  <2>4. \A q \in Requests : req'[q].op = "create" => q = r /\ req'[q].on = B
    BY <1>4, <2>2 DEF IInv, RequestsOK
  <2>5. Keeping \in SUBSET Counted /\ Counted \in SUBSET Sessions
    BY DEF Keeping, Counted
  <2>6. /\ Cardinality(Keeping) <= Cardinality(Counted)
        /\ Cardinality(Keeping) \in Nat /\ Cardinality(Counted) \in Nat /\ Cardinality(B) \in Nat
    BY <2>1, <2>5, Countable, FS_Subset
  <2>7. CapOK'
    BY <1>3, <2>2, <2>4, <2>6, SessionAssumption DEF IInv, CapOK
  <2> QED
    BY <1>2, <1>3, <2>3, <2>7 DEF IInv
<1>6. CASE \E s \in Sessions, op \in Edits : ReadSession(r, op, s)
  <2> PICK s \in Sessions, op \in Edits : ReadSession(r, op, s)
    BY <1>6
  <2>1. /\ req' = [req EXCEPT ![r] = [op |-> op, on |-> {s}, seen |-> sess[s]]]
        /\ orgLock' = orgLock /\ req[r].op = "idle" /\ sess[s].status # "Absent"
        /\ op = "publish" => sess[s].status = "DRAFT"
        /\ op = "start" => sess[s].status = "SCHEDULED"
    BY DEF ReadSession
  <2>2. sess[s] \in Rows
    BY DEF IInv, RowsOK
  <2>3. RequestsOK'
    BY <2>1, <2>2 DEF IInv, RequestsOK, Ops, Edits
  <2>4. \A q \in Requests : req'[q].op = "create" => req'[q] = req[q]
    BY <2>1 DEF IInv, RequestsOK, Edits
  <2>5. CapOK'
    BY <1>3, <2>4, CapStays DEF IInv
  <2> QED
    BY <1>2, <1>3, <2>3, <2>5 DEF IInv
<1>7. CASE RequestFails(r)
  <2>1. /\ req' = [req EXCEPT ![r] = NoRequest]
        /\ orgLock' = IF orgLock = r THEN None ELSE orgLock
    BY <1>7 DEF RequestFails, Return, Unlock
  <2>2. RequestsOK'
    BY <1>4, <2>1 DEF IInv, RequestsOK, NoRequest, Ops, Edits
  <2>3. \A q \in Requests : req'[q].op = "create" => req'[q] = req[q]
    BY <2>1 DEF IInv, RequestsOK, NoRequest
  <2>4. CapOK'
    BY <1>3, <2>3, CapStays DEF IInv
  <2> QED
    BY <1>2, <1>3, <2>2, <2>4 DEF IInv
<1> QED
  BY <1>5, <1>6, <1>7

\* The holder of the organization row inserts what it counted for.
LEMMA InsertInductive ==
  ASSUME IInv, NEW r \in Requests, InsertSessions(r)
  PROVE  IInv' /\ Promise!PromiseNext
<1> PICK B \in SUBSET Sessions : B = req[r].on
  BY DEF IInv, RequestsOK
<1>1. /\ req[r].op = "create" /\ B \subseteq Unused
      /\ sess' = [s \in Sessions |-> IF s \in B THEN NewRow ELSE sess[s]]
      /\ req' = [req EXCEPT ![r] = NoRequest]
      /\ orgLock' = IF orgLock = r THEN None ELSE orgLock
      /\ UNCHANGED <<meetings, listener, unbilled, history>>
  BY DEF InsertSessions, Return, Unlock
<1>2. StateOK' /\ InboxOK' /\ ListenerOK' /\ StartedOK'
  BY <1>1, RequestFrame DEF history
<1>3. B \in SUBSET Sessions /\ \A s \in B : sess[s].status = "Absent" /\ s \notin disturbed
  BY <1>1 DEF IInv, RowsOK, Unused
<1>4. NewRow \in Rows /\ NewRow.status = "DRAFT"
  BY DEF NewRow, Rows, Stati, Counting
<1>5. RowsOK' /\ HistoryOK'
  BY <1>1, <1>4 DEF IInv, RowsOK, HistoryOK, history
<1>6. LiveIsProvisioned'
  BY <1>1, <1>4 DEF IInv, LiveIsProvisioned, meetings, history
<1>7. RequestsOK'
  BY <1>1, NoneAssumption DEF IInv, RequestsOK, NoRequest, Ops, Edits
<1>8. \A q \in Requests : req'[q].op # "create"
  BY <1>1 DEF IInv, RequestsOK, NoRequest
<1>9. Keeping' = Keeping \cup B
  BY <1>1, <1>3, <1>4 DEF Keeping, Counting, history
<1>10. Keeping \in SUBSET Sessions
  BY DEF Keeping
<1>11. Cardinality(Keeping \cup B) <= SessionCap
  <2>1. Cardinality(Keeping) + Cardinality(B) <= SessionCap
    BY <1>1 DEF IInv, CapOK
  <2> QED
    BY <1>3, <1>10, <2>1, CapAdds
<1>12. CapOK'
  BY <1>8, <1>9, <1>11 DEF CapOK
<1>13. Promise!CountingSessions = Keeping
  BY DEF Promise!CountingSessions, Promise!Counting, Keeping, Counting
<1>14. promised' = [s \in Sessions |-> IF s \in B THEN "DRAFT" ELSE promised[s]]
  BY <1>1, <1>3, <1>4 DEF promised, history
<1>15. \A s \in B : promised[s] = "Absent"
  BY <1>3 DEF promised
<1>16. Promise!CreateBatch(B)
  BY <1>3, <1>11, <1>13, <1>14, <1>15, SameCount DEF Promise!CreateBatch, promised
<1>17. Promise!PromiseNext
  BY <1>3, <1>16 DEF Promise!PromiseNext
<1> QED
  BY <1>2, <1>5, <1>6, <1>7, <1>12, <1>17 DEF IInv

\* A save keeps LIVE sessions provisioned when what it makes LIVE is.
LEMMA SaveKeepsLive ==
  ASSUME IInv, RowsOK',
         NEW s \in Sessions, NEW seen \in Rows, NEW new \in Rows, NEW astray \in BOOLEAN,
         Save(s, seen, new, astray), UNCHANGED state,
         sess[s] = seen /\ new.status = "LIVE" /\ s \notin disturbed =>
           new.link # None /\ state[new.link] \in Started
  PROVE  LiveIsProvisioned'
<1>1. /\ sess'[s] = new /\ \A t \in Sessions \ {s} : sess'[t] = sess[t]
      /\ disturbed \subseteq disturbed'
      /\ sess[s] # seen => s \in disturbed'
  BY DEF Save, IInv, RowsOK
<1> SUFFICES ASSUME NEW t \in Sessions, t \notin disturbed', sess'[t].status = "LIVE"
             PROVE  sess'[t].link # None /\ state[sess'[t].link] \in Started
  BY DEF LiveIsProvisioned, Started
<1>2. CASE t = s
  BY <1>1, <1>2
<1>3. CASE t # s
  BY <1>1, <1>3 DEF IInv, LiveIsProvisioned, Started
<1> QED
  BY <1>2, <1>3

\* Saving and starting move a session as SessionFSM allows, or disturb it.
LEMMA SaveInductive ==
  ASSUME IInv, NEW r \in Requests, SaveSession(r) \/ StartSession(r)
  PROVE  IInv' /\ (Promise!PromiseNext \/ promised' = promised)
<1>1. /\ req[r].op \in Edits /\ req[r].on \subseteq Sessions
      /\ req' = [req EXCEPT ![r] = NoRequest]
      /\ UNCHANGED <<runtime, inbox, orgLock, listener, unbilled, stuck>>
  BY DEF SaveSession, StartSession, Return, Edits, meetings, IInv, RequestsOK
<1>2. /\ req[r].seen \in Rows /\ req[r].seen.status # "Absent"
      /\ req[r].op = "publish" => req[r].seen.status = "DRAFT"
      /\ req[r].op = "start" => req[r].seen.status = "SCHEDULED"
  BY <1>1 DEF IInv, RequestsOK
<1>3. RequestsOK'
  BY <1>1 DEF IInv, RequestsOK, NoRequest, Ops, Edits
<1>4. \A q \in Requests : req'[q].op = "create" => req'[q] = req[q]
  BY <1>1 DEF IInv, RequestsOK, NoRequest
<1>5. CASE SaveSession(r)
  <2>1. PICK s \in Sessions : Save(s, req[r].seen, Edited(req[r].op, req[r].seen), FALSE)
    BY <1>1, <1>5 DEF SaveSession
  <2> DEFINE seen == req[r].seen
             new  == Edited(req[r].op, req[r].seen)
  <2>2. UNCHANGED <<meetings, listener, unbilled, stuck>>
    BY <1>5 DEF SaveSession
  <2>3. /\ new \in Rows /\ new.status # "Absent"
        /\ new.status = "LIVE" => new = seen
        /\ Allowed(seen.status, new.status)
    <3>1. req[r].op \in {"publish", "cancel", "update"}
      BY <1>5 DEF SaveSession
    <3> QED
      BY <1>2, <3>1 DEF Edited, Rows, Stati, Counting, Allowed
  <2> HIDE DEF seen, new
  <2>4. /\ RowsOK' /\ disturbed' \subseteq Sessions /\ Keeping' \subseteq Keeping
        /\ Promise!PromiseNext \/ promised' = promised
    <3>1. seen \in Rows /\ seen.status # "Absent" /\ Save(s, seen, new, FALSE)
      BY <1>2, <2>1 DEF seen, new
    <3> QED
      BY <2>3, <3>1, SaveMoves DEF IInv
  <2>5. StateOK' /\ InboxOK' /\ ListenerOK' /\ StartedOK'
    BY <2>2, RequestFrame
  <2>6. HistoryOK'
    BY <2>2, <2>4 DEF IInv, HistoryOK
  <2>7. LiveIsProvisioned'
    <3>1. seen \in Rows /\ Save(s, seen, new, FALSE) /\ UNCHANGED state
      BY <1>2, <2>1, <2>2 DEF seen, new, meetings
    <3>2. sess[s] = seen /\ new.status = "LIVE" /\ s \notin disturbed =>
            new.link # None /\ state[new.link] \in Started
      BY <2>3 DEF IInv, LiveIsProvisioned, Started
    <3> QED
      BY <2>3, <2>4, <3>1, <3>2, SaveKeepsLive
  <2>8. CapOK'
    BY <1>4, <2>4, CapStays DEF IInv
  <2> QED
    BY <1>3, <2>4, <2>5, <2>6, <2>7, <2>8 DEF IInv
<1>6. CASE StartSession(r)
  <2>1. PICK m \in Meetings, s \in Sessions :
          Insert(m) /\ Save(s, req[r].seen, [req[r].seen EXCEPT !.link = m], FALSE)
    BY <1>1, <1>6 DEF StartSession
  <2> DEFINE seen == req[r].seen
             new  == [req[r].seen EXCEPT !.link = m]
  <2>2. /\ new \in Rows /\ new.status = "SCHEDULED" /\ seen.status = "SCHEDULED"
        /\ Allowed(seen.status, new.status)
    BY <1>2, <1>6 DEF StartSession, Rows, Allowed
  <2> HIDE DEF seen, new
  <2>3. seen \in Rows /\ Save(s, seen, new, FALSE)
    BY <1>2, <2>1 DEF seen, new
  <2>4. /\ RowsOK' /\ disturbed' \subseteq Sessions /\ Keeping' \subseteq Keeping
        /\ Promise!PromiseNext \/ promised' = promised
    BY <2>2, <2>3, SaveMoves DEF IInv
  <2>5. /\ StateOK' /\ InboxOK'
        /\ \A n \in Meetings : state[n] \in Started => state'[n] \in Started
    <3>1. "Pending" \in States /\ state[m] \notin Started
      BY <2>1 DEF States, Unended, Insert, IsNext, Started
    <3>2. Goes(m, "Pending")
      BY <2>1 DEF Insert
    <3>3. InboxOK'
      BY <1>1 DEF IInv, InboxOK, inbox
    <3> QED
      BY <3>1, <3>2, <3>3, MeetingMoves DEF IInv
  <2>6. ListenerOK' /\ StartedOK'
    BY <1>1, <2>5 DEF IInv, ListenerOK, StartedOK, listener
  <2>7. HistoryOK'
    BY <1>1, <2>4 DEF IInv, HistoryOK
  <2>8. LiveIsProvisioned'
    <3>1. /\ sess'[s] = new /\ \A t \in Sessions \ {s} : sess'[t] = sess[t]
          /\ disturbed \subseteq disturbed'
      BY <2>3 DEF Save, IInv, RowsOK
    <3> SUFFICES ASSUME NEW t \in Sessions, t \notin disturbed', sess'[t].status = "LIVE"
                 PROVE  sess'[t].link # None /\ state'[sess'[t].link] \in Started
      BY DEF LiveIsProvisioned, Started
    <3>2. t # s /\ sess'[t] = sess[t] /\ t \notin disturbed
      BY <2>2, <3>1
    <3>3. sess[t].link # None /\ state[sess[t].link] \in Started /\ sess[t].link \in Meetings
      BY <3>2 DEF IInv, LiveIsProvisioned, Started, RowsOK, Rows
    <3> QED
      BY <2>5, <3>2, <3>3
  <2>9. CapOK'
    BY <1>4, <2>4, CapStays DEF IInv
  <2> QED
    BY <1>3, <2>4, <2>5, <2>6, <2>7, <2>8, <2>9 DEF IInv
<1> QED
  BY <1>5, <1>6

(***************************************************************************)
(* The listener and the restart.                                           *)
(***************************************************************************)
\* Hearing an event keeps the invariant and moves no session.
LEMMA HearInductive ==
  ASSUME IInv, NEW e \in events, Hear(e)
  PROVE  IInv' /\ promised' = promised
<1>1. UNCHANGED <<meetings, sess, requests, unbilled, history>>
  BY DEF Hear
<1>2. /\ StateOK' /\ InboxOK' /\ RowsOK' /\ RequestsOK' /\ HistoryOK' /\ CapOK'
      /\ LiveIsProvisioned' /\ promised' = promised
  BY <1>1 DEF IInv, StateOK, InboxOK, RowsOK, RequestsOK, HistoryOK, CapOK, Keeping,
              LiveIsProvisioned, promised, meetings, inbox, requests, history
<1>3. PICK k \in Kinds, m \in Meetings : e = <<k, m>>
  BY DEF IInv, ListenerOK
<1>4. /\ events' = events \ {e}
      /\ \A h \in reading' \ reading : \E s \in Sessions :
           /\ h = [kind |-> k, s |-> s, seen |-> sess[s]]
           /\ sess[s].link = m
           /\ k = "completed" => sess[s].status = "LIVE"
      /\ reading \subseteq reading'
  BY <1>3 DEF Hear, Linking
<1>5. \A s \in Sessions : sess[s] \in Rows /\ (sess[s].link = m => sess[s].status # "Absent")
  BY NoneAssumption DEF IInv, RowsOK
<1>6. ASSUME NEW h \in reading' \ reading
      PROVE  /\ h \in [kind : Kinds, s : Sessions, seen : Rows]
             /\ h.seen.status # "Absent" /\ h.seen.link \in Meetings
             /\ h.kind = "completed" => h.seen.status = "LIVE"
             /\ h.kind = "provisioned" => state[h.seen.link] \in Started
  <2>1. PICK s \in Sessions : /\ h = [kind |-> k, s |-> s, seen |-> sess[s]]
                              /\ sess[s].link = m
                              /\ k = "completed" => sess[s].status = "LIVE"
    BY <1>4
  <2>2. k = "provisioned" => state[m] \in Started
    BY <1>3 DEF IInv, StartedOK
  <2> QED
    BY <1>5, <2>1, <2>2
<1>7. ListenerOK'
  BY <1>4, <1>6 DEF IInv, ListenerOK
<1>8. StartedOK'
  BY <1>1, <1>4, <1>6 DEF IInv, StartedOK, meetings
<1> QED
  BY <1>2, <1>7, <1>8 DEF IInv

\* A run of the listener that fails keeps the invariant and moves no session.
LEMMA FailureInductive ==
  ASSUME IInv,
         \/ \E e \in events : LookupFails(e)
         \/ \E h \in reading : SaveFails(h)
  PROVE  IInv' /\ promised' = promised
<1>1. /\ UNCHANGED <<meetings, sess, requests, unbilled, disturbed>>
      /\ events' \subseteq events /\ reading' \subseteq reading /\ stuck' \subseteq Sessions
  <2>1. ASSUME NEW e \in events, LookupFails(e) PROVE <1>1
    BY <2>1 DEF LookupFails, Linking, IInv, HistoryOK
  <2>2. ASSUME NEW h \in reading, SaveFails(h) PROVE <1>1
    BY <2>2 DEF SaveFails, IInv, HistoryOK, ListenerOK
  <2> QED
    BY <2>1, <2>2
<1>2. /\ StateOK' /\ InboxOK' /\ RowsOK' /\ RequestsOK' /\ HistoryOK' /\ CapOK'
      /\ LiveIsProvisioned' /\ promised' = promised
  BY <1>1 DEF IInv, StateOK, InboxOK, RowsOK, RequestsOK, HistoryOK, CapOK, Keeping,
              LiveIsProvisioned, promised, meetings, inbox, requests
<1>3. ListenerOK' /\ StartedOK'
  BY <1>1 DEF IInv, ListenerOK, StartedOK, meetings
<1> QED
  BY <1>2, <1>3 DEF IInv

\* What the repair at startup reads is what the listener reads.
LEMMA RestartInductive ==
  ASSUME IInv, Restart
  PROVE  IInv' /\ promised' = promised
<1>1. /\ UNCHANGED <<meetings, sess, unbilled, disturbed>> /\ stuck' \subseteq stuck
      /\ req' = [r \in Requests |-> NoRequest] /\ orgLock' = None /\ events' = {}
      /\ \A h \in reading' : \E s \in OrphanedLive :
           h = [kind |-> "completed", s |-> s, seen |-> sess[s]]
  BY DEF Restart
<1>2. /\ StateOK' /\ InboxOK' /\ RowsOK' /\ HistoryOK'
      /\ LiveIsProvisioned' /\ promised' = promised /\ Keeping' = Keeping
  BY <1>1 DEF IInv, StateOK, InboxOK, RowsOK, HistoryOK, Keeping,
              LiveIsProvisioned, promised, meetings, inbox
<1>3. RequestsOK'
  BY <1>1, NoneAssumption DEF RequestsOK, NoRequest, Ops, Edits
<1>4. CapOK'
  BY <1>1, <1>2 DEF IInv, CapOK, NoRequest
<1>5. \A s \in OrphanedLive : /\ s \in Sessions /\ sess[s] \in Rows /\ sess[s].status = "LIVE"
                             /\ sess[s].link \in Meetings
  BY DEF OrphanedLive, IInv, RowsOK, Rows
<1>6. ListenerOK' /\ StartedOK'
  BY <1>1, <1>5 DEF ListenerOK, StartedOK, Kinds
<1> QED
  BY <1>2, <1>3, <1>4, <1>6 DEF IInv

\* The listener's saves move a session as SessionFSM allows, or disturb it.
LEMMA ListenInductive ==
  ASSUME IInv, NEW h \in reading, SaveLive(h) \/ SaveFinished(h)
  PROVE  IInv' /\ (Promise!PromiseNext \/ promised' = promised)
<1> DEFINE to     == IF h.kind = "provisioned" THEN "LIVE" ELSE "FINISHED"
           new    == [sess[h.s] EXCEPT !.status = to]
           astray == h.kind = "provisioned" /\ h.seen.status # "SCHEDULED"
<1>1. /\ Save(h.s, h.seen, new, astray) /\ astray \in BOOLEAN
      /\ reading' = reading \ {h} /\ stuck' \subseteq stuck \cup {h.s}
      /\ UNCHANGED <<meetings, requests, events, unbilled>>
  <2>1. CASE SaveLive(h)
    BY <2>1 DEF SaveLive
  <2>2. CASE SaveFinished(h)
    BY <2>2 DEF SaveFinished
  <2> QED
    BY <2>1, <2>2
<1>2. /\ h.s \in Sessions /\ h.seen \in Rows /\ h.seen.status # "Absent"
      /\ h.seen.link \in Meetings /\ h.kind \in Kinds
      /\ h.kind = "completed" => h.seen.status = "LIVE"
      /\ h.kind = "provisioned" => state[h.seen.link] \in Started
  BY DEF IInv, ListenerOK, StartedOK
<1>3. /\ new \in Rows /\ new.status = to /\ new.link = sess[h.s].link
  BY <1>2 DEF IInv, RowsOK, Rows, Stati, Counting
<1>4. /\ new.status # "Absent"
      /\ sess[h.s] = h.seen /\ ~astray => Allowed(h.seen.status, new.status)
  BY <1>2, <1>3 DEF Allowed, Kinds
<1>5. sess[h.s] = h.seen /\ new.status = "LIVE" /\ h.s \notin disturbed =>
        new.link # None /\ state[new.link] \in Started
  BY <1>2, <1>3, NoneAssumption DEF Kinds
<1> HIDE DEF new, astray
<1>6. /\ RowsOK' /\ disturbed' \subseteq Sessions /\ Keeping' \subseteq Keeping
      /\ Promise!PromiseNext \/ promised' = promised
  BY <1>1, <1>2, <1>3, <1>4, SaveMoves DEF IInv
<1>7. LiveIsProvisioned'
  BY <1>1, <1>2, <1>3, <1>5, <1>6, SaveKeepsLive DEF meetings
<1>8. StateOK' /\ InboxOK' /\ RequestsOK' /\ HistoryOK'
  BY <1>1, <1>2, <1>6 DEF IInv, StateOK, InboxOK, RequestsOK, HistoryOK, meetings, inbox, requests
<1>9. ListenerOK' /\ StartedOK'
  BY <1>1 DEF IInv, ListenerOK, StartedOK, meetings
<1>10. CapOK'
  BY <1>1, <1>6, CapStays DEF IInv, requests
<1> QED
  BY <1>6, <1>7, <1>8, <1>9, <1>10 DEF IInv

(***************************************************************************)
(* The theorems.                                                           *)
(***************************************************************************)
LEMMA Initial == Init => IInv /\ Promise!PromiseInit
<1> SUFFICES ASSUME Init PROVE IInv /\ Promise!PromiseInit
  OBVIOUS
<1> USE DEF Init
<1>1. StateOK /\ InboxOK
  BY DEF FSMInit, InboxInit, StateOK, InboxOK, States, Unended, Live, Ended
<1>2. RowsOK /\ HistoryOK /\ LiveIsProvisioned
  BY DEF RowsOK, HistoryOK, LiveIsProvisioned, Rows, Stati
<1>3. RequestsOK
  BY NoneAssumption DEF RequestsOK, NoRequest, Ops, Edits
<1>4. ListenerOK /\ StartedOK
  BY DEF ListenerOK, StartedOK
<1>5. CapOK
  <2>1. Keeping = {}
    BY DEF Keeping, Counting
  <2>2. Cardinality(Keeping) = 0
    BY <2>1, FS_EmptySet
  <2> QED
    BY <2>2, SessionAssumption DEF CapOK, NoRequest
<1>6. Promise!PromiseInit
  BY DEF Promise!PromiseInit
<1> QED
  BY <1>1, <1>2, <1>3, <1>4, <1>5, <1>6 DEF IInv

LEMMA Inductive ==
  IInv /\ [Next]_vars => IInv' /\ (Promise!PromiseNext \/ promised' = promised)
<1> SUFFICES ASSUME IInv, [Next]_vars
             PROVE  IInv' /\ (Promise!PromiseNext \/ promised' = promised)
  OBVIOUS
<1>1. ASSUME NEW r \in Creators, Create(r)
      PROVE  IInv' /\ (Promise!PromiseNext \/ promised' = promised)
  BY <1>1, ReadInductive, InsertInductive DEF Create, Requests
<1>2. ASSUME NEW r \in Editors, Change(r)
      PROVE  IInv' /\ (Promise!PromiseNext \/ promised' = promised)
  BY <1>2, ReadInductive, SaveInductive DEF Change, Edits, Requests
<1>3. ASSUME NEW m \in Meetings, Meeting(m) PROVE IInv' /\ promised' = promised
  BY <1>3, MeetingInductive
<1>4. ASSUME NEW e \in events, Hear(e) \/ LookupFails(e)
      PROVE  IInv' /\ promised' = promised
  BY <1>4, HearInductive, FailureInductive
<1>5. CASE Listen
  BY <1>5, ListenInductive, FailureInductive DEF Listen
<1>6. CASE Restart
  BY <1>6, RestartInductive
<1>7. CASE UNCHANGED vars
  BY <1>7 DEF vars, history, inbox, IInv, StateOK, InboxOK, RowsOK, RequestsOK, ListenerOK,
              StartedOK, HistoryOK, CapOK, Keeping, LiveIsProvisioned, promised
<1> QED
  BY <1>1, <1>2, <1>3, <1>4, <1>5, <1>6, <1>7 DEF Next

LEMMA Invariant == Spec => []IInv
<1> QED
  BY Initial, Inductive, PTL DEF Spec

\* Every row, request and listener run is well typed, and whoever creates
\* sessions holds the organization's row.
THEOREM TypeCorrect == Spec => []TypeOK
<1>1. IInv => TypeOK
  BY DEF IInv, TypeOK, RowsOK, RequestsOK, ListenerOK, HistoryOK, Rows, Stati, Ops, Edits, Kinds
<1> QED
  BY <1>1, Invariant, PTL

\* No session that was not disturbed is LIVE without a meeting BBB created
\* (handleMeetingProvisioned).
THEOREM LiveCorrect == Spec => []LiveIsProvisioned
<1>1. IInv => LiveIsProvisioned
  BY DEF IInv
<1> QED
  BY <1>1, Invariant, PTL

\* The sessions of an organization never pass its cap, those left out that were
\* disturbed (the FOR UPDATE count of create and createSessionsFromTemplate).
THEOREM CapCorrect == Spec => []Promise!CapKept
<1>1. IInv => Promise!CapKept
  <2>1. Promise!CountingSessions = Keeping
    BY DEF Promise!CountingSessions, Promise!Counting, Keeping, Counting
  <2> QED
    BY <2>1, SameCount DEF IInv, CapOK, Promise!CapKept
<1> QED
  BY <1>1, Invariant, PTL

\* The detailed lifecycle, with its stale saves, lost webhooks and restarts, is
\* an implementation of SessionFSM.
THEOREM ImplementsPromise == Spec => PromiseSpec
<1>1. IInv /\ [Next]_vars => [Promise!PromiseNext]_promised
  BY Inductive
<1> QED
  BY <1>1, Initial, Invariant, PTL DEF Spec, PromiseSpec, Promise!PromiseSpec, promised

\* Whatever requests, webhooks and passes do to the meetings of sessions is a
\* step of MeetingFSM.
LEMMA MeetingsMove ==
  ASSUME IInv, [Next]_vars
  PROVE  FSMNext \/ UNCHANGED state
<1> USE DEF meetings, inbox
<1>1. ASSUME NEW r \in Creators, Create(r) PROVE UNCHANGED state
  BY <1>1 DEF Create, CountSessions, InsertSessions, RequestFails
<1>2. ASSUME NEW r \in Editors, Change(r) PROVE FSMNext \/ UNCHANGED state
  BY <1>2 DEF Change, ReadSession, SaveSession, StartSession, RequestFails, FSMNext
<1>3. ASSUME NEW m \in Meetings, Meeting(m) PROVE FSMNext \/ UNCHANGED state
  <2>1. CASE Inbox(m)
    BY <2>1 DEF Inbox, RuntimeEnds, ReceiveEnded, HandleEnded, HandleFails, SkipEvent, FSMNext
  <2> QED
    BY <1>3, <2>1 DEF Meeting, PromoteMeeting, CreateMeeting, CreateRuntime, ActivateMeeting,
       FailMeeting, EndClass, ReconcileRemoteGone, MarkMeetingStale, ReconcileBilling, FSMNext
<1> QED
  BY <1>1, <1>2, <1>3 DEF Next, vars, Hear, LookupFails, Listen, SaveLive, SaveFinished, SaveFails, Restart

\* The meetings of sessions change as MeetingFSM says, so that what ended does not
\* run again and the limit on running meetings holds for classes that sessions
\* start (startSession, the inbox of BBB and its reconciliation).
THEOREM ImplementsFSM == Spec => FSMSpec
<1>1. IInv /\ [Next]_vars => [FSMNext]_state
  BY MeetingsMove
<1> QED
  BY <1>1, Initial, Invariant, PTL DEF Spec, Init, FSMSpec

=============================================================================
