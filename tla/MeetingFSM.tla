---------------------------- MODULE MeetingFSM ----------------------------
(***************************************************************************)
(* What the rest of the plugin may rely on about the meetings of one       *)
(* organization: which state changes a bbb_meeting row can make, and that  *)
(* no more than ConcurrentMeetingLimit of them are live at once.           *)
(* MeetingLifecycle is shown to implement it; RoomLifecycle is built on    *)
(* it.  The changes are those the code makes, which are more than          *)
(* MEETING_STATE_TRANSITIONS lists.  EditedSpec has the saves of old copies *)
(* of a row by administrators as well, FSMSpec has not.                    *)
(***************************************************************************)
EXTENDS Integers, FiniteSets

CONSTANTS
  MaxMeetings,             \* bound: meeting rows that are ever inserted
  ConcurrentMeetingLimit   \* BbbOrganization.concurrentMeetingLimit

ASSUME LimitAssumption == MaxMeetings \in Nat /\ ConcurrentMeetingLimit \in Nat

VARIABLE state             \* state of each bbb_meeting row; "Absent": no row yet

Meetings  == 1 .. MaxMeetings
Ended     == {"Completed", "Stale", "Failed"}
Live      == {"Provisioning", "Active"}      \* what the limit counts
Unended   == {"Pending"} \cup Live
States    == {"Absent"} \cup Unended \cup Ended

LiveMeetings == {m \in Meetings : state[m] \in Live}
IsNext(m)    == /\ m \in Meetings /\ state[m] = "Absent"
                /\ \A n \in 1 .. m-1 : state[n] # "Absent"

FSMInit == state = [m \in Meetings |-> "Absent"]

Goes(m, to) == state' = [state EXCEPT ![m] = to]

Insert(m)   == IsNext(m) /\ Goes(m, "Pending")
Promote(m)  == /\ state[m] = "Pending"
               /\ Cardinality(LiveMeetings) < ConcurrentMeetingLimit
               /\ Goes(m, "Provisioning")
Activate(m) == state[m] = "Provisioning" /\ Goes(m, "Active")
Complete(m) == state[m] = "Active" /\ Goes(m, "Completed")
\* the retry pass puts a timed-out row back
Retry(m)    == state[m] = "Provisioning" /\ Goes(m, "Pending")
\* written from a row read earlier: what ended meanwhile is overwritten too
GoStale(m)  == state[m] \in {"Active"} \cup Ended /\ Goes(m, "Stale")
Fail(m)     == state[m] \in Live \cup Ended /\ Goes(m, "Failed")

FSMNext == \E m \in Meetings :
  \/ Insert(m)   \/ Promote(m) \/ Activate(m) \/ Complete(m)
  \/ Retry(m)    \/ GoStale(m) \/ Fail(m)

FSMSpec == FSMInit /\ [][FSMNext]_state

\* updateBbbMeeting saved a copy of the row over what the row had become: from
\* then on nothing is promised of it
Edit(m)     == state[m] # "Absent" /\ Goes(m, "Edited")
EditedNext  == FSMNext \/ \E m \in Meetings : Edit(m)
EditedSpec  == FSMInit /\ [][EditedNext]_state
-----------------------------------------------------------------------------
StateOK == state \in [Meetings -> States]

\* Where administrators' saves are steps as well.
EditedOK == state \in [Meetings -> States \cup {"Edited"}]

\* Never more meetings Provisioning or Active than the organization's limit.
LimitKept == Cardinality(LiveMeetings) <= ConcurrentMeetingLimit
=============================================================================
