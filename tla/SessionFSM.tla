----------------------------- MODULE SessionFSM -----------------------------
(***************************************************************************)
(* What the bbb_scheduled_session rows of one organization promise to the  *)
(* learners who watch them and to the platform that caps them: which way a *)
(* status moves, and how many sessions count at once.                      *)
(*                                                                         *)
(* "Disturbed" is the status of a session that left this road: its row was *)
(* written by someone who had not seen the row he overwrote, or an event   *)
(* that came too late set it LIVE.  SessionLifecycle says when.            *)
(***************************************************************************)
EXTENDS Integers, FiniteSets

CONSTANTS
  Sessions,      \* bound: session rows that are ever inserted
  SessionCap     \* BbbOrganization.maxSessionsPerOrg

VARIABLE status

Counting == {"DRAFT", "SCHEDULED", "LIVE"}      \* ACTIVE_STATUSES
Statuses == Counting \cup {"Absent", "FINISHED", "CANCELLED", "Disturbed"}

CountingSessions == {s \in Sessions : status[s] \in Counting}

PromiseInit == status = [s \in Sessions |-> "Absent"]

Moves(s, from, to) == status[s] \in from /\ status' = [status EXCEPT ![s] = to]

\* one session, or a batch from a template
CreateBatch(B) ==
  /\ \A s \in B : status[s] = "Absent"
  /\ Cardinality(CountingSessions \cup B) <= SessionCap
  /\ status' = [s \in Sessions |-> IF s \in B THEN "DRAFT" ELSE status[s]]

PromiseNext ==
  \/ \E B \in SUBSET Sessions : CreateBatch(B)
  \/ \E s \in Sessions :
       \/ Moves(s, {"DRAFT"}, "SCHEDULED")
       \/ Moves(s, {"SCHEDULED"}, "LIVE")
       \/ Moves(s, {"LIVE"}, "FINISHED")
       \/ Moves(s, Statuses \ {"Absent", "Disturbed"}, "CANCELLED")
       \/ Moves(s, Statuses, "Disturbed")

PromiseSpec == PromiseInit /\ [][PromiseNext]_status
-----------------------------------------------------------------------------
StatusOK == status \in [Sessions -> Statuses]

\* The sessions that count are never more than maxSessionsPerOrg.
CapKept == Cardinality(CountingSessions) <= SessionCap
=============================================================================
