--------------------------- MODULE BbbWebhookInbox ---------------------------
(***************************************************************************)
(* The end of a meeting on the BBB server and the way the plugin learns of *)
(* it: the webhook that is persisted, queued and processed, each of which  *)
(* can fail on its own.  The changes of a meeting row are MeetingFSM's;    *)
(* what follows from one (billing, events) is left to the module that      *)
(* composes this one.                                                      *)
(***************************************************************************)
EXTENDS MeetingFSM

VARIABLES
  runtime,   \* the meeting on the BBB server: "none", "running", "ended"
  row,       \* its bbb_webhook_event row: "none", "PENDING", "PROCESSED", "FAILED"
  jobs       \* meetings whose row has a job in the queue

inbox == <<row, jobs>>

InboxInit ==
  /\ runtime = [m \in Meetings |-> "none"]
  /\ row = [m \in Meetings |-> "none"]
  /\ jobs = {}

CreateRuntime(m) ==
  /\ state[m] = "Provisioning" /\ runtime[m] = "none"
  /\ runtime' = [runtime EXCEPT ![m] = "running"]
  /\ UNCHANGED <<state, inbox>>

\* the last participant leaves, BBB's own limits, or an end call
RuntimeEnds(m) ==
  /\ runtime[m] = "running"
  /\ runtime' = [runtime EXCEPT ![m] = "ended"]
  /\ UNCHANGED <<state, inbox>>

\* One row per delivered body: BBB's repetitions of it find the row and are
\* acknowledged.  An enqueue that fails is only logged.
ReceiveEnded(m) ==
  /\ runtime[m] = "ended" /\ row[m] = "none"
  /\ row' = [row EXCEPT ![m] = "PENDING"]
  /\ jobs' \in {jobs, jobs \cup {m}}
  /\ UNCHANGED <<state, runtime>>

\* unless the process dies first: then the job is delivered again
Processed(m) ==
  \/ row' = [row EXCEPT ![m] = "PROCESSED"] /\ jobs' = jobs \ {m}
  \/ UNCHANGED inbox

\* An event of a meeting that is not Active (bbbMeetingId is not even written
\* before) is handled by doing nothing.
HandleEnded(m) ==
  /\ m \in jobs /\ row[m] = "PENDING"
  /\ \/ Complete(m)
     \/ state[m] # "Active" /\ UNCHANGED state
  /\ Processed(m)
  /\ UNCHANGED runtime

\* the row is FAILED before the queue hears of the error, so a retry skips it
HandleFails(m) ==
  /\ m \in jobs /\ row[m] = "PENDING"
  /\ row' = [row EXCEPT ![m] = "FAILED"]
  /\ jobs' \in {jobs, jobs \ {m}}
  /\ UNCHANGED <<state, runtime>>

SkipEvent(m) ==
  /\ m \in jobs /\ row[m] # "PENDING"
  /\ jobs' = jobs \ {m}
  /\ UNCHANGED <<state, runtime, row>>

InboxOK ==
  /\ runtime \in [Meetings -> {"none", "running", "ended"}]
  /\ row \in [Meetings -> {"none", "PENDING", "PROCESSED", "FAILED"}]
  /\ jobs \subseteq Meetings
=============================================================================
