------------------------------ MODULE MCRecovery ------------------------------
(***************************************************************************)
(* The sessions of MCSessionLifecycle, and beside them the meetings of     *)
(* MeetingLifecycle with an administrator who saves stale copies of their  *)
(* rows: what the listener, the reconciliation task and a restart make     *)
(* good.  The two share nothing, and one of them moves in a behaviour.     *)
(***************************************************************************)
EXTENDS MCSessionLifecycle

CONSTANTS Workers, MaxProvisioningRetries, MaxEdited

VARIABLES
  part,        \* the part that moves
  rows, retry, servers, queue, worker, hooks, held, edit, timedOut, remote, billing,
  ledger, edited

sessions == <<vars, shape>>
billed   == <<rows, retry, servers, queue, worker, hooks, held, edit, timedOut, remote,
              billing, ledger, edited>>

Rows == INSTANCE MeetingLifecycle
          WITH MaxMeetings <- 1, state <- rows, runtime <- servers, jobs <- queue,
               stuck <- timedOut

\* the meetings move in one of the shapes of the sessions
RecoveryInit ==
  /\ MCInit /\ Rows!Init /\ part \in {"sessions", "meetings"}
  /\ part = "meetings" => shape.meetings = Meetings

RecoveryNext ==
  /\ \/ part = "sessions" /\ MCNext /\ UNCHANGED billed
     \/ part = "meetings" /\ Rows!Next /\ UNCHANGED sessions
  /\ UNCHANGED part

\* the part that does not move stays where none of its fair actions is enabled
RecoverySpec ==
  RecoveryInit /\ [][RecoveryNext]_<<sessions, billed, part>> /\ Fairness /\ Rows!Fairness
-----------------------------------------------------------------------------
\* Every Completed meeting gets its ledger row, though the completer may die or
\* its billing fail, unless it is overwritten (MeetingLifecycle: completion,
\* webhooks, reconcilePendingBilling).
CompletedGetsBilled == Rows!CompletedGetsBilled

\* A meeting whose worker died does not count against the limit for ever
\* (MeetingLifecycle: reconcileProvisioning).
StuckIsReleased == Rows!StuckIsReleased
=============================================================================
