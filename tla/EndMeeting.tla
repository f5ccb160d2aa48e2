---------------------------- MODULE EndMeeting ----------------------------
(***************************************************************************)
(* Ending one active meeting: concurrent endBbbMeeting requests and the    *)
(* completions that run under a system context (webhook, reconciliation,   *)
(* billing ceiling), at the level of database transactions and the         *)
(* meeting's row lock.                                                     *)
(*                                                                         *)
(* The request's own transaction (the resolver's @Transaction) writes      *)
(* through the request context; completeMeetingLifecycle opens a second    *)
(* transaction, on another connection, with SELECT ... FOR UPDATE.  The    *)
(* service may also be called without a request transaction, as the end to *)
(* end tests do; the resolver always has one.                              *)
(***************************************************************************)
EXTENDS Naturals

CONSTANTS
  Enders,        \* concurrent end requests, each of a different user
  Nobody

ASSUME EndersAssumption == Nobody \notin Enders

VARIABLES
  inTx,      \* the requests come from the resolver, in request transactions
  active,    \* the row's state is Active (else Completed)
  running,   \* BBB still runs the meeting
  pastCeiling,  \* billingCapped: the meeting was found past the ceiling
  endedBy,   \* committed endedByUserId
  rowLock,   \* the request whose open transaction locks the row
  pc         \* where each end request is

endVars == <<active, running, pastCeiling, endedBy, rowLock, pc>>

EndInit ==
  /\ inTx \in BOOLEAN
  /\ active = TRUE /\ running = TRUE /\ pastCeiling = FALSE
  /\ endedBy = Nobody /\ rowLock = Nobody
  /\ pc = [e \in Enders |-> "start"]

\* the row is read: an ended meeting is refused
Refuse(e) ==
  /\ pc[e] = "start" /\ ~active
  /\ pc' = [pc EXCEPT ![e] = "done"]
  /\ UNCHANGED <<pastCeiling, active, running, endedBy, rowLock>>

ReadMeeting(e) ==
  /\ pc[e] = "start" /\ active
  /\ pc' = [pc EXCEPT ![e] = "read"]
  /\ UNCHANGED <<pastCeiling, active, running, endedBy, rowLock>>

\* mutant: a failed /end is swallowed and the request goes on
EndOnBbb_Swallowed(e) ==
  /\ pc[e] = "read"
  /\ \/ running' = FALSE
     \/ UNCHANGED running
  /\ pc' = [pc EXCEPT ![e] = "acked"]
  /\ UNCHANGED <<pastCeiling, active, endedBy, rowLock>>

\* the /end call: acknowledged, or thrown on (nothing is stamped)
EndOnBbb(e) ==
  /\ pc[e] = "read"
  /\ \/ running' = FALSE /\ pc' = [pc EXCEPT ![e] = "acked"]
     \/ UNCHANGED running /\ pc' = [pc EXCEPT ![e] = "done"]
  /\ UNCHANGED <<pastCeiling, active, endedBy, rowLock>>

\* mutant: no WHERE endedByUserId IS NULL, the last requester wins
Stamp_LastWins(e) ==
  /\ pc[e] = "acked" /\ rowLock = Nobody
  /\ pc' = [pc EXCEPT ![e] = "stamped"]
  /\ endedBy' = e
  /\ UNCHANGED <<pastCeiling, active, running, rowLock>>

\* UPDATE ... SET endedByUserId WHERE endedByUserId IS NULL.  In a request
\* transaction the stamp stays uncommitted and the row locked.
Stamp(e) ==
  /\ pc[e] = "acked" /\ rowLock = Nobody
  /\ pc' = [pc EXCEPT ![e] = "stamped"]
  /\ IF endedBy # Nobody THEN UNCHANGED <<endedBy, rowLock>>
     ELSE IF inTx THEN rowLock' = e /\ UNCHANGED endedBy
                  ELSE endedBy' = e /\ UNCHANGED rowLock
  /\ UNCHANGED <<pastCeiling, active, running>>

\* completeMeetingLifecycle's transaction, on its own connection
CompleteRow ==
  /\ rowLock = Nobody
  /\ active' = FALSE
  /\ UNCHANGED rowLock

CompleteRequested(e) ==
  /\ pc[e] = "stamped"
  /\ CompleteRow
  /\ pc' = [pc EXCEPT ![e] = "completed"]
  \* keep-first: an unstamped row that this completes is credited to e
  /\ endedBy' = IF active /\ endedBy = Nobody THEN e ELSE endedBy
  /\ UNCHANGED <<pastCeiling, running>>

\* the mutation returns: a request transaction commits
Respond(e) ==
  /\ pc[e] = "completed"
  /\ pc' = [pc EXCEPT ![e] = "done"]
  /\ IF rowLock = e THEN rowLock' = Nobody /\ endedBy' = e
                    ELSE UNCHANGED <<rowLock, endedBy>>
  /\ UNCHANGED <<pastCeiling, active, running>>

\* the last participant leaves
RuntimeEnds ==
  /\ running
  /\ running' = FALSE
  /\ UNCHANGED <<pastCeiling, active, endedBy, rowLock, pc>>

\* mutant: only meetings nobody asked to end are completed by the system
CompleteBySystem_Unrequested ==
  /\ active /\ ~running /\ \A e \in Enders : pc[e] = "start"
  /\ CompleteRow
  /\ UNCHANGED <<pastCeiling, running, endedBy, pc>>

\* webhook or reconciliation: a system completion of what BBB ended
CompleteBySystem ==
  /\ active /\ ~running
  /\ CompleteRow
  /\ UNCHANGED <<pastCeiling, running, endedBy, pc>>

\* a pass that read an Active row past maxMeetingDurationMs writes the flag;
\* the row may have been completed since
CapMeeting ==
  /\ ~pastCeiling /\ rowLock = Nobody
  /\ pastCeiling' = TRUE
  /\ UNCHANGED <<active, running, endedBy, rowLock, pc>>

\* and completes the meeting, whether BBB still runs it or not
CompleteCapped ==
  /\ pastCeiling /\ active
  /\ CompleteRow
  /\ UNCHANGED <<pastCeiling, running, endedBy, pc>>

\* the server dies; its transactions are rolled back
ServerRestart ==
  /\ \E e \in Enders : pc[e] \notin {"start", "done"}
  /\ pc' = [e \in Enders |-> IF pc[e] = "start" THEN "start" ELSE "done"]
  /\ rowLock' = Nobody
  /\ UNCHANGED <<pastCeiling, active, running, endedBy>>

EndStep(e) == \/ Refuse(e) \/ ReadMeeting(e) \/ EndOnBbb(e) \/ Stamp(e)
              \/ CompleteRequested(e) \/ Respond(e)

EndNext ==
  /\ \/ \E e \in Enders : EndStep(e)
     \/ RuntimeEnds \/ CompleteBySystem
     \/ CapMeeting \/ CompleteCapped \/ ServerRestart
  /\ UNCHANGED inTx

\* a request's code runs on; the webhook or a pass comes sooner or later
EndFairness == (\A e \in Enders : WF_endVars(EndStep(e))) /\ WF_endVars(CompleteBySystem)
EndSpec == EndInit /\ [][EndNext]_<<endVars, inTx>> /\ EndFairness

\* endBbbMeeting as it is called in production, by the resolver
ResolverSpec == EndSpec /\ inTx = TRUE
-----------------------------------------------------------------------------
EndTypeOK ==
  /\ inTx \in BOOLEAN
  /\ active \in BOOLEAN /\ running \in BOOLEAN /\ pastCeiling \in BOOLEAN
  /\ endedBy \in Enders \cup {Nobody} /\ rowLock \in Enders \cup {Nobody}
  /\ pc \in [Enders -> {"start", "read", "acked", "stamped", "completed", "done"}]

\* Nobody is credited with ending a meeting that BBB still runs, and only the
\* billing ceiling completes one (the post-ack contract, BUG-059).
CompletedAfterBbb == /\ endedBy # Nobody => ~running
                     /\ ~active /\ running => pastCeiling

\* The first requester who is recorded stays recorded, whoever completes.
FirstEnderKept == [][endedBy # Nobody => endedBy' = endedBy]_endVars

\* Every end request returns.
EndReturns == \A e \in Enders : pc[e] = "read" ~> pc[e] = "done"

\* A meeting that BBB ended is completed, in spite of requests that are refused,
\* fail or die on the way (the webhook and the passes), unless the transaction of
\* an end request holds its row.
EndedIsCompleted == ~running ~> ~active \/ rowLock # Nobody
=============================================================================
