-------------------------- MODULE MCRoomLifecycle --------------------------
(***************************************************************************)
(* Three instances of RoomLifecycle in one run: a single request at a      *)
(* time; a moderator and a learner at once; and two moderators on a room   *)
(* with one meeting, whose locks may expire.                               *)
(***************************************************************************)
EXTENDS RoomLifecycle

CONSTANT r1

VARIABLE shape

Fits ==
  CASE shape = "one"     -> late' = {} /\ \A r \in Requests \ {r1} : req'[r].pc = "idle"
    [] shape = "class"   -> /\ late' = {} /\ req'[r1].role # "learner"
                            /\ \A r \in Requests \ {r1} : req'[r].role # "moderator"
    [] shape = "expiry"  -> /\ \A r \in Requests : req'[r].role # "learner"
                            /\ \A m \in Meetings \ {1} : state'[m] = "Absent"

MCInit == Init /\ shape \in {"one", "class", "expiry"}
MCNext == Next /\ Fits /\ UNCHANGED shape

MCSpec == MCInit /\ [][MCNext]_<<vars, shape>> /\ WF_vars(ReconcileRooms)

\* With one request at a time a room has at most one meeting that is not over,
\* whatever resets, passes, callbacks and restarts do (the existence check in
\* createRoomMeetingAndEnqueue).
OneMeetingAlone == shape = "one" => OneMeetingPerRoom
=============================================================================
