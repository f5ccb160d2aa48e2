-------------------------- MODULE MCSessionLifecycle --------------------------
(***************************************************************************)
(* Two instances of SessionLifecycle in one run: two sessions compete for  *)
(* the cap and one meeting, whose end is heard by every path; or one       *)
(* session is started twice, and no webhook of its two meetings arrives.   *)
(***************************************************************************)
EXTENDS SessionLifecycle

CONSTANT s1

VARIABLE shape

Shapes == {[meetings |-> {1}, sessions |-> Sessions, heard |-> {1}],
           [meetings |-> Meetings, sessions |-> {s1}, heard |-> {}]}

Fits ==
  /\ \A m \in Meetings : /\ state'[m] # "Absent" => m \in shape.meetings
                         /\ row'[m] # "none" => m \in shape.heard
  /\ \A r \in Requests : req'[r].on \subseteq shape.sessions

MCInit == Init /\ shape \in Shapes
MCNext == Next /\ Fits /\ UNCHANGED shape

MCSpec == MCInit /\ [][MCNext]_<<vars, shape>> /\ Fairness
=============================================================================
