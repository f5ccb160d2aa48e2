-------------------------- MODULE MCMeetingLifecycle --------------------------
(***************************************************************************)
(* Three small instances of MeetingLifecycle in one run: two workers and   *)
(* two meetings that nobody edits; an administrator who edits one of two   *)
(* meetings, with a worker at a time, and classes that end unheard; and    *)
(* everything at once on one meeting.                                      *)
(***************************************************************************)
EXTENDS MeetingLifecycle, TLC

VARIABLE shape

Fits ==
  CASE shape = "workers" -> edit' = {}
    [] shape = "editing" -> /\ hooks' = {} /\ held' = {}
                            /\ Cardinality({w \in Workers : Busy(w)'}) <= 1
    [] shape = "one"     -> \A m \in Meetings \ {1} : state'[m] = "Absent"

MCInit == Init /\ shape \in {"workers", "editing", "one"}
MCNext == Next /\ Fits /\ UNCHANGED shape
MCSpec == MCInit /\ [][MCNext]_<<vars, shape>>

\* workers are interchangeable (safety runs only)
Symmetry == Permutations(Workers)
=============================================================================
