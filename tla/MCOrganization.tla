---------------------------- MODULE MCOrganization ----------------------------
(***************************************************************************)
(* What an organization has and pays, in one run: EndMeeting,              *)
(* MeetingBilling and several small instances of TenantCapacity.  They     *)
(* share no variable: in each shape one of them moves.                     *)
(***************************************************************************)
EXTENDS EndMeeting, MeetingBilling, TenantCapacity

CONSTANT l1

VARIABLE shape

Still == [of |-> "capacity", listeners |-> {l1}, edits |-> FALSE,
          moves |-> MaxMoves, days |-> 0, faults |-> 0]

Ending   == [Still EXCEPT !.of = "ending"]
Billing  == [Still EXCEPT !.of = "billing"]
\* announcements that overlap; edits; faults and restarts; days
Overlap  == [Still EXCEPT !.listeners = Listeners]
Editing  == [Still EXCEPT !.edits = TRUE]
Failing  == [Still EXCEPT !.edits = TRUE, !.moves = MaxMoves - 1, !.faults = MaxFaults]
TwoDays  == [Still EXCEPT !.moves = MaxMoves - 1, !.days = MaxDay, !.faults = MaxFaults]

Shapes == {Ending, Billing, Overlap, Editing, Failing, TwoDays}

Fits ==
  /\ \A l \in Listeners \ shape.listeners : task'[l] = Idle
  /\ task'["edit"] # Idle => shape.edits
  /\ moves' <= shape.moves /\ today' <= shape.days /\ faults' <= shape.faults

MCInit == EndInit /\ Init /\ CapacityInit /\ shape \in Shapes
          /\ (shape.of # "ending" => inTx)
          /\ (shape.of # "billing" => mode = "grant" /\ \A g \in Grants : earlier[g] = 0)
MCNext ==
  /\ \/ shape.of = "ending" /\ EndNext /\ UNCHANGED <<vars, capacityVars>>
     \/ shape.of = "billing" /\ Next /\ UNCHANGED <<endVars, inTx, capacityVars>>
     \/ shape.of = "capacity" /\ CapacityNext /\ Fits /\ UNCHANGED <<endVars, inTx, vars>>
  /\ UNCHANGED shape

\* the fairness of the ending, where it is the ending that moves
EndingFairness ==
  /\ \A e \in Enders : WF_endVars(shape.of = "ending" /\ EndStep(e))
  /\ WF_endVars(shape.of = "ending" /\ CompleteBySystem)
MCSpec == /\ MCInit /\ [][MCNext]_<<endVars, inTx, vars, capacityVars, shape>>
          /\ EndingFairness /\ Fairness /\ CapacityFairness
=============================================================================
