------------------------- MODULE MeetingFSMProofs -------------------------
(***************************************************************************)
(* MeetingFSM keeps its rows well formed and the organization's limit, for *)
(* any number of meetings and any limit, and whatever rows administrators  *)
(* save over.                                                              *)
(***************************************************************************)
EXTENDS MeetingFSM, FiniteSetTheorems, TLAPS

FSMInv    == StateOK /\ LimitKept
EditedInv == EditedOK /\ LimitKept

\* Only finitely many meetings are live, so they can be counted.
LEMMA LiveFinite == IsFiniteSet(LiveMeetings) /\ Cardinality(LiveMeetings) \in Nat
<1>1. IsFiniteSet(Meetings)
  BY FS_Interval, LimitAssumption DEF Meetings
<1> QED
  BY <1>1, FS_Subset, FS_CardinalityType DEF LiveMeetings

\* A step after which no meeting is newly live does not raise the count.
LEMMA LiveShrinks ==
  ASSUME LimitKept, LiveMeetings' \subseteq LiveMeetings
  PROVE  LimitKept'
<1>1. Cardinality(LiveMeetings') <= Cardinality(LiveMeetings)
  BY LiveFinite, FS_Subset
<1>2. IsFiniteSet(LiveMeetings')
  BY LiveFinite, FS_Subset
<1>3. Cardinality(LiveMeetings') \in Nat
  BY <1>2, FS_CardinalityType
<1> QED
  BY <1>1, <1>3, LiveFinite, LimitAssumption DEF LimitKept

\* The first rows are well formed and none is live.
LEMMA FSMInitial == FSMInit => FSMInv
<1> SUFFICES ASSUME FSMInit PROVE FSMInv
  OBVIOUS
<1>1. StateOK
  BY DEF FSMInit, StateOK, States, Unended, Live, Ended
<1>2. LiveMeetings = {}
  BY DEF FSMInit, LiveMeetings, Live
<1> QED
  BY <1>1, <1>2, FS_EmptySet, LimitAssumption DEF FSMInv, LimitKept

\* Every change of a row keeps both; only a promotion makes a meeting live.
LEMMA EditedInductive == EditedInv /\ [EditedNext]_state => EditedInv'
<1> SUFFICES ASSUME EditedInv, [EditedNext]_state PROVE EditedInv'
  OBVIOUS
<1> USE DEF EditedInv
<1> DEFINE Seen == States \cup {"Edited"}
<1>1. ASSUME NEW m \in Meetings, NEW to \in Seen, Goes(m, to)
      PROVE  /\ EditedOK'
             /\ state'[m] = to
             /\ \A n \in Meetings \ {m} : state'[n] = state[n]
  BY <1>1 DEF EditedOK, Goes
<1>2. ASSUME NEW m \in Meetings, NEW to \in Seen, Goes(m, to),
             to \in Live => state[m] \in Live
      PROVE  EditedInv'
  <2>1. LiveMeetings' \subseteq LiveMeetings
    BY <1>1, <1>2 DEF LiveMeetings
  <2> QED
    BY <1>1, <1>2, <2>1, LiveShrinks
<1>3. ASSUME NEW m \in Meetings, Promote(m) PROVE EditedInv'
  <2>1. "Provisioning" \in Seen
    BY DEF States, Unended, Live
  <2>2. LiveMeetings' = LiveMeetings \cup {m}
    BY <1>1, <1>3, <2>1 DEF Promote, LiveMeetings, Live
  <2>3. Cardinality(LiveMeetings') <= Cardinality(LiveMeetings) + 1
    BY <2>2, LiveFinite, FS_AddElement
  <2>4. Cardinality(LiveMeetings') \in Nat
    BY <2>2, LiveFinite, FS_AddElement, FS_CardinalityType
  <2>5. LimitKept'
    BY <1>3, <2>3, <2>4, LiveFinite, LimitAssumption DEF Promote, LimitKept
  <2> QED
    BY <1>1, <1>3, <2>1, <2>5 DEF Promote
<1>4. ASSUME NEW m \in Meetings,
             \/ Insert(m) \/ Activate(m) \/ Complete(m) \/ Retry(m) \/ GoStale(m)
             \/ Fail(m) \/ Edit(m)
      PROVE  EditedInv'
  <2>1. {"Pending", "Active", "Completed", "Stale", "Failed"} \subseteq States
    BY DEF States, Unended, Live, Ended
  <2> QED
    BY <1>2, <1>4, <2>1
       DEF Insert, Activate, Complete, Retry, GoStale, Fail, Edit, Live, Ended
<1>5. CASE UNCHANGED state
  BY <1>5 DEF EditedOK, LimitKept, LiveMeetings
<1> QED
  BY <1>3, <1>4, <1>5 DEF EditedNext, FSMNext

\* Without the administrators' saves no row is an edited one.
LEMMA FSMInductive == FSMInv /\ [FSMNext]_state => FSMInv'
<1> SUFFICES ASSUME FSMInv, [FSMNext]_state PROVE FSMInv'
  OBVIOUS
<1>1. EditedInv /\ [EditedNext]_state
  BY DEF FSMInv, StateOK, EditedInv, EditedOK, EditedNext
<1>2. LimitKept'
  BY <1>1, EditedInductive DEF EditedInv
<1>3. StateOK'
  BY DEF FSMInv, StateOK, FSMNext, Insert, Promote, Activate, Complete, Retry, GoStale,
         Fail, Goes, States, Unended, Ended, Live
<1> QED
  BY <1>2, <1>3 DEF FSMInv

\* Rows are well formed and the organization never has more meetings
\* Provisioning or Active than its limit (reserveProvisioningCapacity).
THEOREM FSMSafe == FSMSpec => [](StateOK /\ LimitKept)
<1> QED
  BY FSMInitial, FSMInductive, PTL DEF FSMSpec, FSMInv

\* The limit holds as well when administrators save over rows, of the rows they
\* have not saved over.
THEOREM EditedSafe == EditedSpec => [](EditedOK /\ LimitKept)
<1>1. FSMInit => EditedInv
  BY FSMInitial DEF FSMInv, StateOK, EditedInv, EditedOK
<1> QED
  BY <1>1, EditedInductive, PTL DEF EditedSpec, EditedInv
=============================================================================
