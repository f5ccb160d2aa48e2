----------------------- MODULE MeetingBillingProofs -----------------------
(***************************************************************************)
(* MeetingBilling, for any number of meetings, grants and billing calls:   *)
(* its type invariant, that a frozen usage row covers the samples of its   *)
(* meeting and is never changed, and that, for meetings the billing mode   *)
(* was not changed under, there is one way of billing and no event without *)
(* its fact, and that a grant has lost what the ledger rows charged to it  *)
(* add up to.                                                              *)
(*                                                                         *)
(* The inductive invariant says of each call in flight what its meeting is *)
(* by now, and of each meeting that the mode it was provisioned in is the  *)
(* mode it is completed, billed and recovered in.                          *)
(***************************************************************************)
EXTENDS MeetingBilling, FiniteSetTheorems, WellFoundedInduction, TLAPS

BillingCall == [m : Meetings, kind : {"completion", "recovery"}, how : {"grant", "metered"},
          pc : {"start", "insert"}, n : Minutes]

\* A call is made for a meeting that is completed; only metered ones insert.
CallsOK ==
  \A c \in calls : /\ state[c.m] = "Completed"
                   /\ c.pc = "insert" => c.how = "metered"

\* Only completed meetings are billed, and by grant only those that have one.
FactsOK ==
  \A m \in Meetings :
    /\ ledger[m] # None => grantOf[m] # None
    /\ usage[m] # None => state[m] = "Completed"
    /\ m \in announced => state[m] = "Completed"
    /\ state[m] = "New" => m \notin switched /\ ledger[m] = None

\* The mode a meeting was provisioned in is the mode it is billed in.
ModeKept ==
  \A m \in Meetings \ switched :
    /\ state[m] # "New" => (grantOf[m] = None <=> mode = "metered")
    /\ \A c \in calls : c.m = m => (c.how = "metered" <=> mode = "metered")
    /\ usage[m] # None => mode = "metered"

\* Nothing is pruned before it is counted, and what a call counted covers it.
SamplesKept ==
  \A m \in Meetings :
    /\ state[m] = "Completed" /\ usage[m] = None => due[m] \subseteq samples[m]
    /\ \A c \in calls : c.m = m /\ c.pc = "insert" /\ usage[m] = None =>
         c.n >= Cardinality(Kept(due[m], capped[m])) \/ usage[m] # None

IInv ==
  /\ TypeOK /\ CallsOK /\ FactsOK /\ ModeKept /\ SamplesKept
  /\ UsageCoversSamples /\ AnnouncedIsBilled
-----------------------------------------------------------------------------
\* Samples that are kept are at most as many as the minutes there are.
LEMMA KeptFinite ==
  ASSUME NEW S, S \subseteq 1 .. MaxMinutes, NEW cap \in BOOLEAN
  PROVE  /\ IsFiniteSet(Kept(S, cap))
         /\ Cardinality(Kept(S, cap)) \in Minutes
<1>1. IsFiniteSet(1 .. MaxMinutes) /\ Cardinality(1 .. MaxMinutes) = MaxMinutes
  BY FS_Interval, ConstantsAssumption
<1>2. Kept(S, cap) \subseteq 1 .. MaxMinutes
  BY DEF Kept
<1>3. IsFiniteSet(Kept(S, cap)) /\ Cardinality(Kept(S, cap)) <= MaxMinutes
  BY <1>1, <1>2, FS_Subset
<1>4. Cardinality(Kept(S, cap)) \in Nat
  BY <1>3, FS_CardinalityType
<1> QED
  BY <1>3, <1>4, ConstantsAssumption DEF Minutes

\* More samples, or a ceiling less, keep no fewer.
LEMMA KeptMonotone ==
  ASSUME NEW S, NEW T, S \subseteq T, T \subseteq 1 .. MaxMinutes,
         NEW cap \in BOOLEAN, NEW less \in BOOLEAN, less => cap
  PROVE  Cardinality(Kept(S, cap)) <= Cardinality(Kept(T, less))
<1>1. Kept(S, cap) \subseteq Kept(T, less)
  BY DEF Kept
<1>2. IsFiniteSet(Kept(T, less))
  BY KeptFinite
<1> QED
  BY <1>1, <1>2, FS_Subset

\* What a call owes is a number of minutes.
LEMMA OwedType ==
  ASSUME TypeOK, NEW m \in Meetings, NEW n \in Minutes
  PROVE  Owed(m, n) \in Minutes
BY ConstantsAssumption DEF Owed, Capped, Minutes

LEMMA TypeInitial == Init => TypeOK
BY ConstantsAssumption DEF Init, TypeOK, Minutes

LEMMA TypeInductive == TypeOK /\ [Next]_vars => TypeOK'
<1> SUFFICES ASSUME TypeOK, [Next]_vars PROVE TypeOK'
  OBVIOUS
<1> USE DEF org, meeting, facts, meter, history
<1>1. CASE SetBillingMode
  BY <1>1, ConstantsAssumption DEF TypeOK, SetBillingMode
<1>2. CASE SampleActiveMeetings
  <2>1. now' \in Minutes /\ now + 1 \in 1 .. MaxMinutes
    BY <1>2, ConstantsAssumption DEF TypeOK, SampleActiveMeetings, Minutes
  <2>2. probing' \subseteq Meetings \X (1 .. MaxMinutes)
    BY <1>2, <2>1 DEF TypeOK, SampleActiveMeetings
  <2> QED
    BY <1>2, <2>1, <2>2 DEF TypeOK, SampleActiveMeetings
<1>3. ASSUME NEW m \in Meetings, Provision(m) PROVE TypeOK'
  BY <1>3 DEF TypeOK, Provision
<1>4. ASSUME NEW m \in Meetings, CapBilling(m) PROVE TypeOK'
  BY <1>4 DEF TypeOK, CapBilling
<1>5. ASSUME NEW m \in Meetings, Complete(m) PROVE TypeOK'
  <2>1. PICK n \in Durations :
          /\ lasted' = [lasted EXCEPT ![m] = n]
          /\ calls' = calls \cup {Call(m, "completion", mode, Owed(m, n))}
    BY <1>5 DEF Complete
  <2>2. n \in Minutes /\ Owed(m, n) \in Minutes
    BY ConstantsAssumption, OwedType DEF Minutes
  <2>3. Call(m, "completion", mode, Owed(m, n)) \in BillingCall
    BY <2>2 DEF Call, BillingCall, TypeOK
  <2>4. \A c \in calls' : c \in BillingCall
    BY <2>1, <2>3 DEF TypeOK, BillingCall
  <2> QED
    BY <1>5, <2>1, <2>2, <2>4 DEF TypeOK, Complete, BillingCall
<1>6. ASSUME NEW m \in Meetings, PruneSamples(m) PROVE TypeOK'
  BY <1>6 DEF TypeOK, PruneSamples
<1>7. ASSUME NEW m \in Meetings, ReconcilePendingBilling(m) PROVE TypeOK'
  <2>1. Owed(m, lasted[m]) \in Minutes
    BY OwedType DEF TypeOK
  <2>2. Call(m, "recovery", "grant", Owed(m, lasted[m])) \in BillingCall
    BY <2>1 DEF Call, BillingCall
  <2> QED
    BY <1>7, <2>2 DEF TypeOK, ReconcilePendingBilling, BillingCall
<1>8. ASSUME NEW m \in Meetings, ReconcilePendingMeteredBilling(m) PROVE TypeOK'
  <2>1. Call(m, "recovery", "metered", 0) \in BillingCall
    BY ConstantsAssumption DEF Call, BillingCall, Minutes
  <2> QED
    BY <1>8, <2>1 DEF TypeOK, ReconcilePendingMeteredBilling, BillingCall
<1>9. ASSUME NEW p \in probing, SampleOneMeeting(p[1], p[2]) PROVE TypeOK'
  <2>1. p[1] \in Meetings /\ p[2] \in 1 .. MaxMinutes
    BY DEF TypeOK
  <2> QED
    BY <1>9, <2>1 DEF TypeOK, SampleOneMeeting
<1>10. ASSUME NEW c \in calls, ConsumeGrantHours(c) PROVE TypeOK'
  <2>1. c \in BillingCall /\ c.m \in Meetings /\ c.n \in Nat /\ c.n \in Minutes
    BY ConstantsAssumption DEF TypeOK, BillingCall, Minutes
  <2>2. calls' \subseteq calls /\ announced' \subseteq Meetings
    BY <1>10, <2>1 DEF TypeOK, ConsumeGrantHours, Ends
  <2>3. ledger' \in [Meetings -> Minutes \cup {None}]
    BY <1>10, <2>1 DEF TypeOK, ConsumeGrantHours
  <2>4. grant' \in [Grants -> [consumed : Nat, exhausted : BOOLEAN]]
    <3>1. CASE grantOf[c.m] # None /\ ledger[c.m] = None /\ c.n # 0
      <4>1. grantOf[c.m] \in Grants
        BY <2>1, <3>1 DEF TypeOK
      <4>2. grant' = [grant EXCEPT ![grantOf[c.m]] =
                        [consumed |-> @.consumed + c.n,
                         exhausted |-> @.consumed + c.n >= GrantedMinutes]]
        BY <1>10, <3>1 DEF ConsumeGrantHours, Charge
      <4>3. grant[grantOf[c.m]].consumed + c.n \in Nat
        BY <2>1, <4>1 DEF TypeOK
      <4> QED
        BY <4>1, <4>2, <4>3 DEF TypeOK
    <3>2. CASE ~(grantOf[c.m] # None /\ ledger[c.m] = None /\ c.n # 0)
      BY <1>10, <3>2 DEF TypeOK, ConsumeGrantHours
    <3> QED
      BY <3>1, <3>2
  <2> QED
    BY <1>10, <2>2, <2>3, <2>4 DEF TypeOK, ConsumeGrantHours
<1>11. ASSUME NEW c \in calls, ReadSamples(c) PROVE TypeOK'
  <2>1. c \in BillingCall /\ c.m \in Meetings
    BY DEF TypeOK, BillingCall
  <2> DEFINE counted == [c EXCEPT !.pc = "insert",
                                  !.n = Cardinality(Kept(samples[c.m], capped[c.m]))]
  <2>2. Cardinality(Kept(samples[c.m], capped[c.m])) \in Minutes
    BY <2>1, KeptFinite DEF TypeOK
  <2>3. counted \in BillingCall
    BY <2>1, <2>2 DEF BillingCall
  <2>4. calls' \subseteq calls \cup {counted} /\ announced' \subseteq Meetings
    BY <1>11, <2>1 DEF TypeOK, ReadSamples, Ends
  <2> QED
    BY <1>11, <2>3, <2>4 DEF TypeOK, ReadSamples, BillingCall
<1>12. ASSUME NEW c \in calls, FreezeUsage(c) PROVE TypeOK'
  <2>1. c.m \in Meetings /\ c.n \in Minutes
    BY DEF TypeOK
  <2> QED
    BY <1>12, <2>1 DEF TypeOK, FreezeUsage, Ends
<1>13. ASSUME NEW c \in calls, BillingFails(c) PROVE TypeOK'
  BY <1>13 DEF TypeOK, BillingFails
<1>14. CASE UNCHANGED vars
  BY <1>14 DEF TypeOK, vars
<1> QED
  BY <1>1, <1>2, <1>3, <1>4, <1>5, <1>6, <1>7, <1>8, <1>9, <1>10, <1>11, <1>12,
     <1>13, <1>14 DEF Next

-----------------------------------------------------------------------------
\* What an action leaves of the calls, up to the one it makes.
LEMMA CallsInductive == IInv /\ [Next]_vars => CallsOK'
<1> SUFFICES ASSUME IInv, [Next]_vars PROVE CallsOK'
  OBVIOUS
<1> USE DEF IInv, CallsOK, org, meeting, facts, meter, history
<1>1. CASE SetBillingMode
  BY <1>1 DEF SetBillingMode
<1>2. CASE SampleActiveMeetings
  BY <1>2 DEF SampleActiveMeetings
<1>3. ASSUME NEW m \in Meetings, Provision(m) PROVE CallsOK'
  BY <1>3 DEF Provision, TypeOK
<1>4. ASSUME NEW m \in Meetings, CapBilling(m) PROVE CallsOK'
  BY <1>4 DEF CapBilling
<1>5. ASSUME NEW m \in Meetings, Complete(m) PROVE CallsOK'
  BY <1>5 DEF Complete, Call, TypeOK
<1>6. ASSUME NEW m \in Meetings, PruneSamples(m) PROVE CallsOK'
  BY <1>6 DEF PruneSamples
<1>7. ASSUME NEW m \in Meetings, ReconcilePendingBilling(m) PROVE CallsOK'
  BY <1>7 DEF ReconcilePendingBilling, Call
<1>8. ASSUME NEW m \in Meetings, ReconcilePendingMeteredBilling(m) PROVE CallsOK'
  BY <1>8 DEF ReconcilePendingMeteredBilling, Call
<1>9. ASSUME NEW p \in probing, SampleOneMeeting(p[1], p[2]) PROVE CallsOK'
  BY <1>9 DEF SampleOneMeeting
<1>10. ASSUME NEW c \in calls, ConsumeGrantHours(c) PROVE CallsOK'
  BY <1>10 DEF ConsumeGrantHours, Ends
<1>11. ASSUME NEW c \in calls, ReadSamples(c) PROVE CallsOK'
  <2> DEFINE counted == [c EXCEPT !.pc = "insert",
                                  !.n = Cardinality(Kept(samples[c.m], capped[c.m]))]
  <2>1. c \in BillingCall
    BY DEF TypeOK, BillingCall
  <2>2. counted.m = c.m /\ counted.how = c.how
    BY <2>1 DEF BillingCall
  <2>3. calls' \subseteq calls \cup {counted} /\ state' = state
    BY <1>11 DEF ReadSamples, Ends
  <2>4. state[c.m] = "Completed" /\ c.how = "metered"
    BY <1>11 DEF ReadSamples
  <2> HIDE DEF counted
  <2> QED
    BY <2>2, <2>3, <2>4
<1>12. ASSUME NEW c \in calls, FreezeUsage(c) PROVE CallsOK'
  BY <1>12 DEF FreezeUsage, Ends
<1>13. ASSUME NEW c \in calls, BillingFails(c) PROVE CallsOK'
  BY <1>13 DEF BillingFails
<1>14. CASE UNCHANGED vars
  BY <1>14 DEF vars
<1> QED
  BY <1>1, <1>2, <1>3, <1>4, <1>5, <1>6, <1>7, <1>8, <1>9, <1>10, <1>11, <1>12,
     <1>13, <1>14 DEF Next

\* Facts are made for completed meetings, a ledger row for a grant.
LEMMA FactsInductive == IInv /\ [Next]_vars => FactsOK'
<1> SUFFICES ASSUME IInv, [Next]_vars PROVE FactsOK'
  OBVIOUS
<1> USE DEF IInv, FactsOK, org, meeting, facts, meter, history
<1>1. CASE SetBillingMode
  BY <1>1 DEF SetBillingMode
<1>2. CASE SampleActiveMeetings
  BY <1>2 DEF SampleActiveMeetings
<1>3. ASSUME NEW m \in Meetings, Provision(m) PROVE FactsOK'
  BY <1>3 DEF Provision, TypeOK
<1>4. ASSUME NEW m \in Meetings, CapBilling(m) PROVE FactsOK'
  BY <1>4 DEF CapBilling
<1>5. ASSUME NEW m \in Meetings, Complete(m) PROVE FactsOK'
  BY <1>5 DEF Complete, TypeOK
<1>6. ASSUME NEW m \in Meetings, PruneSamples(m) PROVE FactsOK'
  BY <1>6 DEF PruneSamples
<1>7. ASSUME NEW m \in Meetings, ReconcilePendingBilling(m) PROVE FactsOK'
  BY <1>7 DEF ReconcilePendingBilling
<1>8. ASSUME NEW m \in Meetings, ReconcilePendingMeteredBilling(m) PROVE FactsOK'
  BY <1>8 DEF ReconcilePendingMeteredBilling
<1>9. ASSUME NEW p \in probing, SampleOneMeeting(p[1], p[2]) PROVE FactsOK'
  BY <1>9 DEF SampleOneMeeting
<1>10. ASSUME NEW c \in calls, ConsumeGrantHours(c) PROVE FactsOK'
  <2>1. c.m \in Meetings /\ state[c.m] = "Completed"
    BY DEF TypeOK, CallsOK
  <2>2. announced' \subseteq announced \cup {c.m} /\ UNCHANGED <<state, grantOf, usage, switched>>
    BY <1>10 DEF ConsumeGrantHours, Ends
  <2>3. \A m \in Meetings : ledger'[m] # None => grantOf[m] # None
    BY <1>10 DEF ConsumeGrantHours, TypeOK
  <2>4. \A m \in Meetings \ {c.m} : ledger'[m] = ledger[m]
    BY <1>10 DEF ConsumeGrantHours, TypeOK
  <2> QED
    BY <2>1, <2>2, <2>3, <2>4
<1>11. ASSUME NEW c \in calls, ReadSamples(c) PROVE FactsOK'
  <2>1. announced' \subseteq announced \cup {c.m} /\ UNCHANGED <<state, grantOf, usage, ledger, switched>>
    BY <1>11 DEF ReadSamples, Ends
  <2> QED
    BY <2>1 DEF CallsOK
<1>12. ASSUME NEW c \in calls, FreezeUsage(c) PROVE FactsOK'
  BY <1>12 DEF FreezeUsage, Ends, CallsOK, TypeOK
<1>13. ASSUME NEW c \in calls, BillingFails(c) PROVE FactsOK'
  BY <1>13 DEF BillingFails
<1>14. CASE UNCHANGED vars
  BY <1>14 DEF vars
<1> QED
  BY <1>1, <1>2, <1>3, <1>4, <1>5, <1>6, <1>7, <1>8, <1>9, <1>10, <1>11, <1>12,
     <1>13, <1>14 DEF Next

\* A change of the mode takes everything under way out of the promise; without
\* one, completion, billing and recovery find the mode of the provisioning.
LEMMA ModeInductive == IInv /\ [Next]_vars => ModeKept'
<1> SUFFICES ASSUME IInv, [Next]_vars PROVE ModeKept'
  OBVIOUS
<1> USE DEF IInv, ModeKept, org, meeting, facts, meter, history
<1>1. CASE SetBillingMode
  <2>1. \A m \in Meetings \ switched' : state[m] = "New"
    BY <1>1 DEF SetBillingMode
  <2>2. UNCHANGED <<state, calls, usage>>
    BY <1>1 DEF SetBillingMode
  <2> QED
    BY <2>1, <2>2 DEF CallsOK, FactsOK
<1>2. CASE SampleActiveMeetings
  BY <1>2 DEF SampleActiveMeetings
<1>3. ASSUME NEW m \in Meetings, Provision(m) PROVE ModeKept'
  <2>1. PICK g \in Grants \cup {None} :
          /\ IF mode = "metered" THEN g = None ELSE g # None /\ ~grant[g].exhausted
          /\ grantOf' = [grantOf EXCEPT ![m] = g]
    BY <1>3 DEF Provision
  <2>2. /\ state' = [state EXCEPT ![m] = "Active"]
        /\ UNCHANGED <<mode, calls, usage, switched>>
    BY <1>3 DEF Provision
  <2>3. grantOf'[m] = None <=> mode = "metered"
    BY <2>1 DEF TypeOK
  <2>4. \A n \in Meetings \ {m} : state'[n] = state[n] /\ grantOf'[n] = grantOf[n]
    BY <2>1, <2>2 DEF TypeOK
  <2> QED
    BY <2>2, <2>3, <2>4
<1>4. ASSUME NEW m \in Meetings, CapBilling(m) PROVE ModeKept'
  BY <1>4 DEF CapBilling
<1>5. ASSUME NEW m \in Meetings, Complete(m) PROVE ModeKept'
  <2>1. PICK n \in Durations : calls' = calls \cup {Call(m, "completion", mode, Owed(m, n))}
    BY <1>5 DEF Complete
  <2>2. Call(m, "completion", mode, Owed(m, n)).how = mode
    BY DEF Call
  <2>3. mode \in {"grant", "metered"}
    BY DEF TypeOK
  <2>4. \A k \in Meetings : state'[k] # "New" <=> state[k] # "New"
    BY <1>5 DEF Complete, TypeOK
  <2>5. UNCHANGED <<mode, grantOf, usage, switched>>
    BY <1>5 DEF Complete
  <2> QED
    BY <2>1, <2>2, <2>3, <2>4, <2>5
<1>6. ASSUME NEW m \in Meetings, PruneSamples(m) PROVE ModeKept'
  BY <1>6 DEF PruneSamples
<1>7. ASSUME NEW m \in Meetings, ReconcilePendingBilling(m) PROVE ModeKept'
  BY <1>7 DEF ReconcilePendingBilling, Call
<1>8. ASSUME NEW m \in Meetings, ReconcilePendingMeteredBilling(m) PROVE ModeKept'
  BY <1>8 DEF ReconcilePendingMeteredBilling, Call
<1>9. ASSUME NEW p \in probing, SampleOneMeeting(p[1], p[2]) PROVE ModeKept'
  BY <1>9 DEF SampleOneMeeting
<1>10. ASSUME NEW c \in calls, ConsumeGrantHours(c) PROVE ModeKept'
  BY <1>10 DEF ConsumeGrantHours, Ends
<1>11. ASSUME NEW c \in calls, ReadSamples(c) PROVE ModeKept'
  <2> DEFINE counted == [c EXCEPT !.pc = "insert",
                                  !.n = Cardinality(Kept(samples[c.m], capped[c.m]))]
  <2>1. counted.m = c.m /\ counted.how = c.how
    BY DEF TypeOK
  <2>2. calls' \subseteq calls \cup {counted}
    BY <1>11 DEF ReadSamples, Ends
  <2>3. UNCHANGED <<state, mode, grantOf, usage, switched>>
    BY <1>11 DEF ReadSamples
  <2> HIDE DEF counted
  <2> QED
    BY <2>1, <2>2, <2>3
<1>12. ASSUME NEW c \in calls, FreezeUsage(c) PROVE ModeKept'
  <2>1. c.how = "metered" /\ c.m \in Meetings
    BY <1>12 DEF FreezeUsage, CallsOK, TypeOK
  <2>2. /\ calls' \subseteq calls /\ UNCHANGED <<state, mode, grantOf, switched>>
        /\ \A m \in Meetings \ {c.m} : usage'[m] = usage[m]
    BY <1>12 DEF FreezeUsage, Ends, TypeOK
  <2> QED
    BY <2>1, <2>2
<1>13. ASSUME NEW c \in calls, BillingFails(c) PROVE ModeKept'
  BY <1>13 DEF BillingFails
<1>14. CASE UNCHANGED vars
  BY <1>14 DEF vars
<1> QED
  BY <1>1, <1>2, <1>3, <1>4, <1>5, <1>6, <1>7, <1>8, <1>9, <1>10, <1>11, <1>12,
     <1>13, <1>14 DEF Next

\* Samples are pruned only when they were counted; a call counts at least those
\* of the completion.
LEMMA SamplesInductive == IInv /\ [Next]_vars => SamplesKept'
<1> SUFFICES ASSUME IInv, [Next]_vars PROVE SamplesKept'
  OBVIOUS
<1> USE DEF IInv, SamplesKept, org, meeting, facts, meter, history
<1>1. CASE SetBillingMode
  BY <1>1 DEF SetBillingMode
<1>2. CASE SampleActiveMeetings
  BY <1>2 DEF SampleActiveMeetings
<1>3. ASSUME NEW m \in Meetings, Provision(m) PROVE SamplesKept'
  BY <1>3 DEF Provision, TypeOK
<1>4. ASSUME NEW m \in Meetings, CapBilling(m) PROVE SamplesKept'
  <2>1. UNCHANGED <<state, usage, due, samples, calls>>
    BY <1>4 DEF CapBilling
  <2>2. ASSUME NEW k \in Meetings, NEW c \in calls, c.m = k, c.pc = "insert", usage[k] = None
        PROVE  c.n >= Cardinality(Kept(due[k], capped'[k]))
    <3>1. capped[k] \in BOOLEAN /\ capped'[k] \in BOOLEAN /\ (capped[k] => capped'[k])
      BY <1>4 DEF CapBilling, TypeOK
    <3>2. due[k] \subseteq 1 .. MaxMinutes /\ c.n \in Nat
      BY ConstantsAssumption DEF TypeOK, Minutes
    <3>3. Cardinality(Kept(due[k], capped'[k])) <= Cardinality(Kept(due[k], capped[k]))
      BY <3>1, <3>2, KeptMonotone
    <3>4. c.n >= Cardinality(Kept(due[k], capped[k]))
      BY <2>2
    <3>5. /\ Cardinality(Kept(due[k], capped[k])) \in Nat
          /\ Cardinality(Kept(due[k], capped'[k])) \in Nat
      BY <3>1, <3>2, KeptFinite, ConstantsAssumption DEF Minutes
    <3> QED
      BY <3>2, <3>3, <3>4, <3>5
  <2> QED
    BY <2>1, <2>2
<1>5. ASSUME NEW m \in Meetings, Complete(m) PROVE SamplesKept'
  <2>1. PICK n \in Durations : calls' = calls \cup {Call(m, "completion", mode, Owed(m, n))}
    BY <1>5 DEF Complete
  <2>2. \A c \in calls' : c.pc = "insert" => c \in calls /\ c.m # m
    BY <1>5, <2>1 DEF Call, Complete, CallsOK
  <2>3. /\ due'[m] = samples[m] /\ UNCHANGED <<usage, samples, capped>>
        /\ \A k \in Meetings \ {m} : state'[k] = state[k] /\ due'[k] = due[k]
    BY <1>5 DEF Complete, TypeOK
  <2> QED
    BY <2>2, <2>3
<1>6. ASSUME NEW m \in Meetings, PruneSamples(m) PROVE SamplesKept'
  BY <1>6 DEF PruneSamples, TypeOK
<1>7. ASSUME NEW m \in Meetings, ReconcilePendingBilling(m) PROVE SamplesKept'
  BY <1>7 DEF ReconcilePendingBilling, Call
<1>8. ASSUME NEW m \in Meetings, ReconcilePendingMeteredBilling(m) PROVE SamplesKept'
  BY <1>8 DEF ReconcilePendingMeteredBilling, Call
<1>9. ASSUME NEW p \in probing, SampleOneMeeting(p[1], p[2]) PROVE SamplesKept'
  <2>1. \A k \in Meetings : samples[k] \subseteq samples'[k]
    BY <1>9 DEF SampleOneMeeting, TypeOK
  <2>2. UNCHANGED <<state, usage, due, capped, calls>>
    BY <1>9 DEF SampleOneMeeting
  <2> QED
    BY <2>1, <2>2
<1>10. ASSUME NEW c \in calls, ConsumeGrantHours(c) PROVE SamplesKept'
  BY <1>10 DEF ConsumeGrantHours, Ends
<1>11. ASSUME NEW c \in calls, ReadSamples(c) PROVE SamplesKept'
  <2> DEFINE counted == [c EXCEPT !.pc = "insert",
                                  !.n = Cardinality(Kept(samples[c.m], capped[c.m]))]
  <2>1. counted.m = c.m /\ counted.n = Cardinality(Kept(samples[c.m], capped[c.m]))
    BY DEF TypeOK
  <2>2. calls' \subseteq calls \cup {counted} /\ UNCHANGED <<state, usage, due, samples, capped>>
    BY <1>11 DEF ReadSamples, Ends
  <2>3. c.m \in Meetings /\ state[c.m] = "Completed"
    BY DEF TypeOK, CallsOK
  <2>4. counted.n >= Cardinality(Kept(due[c.m], capped[c.m])) \/ usage[c.m] # None
    <3>1. samples[c.m] \subseteq 1 .. MaxMinutes /\ capped[c.m] \in BOOLEAN
      BY <2>3 DEF TypeOK
    <3>2. CASE usage[c.m] = None
      <4>1. due[c.m] \subseteq samples[c.m]
        BY <2>3, <3>2
      <4>2. Cardinality(Kept(due[c.m], capped[c.m])) <= Cardinality(Kept(samples[c.m], capped[c.m]))
        BY <4>1, <3>1, KeptMonotone
      <4>3. /\ Cardinality(Kept(due[c.m], capped[c.m])) \in Nat
            /\ Cardinality(Kept(samples[c.m], capped[c.m])) \in Nat
        BY <3>1, <4>1, KeptFinite, ConstantsAssumption DEF Minutes
      <4> HIDE DEF counted
      <4> QED
        BY <2>1, <4>2, <4>3
    <3> QED
      BY <3>2
  <2> HIDE DEF counted
  <2> QED
    BY <2>1, <2>2, <2>4
<1>12. ASSUME NEW c \in calls, FreezeUsage(c) PROVE SamplesKept'
  <2>1. \A k \in Meetings : usage'[k] = None => usage[k] = None
    BY <1>12 DEF FreezeUsage, TypeOK
  <2>2. calls' \subseteq calls /\ UNCHANGED <<state, due, samples, capped>>
    BY <1>12 DEF FreezeUsage, Ends
  <2> QED
    BY <2>1, <2>2
<1>13. ASSUME NEW c \in calls, BillingFails(c) PROVE SamplesKept'
  BY <1>13 DEF BillingFails
<1>14. CASE UNCHANGED vars
  BY <1>14 DEF vars
<1> QED
  BY <1>1, <1>2, <1>3, <1>4, <1>5, <1>6, <1>7, <1>8, <1>9, <1>10, <1>11, <1>12,
     <1>13, <1>14 DEF Next

\* The row that is frozen is the first call's count.
LEMMA CoversInductive == IInv /\ [Next]_vars => UsageCoversSamples'
<1> SUFFICES ASSUME IInv, [Next]_vars, NEW k \in Meetings, usage'[k] # None
             PROVE  usage'[k] >= Cardinality(Kept(due'[k], capped'[k]))
  BY DEF UsageCoversSamples
<1> USE DEF IInv, org, meeting, facts, meter, history
<1>1. /\ due[k] \subseteq 1 .. MaxMinutes /\ capped[k] \in BOOLEAN
      /\ Cardinality(Kept(due[k], capped[k])) \in Nat
  BY KeptFinite, ConstantsAssumption DEF TypeOK, Minutes
<1>2. usage[k] # None => usage[k] \in Nat /\ state[k] = "Completed"
  BY ConstantsAssumption DEF TypeOK, FactsOK, Minutes
<1>3. ASSUME NEW m \in Meetings, CapBilling(m)
      PROVE  usage'[k] >= Cardinality(Kept(due'[k], capped'[k]))
  <2>1. capped'[k] \in BOOLEAN /\ (capped[k] => capped'[k]) /\ UNCHANGED <<due, usage>>
    BY <1>3 DEF CapBilling, TypeOK
  <2>2. /\ Cardinality(Kept(due[k], capped'[k])) <= Cardinality(Kept(due[k], capped[k]))
        /\ Cardinality(Kept(due[k], capped'[k])) \in Nat
    BY <1>1, <2>1, KeptMonotone, KeptFinite, ConstantsAssumption DEF Minutes
  <2>3. usage[k] >= Cardinality(Kept(due[k], capped[k]))
    BY <2>1 DEF UsageCoversSamples
  <2> QED
    BY <1>1, <1>2, <2>1, <2>2, <2>3
<1>4. ASSUME NEW m \in Meetings, Complete(m)
      PROVE  usage'[k] >= Cardinality(Kept(due'[k], capped'[k]))
  <2>1. k # m
    BY <1>2, <1>4 DEF Complete
  <2>2. due'[k] = due[k] /\ UNCHANGED <<usage, capped>>
    BY <1>4, <2>1 DEF Complete, TypeOK
  <2> QED
    BY <2>2 DEF UsageCoversSamples
<1>5. ASSUME NEW c \in calls, FreezeUsage(c)
      PROVE  usage'[k] >= Cardinality(Kept(due'[k], capped'[k]))
  <2>1. UNCHANGED <<due, capped>>
    BY <1>5 DEF FreezeUsage
  <2>2. CASE usage[k] # None
    BY <1>5, <2>1, <2>2 DEF FreezeUsage, TypeOK, UsageCoversSamples
  <2>3. CASE usage[k] = None
    <3>1. c.m = k /\ usage'[k] = c.n /\ c.pc = "insert"
      BY <1>5, <2>3 DEF FreezeUsage, TypeOK
    <3> QED
      BY <2>1, <2>3, <3>1 DEF SamplesKept
  <2> QED
    BY <2>2, <2>3
<1>6. CASE UNCHANGED <<due, capped, usage>>
  BY <1>6 DEF UsageCoversSamples
<1>7. \/ UNCHANGED <<due, capped, usage>>
      \/ \E m \in Meetings : CapBilling(m) \/ Complete(m)
      \/ \E c \in calls : FreezeUsage(c)
  BY DEF Next, vars, SetBillingMode, SampleActiveMeetings, Provision, PruneSamples,
         ReconcilePendingBilling, ReconcilePendingMeteredBilling, SampleOneMeeting,
         ConsumeGrantHours, ReadSamples, BillingFails
<1> QED
  BY <1>3, <1>4, <1>5, <1>6, <1>7

\* An event is published after the insert of the fact, or after the return that
\* found it.
LEMMA AnnouncedInductive == IInv /\ [Next]_vars => AnnouncedIsBilled'
<1> SUFFICES ASSUME IInv, [Next]_vars, NEW k \in announced', k \notin switched'
             PROVE  ledger'[k] # None \/ usage'[k] # None
  BY DEF AnnouncedIsBilled
<1> USE DEF IInv, org, meeting, facts, meter, history
<1>1. ASSUME NEW c \in calls, ConsumeGrantHours(c)
      PROVE  ledger'[k] # None \/ usage'[k] # None
  <2>1. /\ c.m \in Meetings /\ state[c.m] = "Completed" /\ c.n # None /\ c.how = "grant"
    BY <1>1, ConstantsAssumption DEF TypeOK, Minutes, CallsOK, ConsumeGrantHours
  <2>2. announced' \subseteq announced \cup {c.m} /\ UNCHANGED <<usage, switched, grantOf>>
    BY <1>1 DEF ConsumeGrantHours, Ends
  <2>3. CASE k = c.m
    <3>1. grantOf[k] # None
      BY <2>1, <2>2, <2>3 DEF ModeKept
    <3> QED
      BY <1>1, <2>1, <2>3, <3>1 DEF ConsumeGrantHours, TypeOK
  <2>4. CASE k # c.m
    <3>1. ledger'[k] = ledger[k] /\ k \in announced
      BY <1>1, <2>2, <2>4 DEF ConsumeGrantHours, TypeOK
    <3> QED
      BY <2>2, <3>1 DEF AnnouncedIsBilled
  <2> QED
    BY <2>3, <2>4
<1>2. ASSUME NEW c \in calls, ReadSamples(c)
      PROVE  ledger'[k] # None \/ usage'[k] # None
  <2>1. c.m \in Meetings /\ c.how = "metered" /\ UNCHANGED <<ledger, usage, switched>>
    BY <1>2 DEF TypeOK, ReadSamples
  <2>2. CASE k \in announced
    BY <2>1, <2>2 DEF AnnouncedIsBilled
  <2>3. CASE k \notin announced
    <3>1. k = c.m /\ mode # "metered"
      BY <1>2, <2>3 DEF ReadSamples, Ends
    <3> QED
      BY <2>1, <3>1 DEF ModeKept
  <2> QED
    BY <2>2, <2>3
<1>3. ASSUME NEW c \in calls, FreezeUsage(c)
      PROVE  ledger'[k] # None \/ usage'[k] # None
  <2>1. c.m \in Meetings /\ c.n # None
    BY ConstantsAssumption DEF TypeOK, Minutes
  <2>2. announced' \subseteq announced \cup {c.m} /\ UNCHANGED <<ledger, switched>>
    BY <1>3 DEF FreezeUsage, Ends
  <2>3. usage'[c.m] # None /\ \A m \in Meetings : usage[m] # None => usage'[m] # None
    BY <1>3, <2>1 DEF FreezeUsage, TypeOK
  <2>4. announced \subseteq Meetings
    BY DEF TypeOK
  <2> QED
    BY <2>2, <2>3, <2>4 DEF AnnouncedIsBilled
<1>4. CASE UNCHANGED <<announced, ledger, usage>> /\ switched \subseteq switched'
  BY <1>4 DEF AnnouncedIsBilled
<1>5. \/ UNCHANGED <<announced, ledger, usage>> /\ switched \subseteq switched'
      \/ \E c \in calls : ConsumeGrantHours(c) \/ ReadSamples(c) \/ FreezeUsage(c)
  BY DEF Next, vars, SetBillingMode, SampleActiveMeetings, Provision, PruneSamples,
         CapBilling, Complete, ReconcilePendingBilling, ReconcilePendingMeteredBilling,
         SampleOneMeeting, BillingFails
<1> QED
  BY <1>1, <1>2, <1>3, <1>4, <1>5

LEMMA InitialInvariant == Init => IInv
<1> SUFFICES ASSUME Init PROVE IInv
  OBVIOUS
<1>1. TypeOK
  BY TypeInitial
<1>2. CallsOK /\ FactsOK /\ ModeKept /\ SamplesKept /\ UsageCoversSamples /\ AnnouncedIsBilled
  BY DEF Init, CallsOK, FactsOK, ModeKept, SamplesKept, UsageCoversSamples, AnnouncedIsBilled
<1> QED
  BY <1>1, <1>2 DEF IInv

LEMMA Inductive == IInv /\ [Next]_vars => IInv'
BY TypeInductive, CallsInductive, FactsInductive, ModeInductive, SamplesInductive,
   CoversInductive, AnnouncedInductive DEF IInv

LEMMA Invariant == FairSpec => []IInv
BY InitialInvariant, Inductive, PTL DEF FairSpec, Spec
-----------------------------------------------------------------------------
\* Every meeting, sample, grant and billing call is well typed, whatever calls
\* overlap, fail or die.
THEOREM TypeCorrect == FairSpec => []TypeOK
BY TypeInitial, TypeInductive, PTL DEF FairSpec, Spec

\* The frozen usage of a meeting counts every sample there was at its completion
\* (billMeteredMeeting, pruneSamples).
THEOREM UsageCorrect == FairSpec => []UsageCoversSamples
<1>1. IInv => UsageCoversSamples
  BY DEF IInv
<1> QED
  BY <1>1, Invariant, PTL

\* No meeting is billed in both ways, as long as the billing mode is not changed
\* under it (consumeGrantHours, billMeteredMeeting and their recovery passes).
THEOREM OneWayCorrect == FairSpec => []BilledInOneWay
<1>1. IInv => BilledInOneWay
  BY DEF IInv, TypeOK, FactsOK, ModeKept, BilledInOneWay
<1> QED
  BY <1>1, Invariant, PTL

\* No MeetingCompletedEvent comes before the billing fact of its meeting, under
\* the same condition.
THEOREM EventsCorrect == FairSpec => []AnnouncedIsBilled
<1>1. IInv => AnnouncedIsBilled
  BY DEF IInv
<1> QED
  BY <1>1, Invariant, PTL

\* Whatever overlapping calls count, and whatever is sampled or pruned later, a
\* frozen usage row stays as it is.
THEOREM FrozenCorrect == FairSpec => UsageIsFrozen
<1>1. ASSUME TypeOK, [Next]_vars, NEW m \in Meetings, usage[m] # None
      PROVE  usage'[m] = usage[m]
  <2>1. CASE UNCHANGED usage
    BY <2>1
  <2>2. ASSUME NEW c \in calls, FreezeUsage(c) PROVE usage'[m] = usage[m]
    BY <1>1, <2>2 DEF FreezeUsage, TypeOK
  <2>3. UNCHANGED usage \/ \E c \in calls : FreezeUsage(c)
    BY <1>1 DEF Next, vars, facts, SetBillingMode, SampleActiveMeetings, Provision,
         PruneSamples, CapBilling, Complete, ReconcilePendingBilling,
         ReconcilePendingMeteredBilling, SampleOneMeeting, ConsumeGrantHours,
         ReadSamples, BillingFails
  <2> QED
    BY <2>1, <2>2, <2>3
<1>2. TypeOK /\ [Next]_vars => [\A m \in Meetings : usage[m] # None => usage'[m] = usage[m]]_vars
  BY <1>1
<1> QED
  BY <1>2, TypeCorrect, PTL DEF FairSpec, Spec, UsageIsFrozen

-----------------------------------------------------------------------------
(***************************************************************************)
(* What a grant has consumed.  A sum over the rows of a ledger is a        *)
(* function of the set of rows that loses L[m] with each m, in any order:  *)
(* the invariant carries such a function along, and a row that is added    *)
(* extends it.                                                             *)
(***************************************************************************)
Sums(G, L, T) ==
  /\ G \in [SUBSET T -> Int] /\ G[{}] = 0
  /\ \A s \in SUBSET T : \A m \in s : L[m] \in Int /\ G[s] = L[m] + G[s \ {m}]

\* One unfolding of MapThenFoldSet.
Rest(f, L, T) ==
  [s \in SUBSET T |-> IF s = {} THEN 0
                      ELSE L[CHOOSE x \in s : TRUE] + f[s \ {CHOOSE x \in s : TRUE}]]

\* The sum of the model is any function that sums, whichever element it takes
\* first: a smallest set on which they differ would lose one.
LEMMA SumIs ==
  ASSUME NEW L, NEW T, IsFiniteSet(T), NEW G, Sums(G, L, T)
  PROVE  MapThenSumSet(LAMBDA m : L[m], T) = G[T]
<1> DEFINE f == CHOOSE h : h = Rest(h, L, T)
<1>1. G = Rest(G, L, T)
  <2>1. ASSUME NEW s \in SUBSET T, s # {}
        PROVE  G[s] = L[CHOOSE x \in s : TRUE] + G[s \ {CHOOSE x \in s : TRUE}]
    BY <2>1 DEF Sums
  <2>2. \A s \in SUBSET T : G[s] = Rest(G, L, T)[s]
    BY <2>1 DEF Sums, Rest
  <2>3. G \in [SUBSET T -> Int] /\ DOMAIN Rest(G, L, T) = SUBSET T
    BY DEF Sums, Rest
  <2> QED
    BY <2>2, <2>3 DEF Rest
<1>2. f = Rest(f, L, T)
  BY <1>1
<1> HIDE DEF f
<1> DEFINE sizes == {Cardinality(s) : s \in {q \in SUBSET T : f[q] # G[q]}}
           less  == {ss \in Nat \X Nat : ss[1] < ss[2]}
<1>3. \A s \in SUBSET T : IsFiniteSet(s) /\ Cardinality(s) \in Nat
  BY FS_Subset, FS_CardinalityType
<1>4. sizes = {}
  <2> SUFFICES ASSUME sizes # {} PROVE FALSE
    OBVIOUS
  <2>1. sizes \subseteq Nat
    BY <1>3
  <2>2. IsWellFoundedOn(less, Nat)
    BY NatLessThanWellFounded DEF OpToRel
  <2>3. PICK c \in sizes : \A d \in sizes : <<d, c>> \notin less
    <3> HIDE DEF less, sizes
    <3> QED
      BY <2>1, <2>2, WFMin
  <2>4. PICK s \in SUBSET T : f[s] # G[s] /\ c = Cardinality(s)
    BY <2>3
  <2>5. CASE s = {}
    <3>1. f[s] = 0
      BY <1>2, <2>5 DEF Rest
    <3> QED
      BY <2>4, <2>5, <3>1 DEF Sums
  <2>6. CASE s # {}
    <3>1. PICK x : x = CHOOSE y \in s : TRUE
      OBVIOUS
    <3>2. x \in s
      BY <2>6, <3>1
    <3>3. f[s] = L[x] + f[s \ {x}]
      BY <1>2, <2>6, <3>1 DEF Rest
    <3>4. G[s] = L[x] + G[s \ {x}]
      BY <3>2 DEF Sums
    <3>5. Cardinality(s \ {x}) = c - 1 /\ c \in Nat /\ Cardinality(s \ {x}) \in Nat
      BY <1>3, <2>4, <3>2, FS_RemoveElement
    <3>6. f[s \ {x}] # G[s \ {x}]
      BY <2>4, <3>3, <3>4
    <3>7. Cardinality(s \ {x}) \in sizes
      BY <3>6
    <3>8. PICK d \in sizes : d = Cardinality(s \ {x})
      BY <3>7
    <3>9. <<d, c>> \in less
      BY <3>5, <3>8
    <3> QED
      BY <2>3, <3>9
  <2> QED
    BY <2>5, <2>6
<1>5. f[T] = G[T]
  BY <1>4
<1> QED
  BY <1>5 DEF f, Rest, MapThenSumSet, MapThenFoldSet

\* Rows that are not summed may change.
LEMMA SumsAgree ==
  ASSUME NEW G, NEW L, NEW M, NEW T, Sums(G, L, T), \A m \in T : M[m] = L[m]
  PROVE  Sums(G, M, T)
BY DEF Sums

\* A row more.
LEMMA SumsAdd ==
  ASSUME NEW G, NEW L, NEW T, Sums(G, L, T), NEW m, m \notin T, L[m] \in Int
  PROVE  \E H : Sums(H, L, T \cup {m}) /\ H[T \cup {m}] = G[T] + L[m]
<1> DEFINE U == T \cup {m}
           H == [s \in SUBSET U |-> IF m \in s THEN L[m] + G[s \ {m}] ELSE G[s]]
<1>1. \A s \in SUBSET U : (m \in s => s \ {m} \in SUBSET T) /\ (m \notin s => s \in SUBSET T)
  OBVIOUS
<1>2. H \in [SUBSET U -> Int] /\ H[{}] = 0
  BY <1>1 DEF Sums
<1>3. ASSUME NEW s \in SUBSET U, NEW x \in s PROVE L[x] \in Int /\ H[s] = L[x] + H[s \ {x}]
  <2>1. s \ {x} \in SUBSET U /\ s \ {m} \in SUBSET T
    OBVIOUS
  <2>2. CASE x = m
    <3>1. H[s] = L[m] + G[s \ {m}] /\ H[s \ {m}] = G[s \ {m}]
      BY <2>1, <2>2
    <3> QED
      BY <2>2, <3>1
  <2>3. CASE x # m /\ m \in s
    <3>1. x \in s \ {m} /\ (s \ {x}) \ {m} = (s \ {m}) \ {x} /\ m \in s \ {x}
      BY <2>3
    <3>2. H[s] = L[m] + G[s \ {m}] /\ H[s \ {x}] = L[m] + G[(s \ {m}) \ {x}]
      BY <2>1, <2>3, <3>1
    <3>3. L[x] \in Int /\ G[s \ {m}] = L[x] + G[(s \ {m}) \ {x}]
      BY <2>1, <3>1 DEF Sums
    <3>4. G[(s \ {m}) \ {x}] \in Int
      BY <2>1 DEF Sums
    <3> QED
      BY <3>2, <3>3, <3>4
  <2>4. CASE m \notin s
    <3>1. H[s] = G[s] /\ H[s \ {x}] = G[s \ {x}] /\ s \in SUBSET T
      BY <1>1, <2>1, <2>4
    <3> QED
      BY <3>1 DEF Sums
  <2> QED
    BY <2>2, <2>3, <2>4
<1>4. Sums(H, L, U)
  BY <1>2, <1>3 DEF Sums
<1>5. H[U] = G[T] + L[m]
  <2>1. U \ {m} = T /\ m \in U /\ U \in SUBSET U
    OBVIOUS
  <2>2. H[U] = L[m] + G[T]
    BY <2>1
  <2>3. G[T] \in Int
    BY DEF Sums
  <2> QED
    BY <2>2, <2>3
<1> HIDE DEF H
<1> QED
  BY <1>4, <1>5

\* The books of a grant.
Balanced(g) ==
  /\ IsFiniteSet(Billed(g))
  /\ \E G : /\ Sums(G, ledger, Billed(g))
            /\ grant[g].consumed = earlier[g] + G[Billed(g)]
  /\ grant[g].exhausted <=> grant[g].consumed >= GrantedMinutes

LEMMA BalancedInit == Init => \A g \in Grants : Balanced(g)
<1> SUFFICES ASSUME Init, NEW g \in Grants PROVE Balanced(g)
  OBVIOUS
<1>1. Billed(g) = {}
  BY DEF Init, Billed
<1>2. PICK G : G = [s \in SUBSET {} |-> 0]
  OBVIOUS
<1>3. Sums(G, ledger, Billed(g)) /\ G[Billed(g)] = 0
  BY <1>1, <1>2 DEF Sums
<1>4. /\ grant[g].consumed = earlier[g]
      /\ grant[g].exhausted <=> earlier[g] = GrantedMinutes
      /\ earlier[g] \in 0 .. GrantedMinutes
  BY DEF Init
<1>5. grant[g].consumed = earlier[g] + G[Billed(g)]
  BY <1>3, <1>4
<1>6. grant[g].exhausted <=> grant[g].consumed >= GrantedMinutes
  BY <1>4, ConstantsAssumption
<1> QED
  BY <1>1, <1>3, <1>5, <1>6, FS_EmptySet DEF Balanced

LEMMA BalancedSame ==
  ASSUME NEW g \in Grants, Balanced(g), Billed(g)' = Billed(g),
         \A m \in Billed(g) : ledger'[m] = ledger[m],
         grant'[g] = grant[g], UNCHANGED earlier
  PROVE  Balanced(g)'
<1>1. PICK G : Sums(G, ledger, Billed(g)) /\ grant[g].consumed = earlier[g] + G[Billed(g)]
  BY DEF Balanced
<1>2. Sums(G, ledger', Billed(g)')
  BY <1>1, SumsAgree
<1> QED
  BY <1>1, <1>2 DEF Balanced

\* A call that bills adds one row, with its minutes, to one grant.
LEMMA BalancedBilled ==
  ASSUME IInv, NEW c \in calls, ConsumeGrantHours(c), NEW g \in Grants, Balanced(g)
  PROVE  Balanced(g)'
<1> DEFINE m == c.m
           h == grantOf[c.m]
<1>0. /\ m \in Meetings /\ c.n \in Nat /\ None \notin Grants /\ c.n # None
      /\ ledger \in [Meetings -> Minutes \cup {None}]
      /\ grant \in [Grants -> [consumed : Nat, exhausted : BOOLEAN]]
      /\ earlier[g] \in Nat
  BY ConstantsAssumption DEF IInv, TypeOK, Minutes
<1>1. UNCHANGED <<earlier, grantOf>>
  BY DEF ConsumeGrantHours, history, meeting
<1>2. CASE UNCHANGED <<ledger, grant>>
  BY <1>1, <1>2, BalancedSame DEF Billed
<1>3. CASE /\ h # None /\ ledger[m] = None /\ ledger' = [ledger EXCEPT ![m] = c.n]
           /\ IF c.n = 0 THEN UNCHANGED grant ELSE Charge(h, c.n)
  <2>1. m \notin Billed(g)
    BY <1>3 DEF Billed
  <2>2. \A n \in Billed(g) : ledger'[n] = ledger[n]
    BY <1>0, <1>3, <2>1 DEF Billed
  <2>3. CASE h # g
    <3>1. Billed(g)' = Billed(g)
      BY <1>0, <1>1, <1>3, <2>3 DEF Billed
    <3>2. grant'[g] = grant[g]
      BY <1>0, <1>3, <2>3 DEF Charge
    <3> QED
      BY <1>1, <2>2, <3>1, <3>2, BalancedSame
  <2>4. CASE h = g
    <3>1. Billed(g)' = Billed(g) \cup {m} /\ ledger'[m] = c.n
      BY <1>0, <1>1, <1>3, <2>4 DEF Billed
    <3>2. PICK G : Sums(G, ledger, Billed(g)) /\ grant[g].consumed = earlier[g] + G[Billed(g)]
      BY DEF Balanced
    <3>L. PICK L : L = ledger'
      OBVIOUS
    <3>3. Sums(G, L, Billed(g))
      BY <2>2, <3>2, <3>L, SumsAgree
    <3>i. G[Billed(g)] \in Int
      BY <3>2 DEF Sums
    <3>4. PICK H : /\ Sums(H, L, Billed(g) \cup {m})
                   /\ H[Billed(g) \cup {m}] = G[Billed(g)] + L[m]
      <4>1. L[m] \in Int
        BY <1>0, <3>1, <3>L
      <4> QED
        BY <2>1, <3>3, <4>1, SumsAdd
    <3>5. grant'[g].consumed = grant[g].consumed + c.n
          /\ (grant'[g].exhausted <=> grant'[g].consumed >= GrantedMinutes)
      <4>1. grant[g].consumed \in Nat /\ (grant[g].exhausted <=> grant[g].consumed >= GrantedMinutes)
        BY <1>0 DEF Balanced
      <4>2. CASE c.n = 0
        BY <1>3, <4>1, <4>2
      <4>3. CASE c.n # 0
        <5>1. PICK n \in Nat : n = grant[g].consumed + c.n
          BY <1>0, <4>1
        <5>2. PICK b : b = (n >= GrantedMinutes)
          BY Zenon
        <5>3. grant'[g] = [consumed |-> n, exhausted |-> b]
          <6>1. grant' = [grant EXCEPT ![g] = [consumed  |-> @.consumed + c.n,
                                               exhausted |-> @.consumed + c.n >= GrantedMinutes]]
            BY <1>3, <2>4, <4>3 DEF Charge
          <6>2. grant'[g] = [consumed  |-> grant[g].consumed + c.n,
                             exhausted |-> grant[g].consumed + c.n >= GrantedMinutes]
            BY <1>0, <6>1
          <6> QED
            BY <5>1, <5>2, <6>2
        <5>4. grant'[g].consumed = n /\ grant'[g].exhausted = b
          BY <5>3
        <5> QED
          BY <5>1, <5>2, <5>4, Zenon
      <4> QED
        BY <4>2, <4>3
    <3>6. grant'[g].consumed = earlier'[g] + H[Billed(g)']
      BY <1>0, <1>1, <3>1, <3>2, <3>L, <3>i, <3>4, <3>5
    <3>7. IsFiniteSet(Billed(g)')
      BY <3>1, FS_AddElement DEF Balanced
    <3> QED
      BY <3>1, <3>L, <3>4, <3>5, <3>6, <3>7 DEF Balanced
  <2> QED
    BY <2>3, <2>4
<1> QED
  BY <1>2, <1>3 DEF ConsumeGrantHours

LEMMA BalancedInductive ==
  ASSUME IInv, [Next]_vars, NEW g \in Grants, Balanced(g)
  PROVE  Balanced(g)'
<1>1. CASE UNCHANGED <<ledger, grant, grantOf, earlier>>
  BY <1>1, BalancedSame DEF Billed
<1>2. ASSUME NEW m \in Meetings, Provision(m) PROVE Balanced(g)'
  <2>1. ledger[m] = None /\ UNCHANGED <<ledger, grant, earlier>>
    BY <1>2 DEF Provision, IInv, FactsOK, facts, history
  <2>2. \A n \in Meetings \ {m} : grantOf'[n] = grantOf[n]
    BY <1>2 DEF Provision, IInv, TypeOK
  <2>3. Billed(g)' = Billed(g)
    BY <2>1, <2>2 DEF Billed
  <2> QED
    BY <2>1, <2>3, BalancedSame
<1>3. ASSUME NEW c \in calls, ConsumeGrantHours(c) PROVE Balanced(g)'
  BY <1>3, BalancedBilled
<1>4. \/ UNCHANGED <<ledger, grant, grantOf, earlier>>
      \/ \E m \in Meetings : Provision(m)
      \/ \E c \in calls : ConsumeGrantHours(c)
  BY DEF Next, vars, facts, meeting, history, SetBillingMode, SampleActiveMeetings,
         PruneSamples, CapBilling, Complete, ReconcilePendingBilling,
         ReconcilePendingMeteredBilling, SampleOneMeeting, ReadSamples, FreezeUsage, BillingFails
<1> QED
  BY <1>1, <1>2, <1>3, <1>4

\* Completions, recoveries and deaths in whatever order: a grant has consumed what
\* the ledger rows on it say, however many meetings there are, and is exhausted
\* exactly when that reaches what was granted (consumeGrantHours).
THEOREM GrantCorrect == FairSpec => []GrantConserved
<1> DEFINE Books == \A g \in Grants : Balanced(g)
<1>1. Init => Books
  BY BalancedInit
<1>2. IInv /\ Books /\ [Next]_vars => Books'
  BY BalancedInductive
<1>3. Books => GrantConserved
  <2> SUFFICES ASSUME NEW g \in Grants, Balanced(g)
               PROVE  /\ grant[g].consumed =
                           earlier[g] + MapThenSumSet(LAMBDA m : ledger[m], Billed(g))
                      /\ grant[g].exhausted <=> grant[g].consumed >= GrantedMinutes
    BY DEF GrantConserved
  <2>1. PICK G : Sums(G, ledger, Billed(g)) /\ grant[g].consumed = earlier[g] + G[Billed(g)]
    BY DEF Balanced
  <2>2. MapThenSumSet(LAMBDA m : ledger[m], Billed(g)) = G[Billed(g)]
    BY <2>1, SumIs DEF Balanced
  <2> QED
    BY <2>1, <2>2 DEF Balanced
<1> HIDE DEF Books
<1> QED
  BY <1>1, <1>2, <1>3, Invariant, PTL DEF FairSpec, Spec
=============================================================================
