-------------------------- MODULE MeetingBilling --------------------------
(***************************************************************************)
(* What a completed meeting costs: the usage ledger and capacity grants of *)
(* organizations billed by grant, the per-minute samples and the frozen    *)
(* usage rows of organizations billed by learner-hour, and the two         *)
(* recovery passes that replay billing that failed.                        *)
(*                                                                         *)
(* A billing call is what follows a completion or a recovery read, up to   *)
(* its MeetingCompletedEvent; it may throw or die at any point, and calls  *)
(* for the same meeting overlap.  Minutes are counted, not timed.          *)
(***************************************************************************)
EXTENDS Integers, FiniteSetsExt

CONSTANTS
  Meetings,
  Grants,          \* tenant-selectable capacity grants of the organization
  GrantedMinutes,  \* grantedMinutes of each of them
  MaxMinutes,      \* bound: minutes that pass
  Durations,       \* minutes a meeting may last; 0: under the fair-billing threshold
  CeilingMinutes,  \* maxMeetingDurationMs: what a capped meeting pays at most
  MaxSwitches,     \* bound: setBbbOrganizationBilling calls that change the mode
  None

ASSUME ConstantsAssumption ==
  /\ GrantedMinutes \in Nat \ {0} /\ MaxMinutes \in Nat
  /\ Durations \subseteq 0 .. MaxMinutes
  /\ CeilingMinutes \in Nat /\ MaxSwitches \in Nat
  /\ None \notin Meetings \cup Grants \cup (0 .. MaxMinutes)

VARIABLES
  mode,       \* BbbOrganization.billingMode
  changes,    \* times the mode was changed
  state,      \* state of each meeting row
  grantOf,    \* grantId of each meeting, fixed when it is provisioned
  lasted,     \* minutes from provisionedAt to completedAt
  capped,     \* billingCapped of each meeting
  ledger,     \* minutes of the meeting's usage-ledger row
  grant,      \* consumedMinutes and exhausted of each grant
  now,        \* the current minute
  probing,    \* samples whose BBB call is out: meeting and minute
  samples,    \* minutes for which the meeting has a sample (of one learner)
  usage,      \* learnerMinutes of the meeting's frozen usage row
  calls,      \* billing calls in flight
  announced,  \* meetings with a MeetingCompletedEvent
  earlier,    \* minutes of each grant consumed by meetings before these
  due,        \* history: the samples there were at the completion
  switched    \* history: meetings provisioned before a change of the mode

meeting == <<state, grantOf, lasted, capped>>
facts   == <<ledger, grant, usage>>
meter   == <<now, probing, samples>>
org     == <<mode, changes>>
history == <<earlier, due, switched>>
vars == <<org, meeting, facts, meter, calls, announced, history>>

Minutes == 0 .. MaxMinutes
Capped(n) == IF n > CeilingMinutes THEN CeilingMinutes ELSE n
\* the task does not run twice at once
Recovering(m, how) == \E c \in calls : c.m = m /\ c.kind = "recovery" /\ c.how = how
Call(m, kind, how, n) == [m |-> m, kind |-> kind, how |-> how, pc |-> "start", n |-> n]
\* Math.min applies to capped meetings only
Owed(m, n) == IF capped[m] THEN Capped(n) ELSE n
\* applyDurationCap keeps a capped meeting's samples below the ceiling
Kept(S, cap) == {b \in S : cap => b <= CeilingMinutes}

Init ==
  /\ mode \in {"grant", "metered"} /\ changes = 0
  /\ state = [m \in Meetings |-> "New"]
  /\ grantOf = [m \in Meetings |-> None]
  /\ lasted = [m \in Meetings |-> 0]
  /\ capped = [m \in Meetings |-> FALSE]
  /\ ledger = [m \in Meetings |-> None]
  /\ earlier \in [Grants -> 0 .. GrantedMinutes]
  /\ grant = [g \in Grants |-> [consumed  |-> earlier[g],
                                exhausted |-> earlier[g] = GrantedMinutes]]
  /\ now = 0 /\ probing = {}
  /\ samples = [m \in Meetings |-> {}]
  /\ usage = [m \in Meetings |-> None]
  /\ calls = {} /\ announced = {}
  /\ due = [m \in Meetings |-> {}] /\ switched = {}

\* setBbbOrganizationBilling: unconditional, whatever runs or is unbilled
SetBillingMode ==
  /\ changes < MaxSwitches
  /\ changes' = changes + 1
  /\ mode' = IF mode = "grant" THEN "metered" ELSE "grant"
  /\ switched' = switched \cup {m \in Meetings : state[m] # "New"}
  /\ UNCHANGED <<meeting, facts, meter, calls, announced, earlier, due>>

\* the worker picks a grant that is not exhausted, or none for a metered org
Provision(m) ==
  /\ state[m] = "New"
  /\ state' = [state EXCEPT ![m] = "Active"]
  /\ \E g \in Grants \cup {None} :
       /\ IF mode = "metered" THEN g = None
                              ELSE g # None /\ ~grant[g].exhausted
       /\ grantOf' = [grantOf EXCEPT ![m] = g]
  /\ UNCHANGED <<lasted, capped, org, facts, meter, calls, announced, history>>

\* reconcileActiveMeetings marks a meeting past the ceiling, of the rows it
\* read as Active; the completion is a step of its own
CapBilling(m) ==
  /\ state[m] \in {"Active", "Completed"} /\ ~capped[m]
  /\ capped' = [capped EXCEPT ![m] = TRUE]
  /\ UNCHANGED <<state, grantOf, lasted, org, facts, meter, calls, announced, history>>

\* completeMeetingLifecycle, up to the start of the billing its mode asks for
Complete(m) ==
  /\ state[m] = "Active"
  /\ state' = [state EXCEPT ![m] = "Completed"]
  /\ \E n \in Durations :
       /\ lasted' = [lasted EXCEPT ![m] = n]
       /\ calls' = calls \cup {Call(m, "completion", mode, Owed(m, n))}
  /\ due' = [due EXCEPT ![m] = samples[m]]
  /\ UNCHANGED <<grantOf, capped, org, facts, meter, announced, earlier, switched>>

(***************************************************************************)
(* Billing calls.                                                          *)
(***************************************************************************)
\* the call is over: its MeetingCompletedEvent is published, or lost with the
\* process
Ends(c) == /\ calls' = calls \ {c}
           /\ announced' \in {announced, announced \cup {c.m}}
Charge(g, n) ==
  grant' = [grant EXCEPT ![g] =
              [consumed  |-> @.consumed + n,
               exhausted |-> @.consumed + n >= GrantedMinutes]]

\* mutant: the grant is charged even when the ledger row is already there
ConsumeGrantHours_Twice(c) ==
  LET g == grantOf[c.m] IN
  /\ c \in calls /\ c.how = "grant" /\ c.pc = "start"
  /\ Ends(c)
  /\ IF g # None
     THEN /\ ledger' = [ledger EXCEPT ![c.m] = c.n]
          /\ IF c.n = 0 THEN UNCHANGED grant ELSE Charge(g, c.n)
     ELSE UNCHANGED <<ledger, grant>>
  /\ UNCHANGED <<org, meeting, usage, meter, history>>

\* consumeGrantHours: INSERT ... ON CONFLICT DO NOTHING and the update of the
\* grant in one transaction; no grant, or a row already there, is a return
ConsumeGrantHours(c) ==
  LET g == grantOf[c.m] IN
  /\ c \in calls /\ c.how = "grant" /\ c.pc = "start"
  /\ Ends(c)
  /\ IF g # None /\ ledger[c.m] = None
     THEN /\ ledger' = [ledger EXCEPT ![c.m] = c.n]
          /\ IF c.n = 0 THEN UNCHANGED grant ELSE Charge(g, c.n)
     ELSE UNCHANGED <<ledger, grant>>
  /\ UNCHANGED <<org, meeting, usage, meter, history>>

\* billMeteredMeeting reads the row and the samples; the organization is read
\* again, and one that is billed by grant by now is a return of null
ReadSamples(c) ==
  /\ c \in calls /\ c.how = "metered" /\ c.pc = "start"
  /\ IF mode = "metered"
     THEN /\ calls' = (calls \ {c}) \cup
                {[c EXCEPT !.pc = "insert",
                           !.n = Cardinality(Kept(samples[c.m], capped[c.m]))]}
          /\ UNCHANGED announced
     ELSE IF c.kind = "completion" THEN Ends(c)
                                   ELSE calls' = calls \ {c} /\ UNCHANGED announced
  /\ UNCHANGED <<org, meeting, facts, meter, history>>

\* ... INSERT ... ON CONFLICT ("meetingId") DO NOTHING
FreezeUsage(c) ==
  /\ c \in calls /\ c.pc = "insert"
  /\ Ends(c)
  /\ usage' = [usage EXCEPT ![c.m] = IF @ = None THEN c.n ELSE @]
  /\ UNCHANGED <<org, meeting, ledger, grant, meter, history>>

\* mutant: the event is published in a finally block
BillingFails_Finally(c) ==
  /\ c \in calls
  /\ calls' = calls \ {c}
  /\ announced' = announced \cup {c.m}
  /\ UNCHANGED <<org, meeting, facts, meter, history>>

\* the call throws or its process dies
BillingFails(c) ==
  /\ c \in calls
  /\ calls' = calls \ {c}
  /\ UNCHANGED <<org, meeting, facts, meter, announced, history>>

\* mutant: the scan looks for rows that were announced
ReconcilePendingBilling_Announced(m) ==
  /\ state[m] = "Completed" /\ ledger[m] = None /\ grantOf[m] # None
  /\ ~Recovering(m, "grant")
  /\ m \in announced
  /\ calls' = calls \cup {Call(m, "recovery", "grant", Owed(m, lasted[m]))}
  /\ UNCHANGED <<org, meeting, facts, meter, announced, history>>

\* reconcilePendingBilling: the mode of the organization is not asked for
ReconcilePendingBilling(m) ==
  /\ state[m] = "Completed" /\ ledger[m] = None /\ grantOf[m] # None
  /\ ~Recovering(m, "grant")
  /\ calls' = calls \cup {Call(m, "recovery", "grant", Owed(m, lasted[m]))}
  /\ UNCHANGED <<org, meeting, facts, meter, announced, history>>

\* mutant: the scan does not ask for the organization's mode either
ReconcilePendingMeteredBilling_AnyMode(m) ==
  /\ state[m] = "Completed" /\ usage[m] = None
  /\ calls' = calls \cup {[Call(m, "recovery", "metered", 0) EXCEPT !.pc = "insert"]}
  /\ UNCHANGED <<org, meeting, facts, meter, announced, history>>

\* findUnbilledCompletedMeetings, reconcilePendingMeteredBilling
ReconcilePendingMeteredBilling(m) ==
  /\ state[m] = "Completed" /\ mode = "metered" /\ usage[m] = None
  /\ ~Recovering(m, "metered")
  /\ calls' = calls \cup {Call(m, "recovery", "metered", 0)}
  /\ UNCHANGED <<org, meeting, facts, meter, announced, history>>

(***************************************************************************)
(* Sampling.                                                               *)
(***************************************************************************)
\* the tick reads the Active meetings of metered organizations, if it runs
SampleActiveMeetings ==
  /\ now < MaxMinutes
  /\ now' = now + 1
  /\ \/ /\ mode = "metered"
        /\ probing' = probing \cup ({m \in Meetings : state[m] = "Active"} \X {now + 1})
     \/ UNCHANGED probing
  /\ UNCHANGED <<org, meeting, facts, samples, calls, announced, history>>

\* BBB answered: the row is inserted, whatever the meeting is by now; or a gap
SampleOneMeeting(m, b) ==
  /\ <<m, b>> \in probing
  /\ probing' = probing \ {<<m, b>>}
  /\ samples' \in {samples, [samples EXCEPT ![m] = @ \cup {b}]}
  /\ UNCHANGED <<org, meeting, facts, now, calls, announced, history>>

\* mutant: samples of any meeting that is over are pruned
PruneSamples_Unbilled(m) ==
  /\ state[m] = "Completed"
  /\ samples[m] # {}
  /\ samples' = [samples EXCEPT ![m] = {}]
  /\ UNCHANGED <<org, meeting, facts, now, probing, calls, announced, history>>

\* pruneSamples: old samples of meetings whose usage row is frozen
PruneSamples(m) ==
  /\ state[m] = "Completed" /\ usage[m] # None
  /\ samples[m] # {}
  /\ samples' = [samples EXCEPT ![m] = {}]
  /\ UNCHANGED <<org, meeting, facts, now, probing, calls, announced, history>>
-----------------------------------------------------------------------------
Next ==
  \/ SetBillingMode
  \/ SampleActiveMeetings
  \/ \E m \in Meetings : \/ Provision(m)
                         \/ CapBilling(m)
                         \/ Complete(m)
                         \/ PruneSamples(m)
                         \/ ReconcilePendingBilling(m)
                         \/ ReconcilePendingMeteredBilling(m)
  \/ \E p \in probing : SampleOneMeeting(p[1], p[2])
  \/ \E c \in calls : \/ ConsumeGrantHours(c)
                      \/ ReadSamples(c)
                      \/ FreezeUsage(c)
                      \/ BillingFails(c)

\* the passes run every 5 minutes, and their calls do not fail for ever
Recovery(m, how) == [m : {m}, kind : {"recovery"}, how : {how},
                     pc : {"start", "insert"}, n : Minutes]
Fairness ==
  \A m \in Meetings :
    /\ WF_vars(ReconcilePendingBilling(m))
    /\ WF_vars(ReconcilePendingMeteredBilling(m))
    /\ SF_vars(\E c \in Recovery(m, "grant") : ConsumeGrantHours(c))
    /\ SF_vars(\E c \in Recovery(m, "metered") : ReadSamples(c))
    /\ SF_vars(\E c \in Recovery(m, "metered") : FreezeUsage(c))

Spec == Init /\ [][Next]_vars
FairSpec == Spec /\ Fairness
-----------------------------------------------------------------------------
\* The type invariant.
TypeOK ==
  /\ mode \in {"grant", "metered"} /\ changes \in 0 .. MaxSwitches
  /\ state \in [Meetings -> {"New", "Active", "Completed"}]
  /\ grantOf \in [Meetings -> Grants \cup {None}]
  /\ lasted \in [Meetings -> Minutes] /\ capped \in [Meetings -> BOOLEAN]
  /\ ledger \in [Meetings -> Minutes \cup {None}]
  /\ grant \in [Grants -> [consumed : Nat, exhausted : BOOLEAN]]
  /\ now \in Minutes /\ probing \subseteq Meetings \X (1 .. MaxMinutes)
  /\ samples \in [Meetings -> SUBSET (1 .. MaxMinutes)]
  /\ usage \in [Meetings -> Minutes \cup {None}]
  /\ \A c \in calls :
       c \in [m : Meetings, kind : {"completion", "recovery"},
              how : {"grant", "metered"},
              pc : {"start", "insert"}, n : Minutes]
  /\ announced \subseteq Meetings
  /\ earlier \in [Grants -> 0 .. GrantedMinutes]
  /\ due \in [Meetings -> SUBSET (1 .. MaxMinutes)] /\ switched \subseteq Meetings

\* A grant has consumed exactly what the ledger rows on it say, and is exhausted
\* exactly when that reaches what was granted, though completions and recoveries
\* of the same meeting overlap and die (consumeGrantHours, INV-002).
Billed(g) == {m \in Meetings : grantOf[m] = g /\ ledger[m] # None}
GrantConserved ==
  \A g \in Grants :
    /\ grant[g].consumed = earlier[g] + MapThenSumSet(LAMBDA m : ledger[m], Billed(g))
    /\ grant[g].exhausted <=> grant[g].consumed >= GrantedMinutes

\* The frozen usage of a meeting counts every sample that was there when it
\* completed, however late it is billed: none was pruned or missed
\* (billMeteredMeeting, pruneSamples, INV-028).
UsageCoversSamples ==
  \A m \in Meetings :
    usage[m] # None => usage[m] >= Cardinality(Kept(due[m], capped[m]))

\* A frozen row is never changed.
UsageIsFrozen ==
  [][\A m \in Meetings : usage[m] # None => usage'[m] = usage[m]]_vars

\* Outside changes of the billing mode, no meeting is billed in both ways ...
BilledInOneWay ==
  \A m \in Meetings \ switched : ledger[m] = None \/ usage[m] = None

\* ... its MeetingCompletedEvent comes after its billing fact ...
AnnouncedIsBilled ==
  \A m \in announced \ switched : ledger[m] # None \/ usage[m] # None

\* ... and it gets one, though completions die and billing fails.
CompletedGetsFact ==
  \A m \in Meetings :
    state[m] = "Completed" /\ m \notin switched
      ~> ledger[m] # None \/ usage[m] # None \/ m \in switched
=============================================================================
