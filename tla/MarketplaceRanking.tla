-------------------------- MODULE MarketplaceRanking --------------------------
(***************************************************************************)
(* The public listing of sessions in Elasticsearch and the rating baseline *)
(* it is ranked by.  Index jobs bring one document in line with its        *)
(* session; a baseline refresh writes a new {mean, version} to the         *)
(* Settings Store, one value at a time, and orders a reindex of all        *)
(* documents.  Both queues retry, and run as many jobs at once as their    *)
(* concurrency allows.                                                     *)
(***************************************************************************)
EXTENDS Integers, FiniteSets, Bags

CONSTANTS
  Listings,      \* bound: sessions
  Generations,   \* bound: scheduled refreshes, each with its randomUUID
  Indexers,      \* concurrency of the index queue
  MaxQueued,     \* bound: equal index jobs that wait at one time
  MaxFailures,   \* bound: failures and deaths of workers
  Nobody

ASSUME RankingAssumption == Nobody \notin Listings \cup Generations

VARIABLES
  public,     \* sessions that are eligible: PUBLIC, SCHEDULED or LIVE, subscribed
  pending,    \* sessions that are announced and whose row is not committed
  store,      \* Settings Store: mean (by the refresh it is of), version, generation
  refresh,    \* refresh jobs
  index,      \* Elasticsearch: the {mean, version} of a document, or NoDocument
  indexJobs,      \* the bag of index jobs
  work,       \* indexers
  failures,
  lost,       \* history: sessions with a job dropped for good
  torn,       \* history: a refresh wrote and ended with no reindex ordered, or
              \* two wrote different versions into each other
  lowered,    \* history: a refresh put an older version over a newer one
  late,       \* history: indexers whose session was committed, or indexed by
              \* another one, since they read it
  behind      \* history: sessions that such an indexer wrote last, or that were
              \* committed with no job left to read them

overtaken   == <<late, behind>>
rankingVars == <<public, pending, store, refresh, index, indexJobs, work, failures, lost,
                 torn, lowered, overtaken>>
baseline    == <<store, refresh, torn, lowered>>

NoDocument == [mean |-> Nobody, version |-> 0]
NoRefresh  == [pc |-> "none", claimed |-> 0, next |-> 0, wrote |-> FALSE, advanced |-> 0]
Idle       == [pc |-> "idle", target |-> 0, todo |-> {}, s |-> Nobody, got |-> NoDocument]

\* a job for one session, or (target > 0) globalReindex of all of them
Job(s, target) == [s |-> s, target |-> target]
Add(job)       == indexJobs (+) SetToBag({job})

RankingInit ==
  /\ public = {} /\ pending = {}
  /\ \E v \in {0, 1} : store = [mean |-> "earlier", version |-> v, generation |-> Nobody]
  /\ refresh = [g \in Generations |-> NoRefresh]
  /\ index = [s \in Listings |-> NoDocument]
  /\ indexJobs = EmptyBag
  /\ work = [w \in Indexers |-> Idle]
  /\ failures = 0 /\ lost = {} /\ torn = FALSE
  /\ lowered = FALSE /\ late = {} /\ behind = {}

(***************************************************************************)
(* Sessions.                                                               *)
(***************************************************************************)
\* The listener orders a job, or the order fails and is only logged.
OrderJob(s) ==
  \/ /\ BagIn(Job(s, 0), indexJobs) => indexJobs[Job(s, 0)] < MaxQueued
     /\ indexJobs' = Add(Job(s, 0)) /\ lost' = lost \ {s}
     /\ UNCHANGED failures
  \/ /\ failures < MaxFailures /\ failures' = failures + 1
     /\ lost' = lost \cup {s} /\ UNCHANGED indexJobs

\* A session starts or is over, saved on its own and then announced, or one of
\* its documents' other sources changed; a row that is being written is locked.
Change(s) ==
  /\ public' \in {public \cup {s}, public \ {s}}
  /\ s \in pending => public' = public
  /\ OrderJob(s)
  /\ UNCHANGED <<pending, baseline, index, work, overtaken>>

\* A mutation publishes, changes or cancels a session: the event, which has no
\* RequestContext, does not wait for the transaction it is sent in.
Announce(s) ==
  /\ s \notin pending /\ pending' = pending \cup {s}
  /\ OrderJob(s)
  /\ UNCHANGED <<public, baseline, index, work, overtaken>>

Holders(s) == {w \in Indexers : work[w].s = s /\ work[w].pc \in {"prune", "baseline"}}
Awaited(s) == \/ BagIn(Job(s, 0), indexJobs)
              \/ \E w \in Indexers : work[w].s = s /\ work[w].target = 0 /\ work[w].pc = "row"

\* or it is rolled back
Commit(s) ==
  /\ s \in pending /\ pending' = pending \ {s}
  /\ public' \in {public \cup {s}, public \ {s}}
  /\ IF public' = public THEN UNCHANGED overtaken
     ELSE /\ late' = late \cup Holders(s)
          /\ behind' = IF Awaited(s) THEN behind ELSE behind \cup {s}
  /\ UNCHANGED <<baseline, index, indexJobs, work, failures, lost>>

(***************************************************************************)
(* MarketplaceIndexQueueService and MarketplaceIndexerService.             *)
(***************************************************************************)
Established(target) == store.version = target /\ target > 0

Indexes == <<public, pending, baseline, failures, lost>>

\* globalReindex stops at once when its target is not the baseline any more
TakeIndexJob(w, job) ==
  /\ work[w].pc = "idle" /\ BagIn(job, indexJobs)
  /\ indexJobs' = indexJobs (-) SetToBag({job})
  /\ work' = [work EXCEPT ![w] =
       IF job.target = 0 THEN [Idle EXCEPT !.pc = "row", !.s = job.s]
       ELSE IF Established(job.target)
            THEN [Idle EXCEPT !.pc = "next", !.target = job.target, !.todo = public]
            ELSE Idle]
  /\ UNCHANGED <<Indexes, index, overtaken>>

\* and between two sessions
NextListing(w) ==
  /\ work[w].pc = "next"
  /\ IF work[w].todo = {} \/ ~Established(work[w].target)
     THEN work' = [work EXCEPT ![w] = Idle]
     ELSE \E s \in work[w].todo :
            work' = [work EXCEPT ![w].pc = "row", ![w].s = s, ![w].todo = @ \ {s}]
  /\ UNCHANGED <<Indexes, index, indexJobs, overtaken>>

ReadRow(w) ==
  /\ work[w].pc = "row"
  /\ work' = [work EXCEPT ![w].pc = IF work[w].s \in public THEN "baseline" ELSE "prune",
                          ![w].got = NoDocument]
  /\ late' = late \ {w}
  /\ UNCHANGED <<Indexes, index, indexJobs, behind>>

\* the document a session should have
Due(s) == IF s \in public THEN [mean |-> store.mean, version |-> store.version] ELSE NoDocument

Indexed(w, doc) ==
  /\ index' = [index EXCEPT ![work[w].s] = doc]
  /\ work' = [work EXCEPT ![w] = IF @.target = 0 THEN Idle ELSE [@ EXCEPT !.pc = "next"]]
  /\ LET s == work[w].s
     IN /\ late' = (late \cup Holders(s)) \ {w}
        /\ behind' = IF w \in late /\ doc # Due(s) THEN behind \cup {s} ELSE behind \ {s}
  /\ UNCHANGED <<Indexes, indexJobs>>

Prune(w) == work[w].pc = "prune" /\ Indexed(w, NoDocument)

\* getCurrentBaseline reads the values in parallel
ReadBaseline(w) ==
  /\ work[w].pc = "baseline" /\ store.version > 0
  /\ \/ work[w].got.mean = Nobody /\ work' = [work EXCEPT ![w].got.mean = store.mean]
     \/ work[w].got.version = 0 /\ work' = [work EXCEPT ![w].got.version = store.version]
  /\ UNCHANGED <<Indexes, index, indexJobs, overtaken>>

WriteDocument(w) ==
  /\ work[w].pc = "baseline" /\ work[w].got.mean # Nobody /\ work[w].got.version > 0
  /\ Indexed(w, work[w].got)

\* the queue runs the job again, or has done so often enough
Abandon(w) ==
  /\ work' = [work EXCEPT ![w] = Idle]
  /\ LET target == work[w].target
         job == Job(IF target = 0 THEN work[w].s ELSE Nobody, target)
     IN \/ indexJobs' = Add(job) /\ UNCHANGED lost
        \/ /\ lost' = lost \cup (IF target = 0 THEN {work[w].s} ELSE Listings)
           /\ UNCHANGED indexJobs
  /\ late' = late \ {w}
  /\ UNCHANGED <<public, pending, baseline, index, behind>>

\* getCurrentBaseline throws
NoBaseline(w) ==
  /\ work[w].pc = "baseline" /\ store.version = 0
  /\ Abandon(w) /\ UNCHANGED failures

IndexFails(w) ==
  /\ work[w].pc # "idle" /\ failures < MaxFailures
  /\ failures' = failures + 1
  /\ Abandon(w)

(***************************************************************************)
(* BaselineRefreshQueueService and refreshBaseline.                        *)
(***************************************************************************)
Documents == <<public, pending, index, work, lost, overtaken>>

Goes(g, pc) == refresh' = [refresh EXCEPT ![g].pc = pc]

Schedule(g) ==
  /\ refresh[g].pc = "none"
  /\ refresh' = [refresh EXCEPT ![g].pc = "queued", ![g].claimed = store.version]
  /\ UNCHANGED <<Documents, store, indexJobs, failures, torn, lowered>>

Superseded(g) == refresh[g].claimed > 0 /\ store.version # refresh[g].claimed

\* mutant: a retry does not know its own generation
RefreshReads_NoResume(g) ==
  /\ refresh[g].pc = "queued"
  /\ IF Superseded(g) THEN Goes(g, "done")
     ELSE refresh' = [refresh EXCEPT ![g].pc = "mean", ![g].next = store.version + 1]
  /\ UNCHANGED torn
  /\ UNCHANGED <<Documents, store, indexJobs, failures, lowered>>

\* mutant: the version it was scheduled on is not looked at
RefreshReads_NoClaim(g) ==
  /\ refresh[g].pc = "queued"
  /\ IF store.generation = g
     THEN refresh' = [refresh EXCEPT ![g].pc = "enqueue", ![g].next = store.version]
     ELSE refresh' = [refresh EXCEPT ![g].pc = "mean", ![g].next = store.version + 1]
  /\ UNCHANGED torn
  /\ UNCHANGED <<Documents, store, indexJobs, failures, lowered>>

\* resumed, superseded, or on the way to commit
RefreshReads(g) ==
  /\ refresh[g].pc = "queued"
  /\ \/ /\ store.generation = g
        /\ refresh' = [refresh EXCEPT ![g].pc = "enqueue", ![g].next = store.version]
        /\ UNCHANGED torn
     \/ /\ store.generation # g /\ Superseded(g)
        /\ Goes(g, "done") /\ torn' = (torn \/ refresh[g].wrote)
     \/ /\ store.generation # g /\ ~Superseded(g)
        /\ refresh' = [refresh EXCEPT ![g].pc = "mean", ![g].next = store.version + 1]
        /\ UNCHANGED torn
  /\ UNCHANGED <<Documents, store, indexJobs, failures, lowered>>

Collides(g) ==
  \E h \in Generations : /\ refresh[h].pc \in {"version", "generation"}
                         /\ refresh[h].next # refresh[g].next

\* setMany writes the generation last
WriteMean(g) ==
  /\ refresh[g].pc = "mean"
  /\ store' = [store EXCEPT !.mean = g]
  /\ refresh' = [refresh EXCEPT ![g].pc = "version", ![g].wrote = TRUE]
  /\ torn' = (torn \/ Collides(g))
  /\ UNCHANGED <<Documents, indexJobs, failures, lowered>>

WriteVersion(g) ==
  /\ refresh[g].pc = "version"
  /\ store' = [store EXCEPT !.version = refresh[g].next]
  /\ refresh' = [refresh EXCEPT ![g].pc = "generation", ![g].advanced = @ + 1]
  /\ lowered' = (lowered \/ refresh[g].next < store.version)
  /\ UNCHANGED <<Documents, indexJobs, failures, torn>>

WriteGeneration(g) ==
  /\ refresh[g].pc = "generation"
  /\ store' = [store EXCEPT !.generation = g]
  /\ Goes(g, "check")
  /\ UNCHANGED <<Documents, indexJobs, failures, torn, lowered>>

\* superseded after all: the other refresh orders the reindex
CheckGeneration(g) ==
  /\ refresh[g].pc = "check"
  /\ Goes(g, IF store.generation = g THEN "enqueue" ELSE "done")
  /\ UNCHANGED <<Documents, store, indexJobs, failures, torn, lowered>>

EnqueueReindex(g) ==
  /\ refresh[g].pc = "enqueue"
  /\ indexJobs' = Add(Job(Nobody, refresh[g].next))
  /\ Goes(g, "done")
  /\ UNCHANGED <<Documents, store, failures, torn, lowered>>

RefreshFails(g) ==
  /\ refresh[g].pc \notin {"none", "queued", "done"} /\ failures < MaxFailures
  /\ failures' = failures + 1
  /\ \/ Goes(g, "queued") /\ UNCHANGED torn
     \/ Goes(g, "done") /\ torn' = (torn \/ refresh[g].wrote)
  /\ UNCHANGED <<Documents, store, indexJobs, lowered>>
-----------------------------------------------------------------------------
\* the versions there can be, one more for each refresh and each retry of one
Targets  == 1 .. Cardinality(Generations) + MaxFailures + 1
IndexJob == {Job(s, 0) : s \in Listings} \cup {Job(Nobody, v) : v \in Targets}

Work(w) ==
  NextListing(w) \/ ReadRow(w) \/ Prune(w) \/ ReadBaseline(w) \/ WriteDocument(w) \/ NoBaseline(w)

Refresh(g) ==
  \/ RefreshReads(g) \/ WriteMean(g) \/ WriteVersion(g) \/ WriteGeneration(g)
  \/ CheckGeneration(g) \/ EnqueueReindex(g)

RankingNext ==
  \/ \E s \in Listings : Change(s) \/ Announce(s) \/ Commit(s)
  \/ \E w \in Indexers : \/ \E job \in IndexJob : TakeIndexJob(w, job)
                         \/ Work(w) \/ IndexFails(w)
  \/ \E g \in Generations : Schedule(g) \/ Refresh(g) \/ RefreshFails(g)

\* Workers run, and the queue hands out every job in the end.
RankingFairness ==
  /\ \A w \in Indexers : WF_rankingVars(Work(w))
  /\ \A s \in Listings \cup {Nobody} : SF_rankingVars(\E w \in Indexers, job \in IndexJob :
                                               job.s = s /\ TakeIndexJob(w, job))
  /\ \A g \in Generations : WF_rankingVars(Refresh(g))

RankingSpec == RankingInit /\ [][RankingNext]_rankingVars /\ RankingFairness
-----------------------------------------------------------------------------
Baseline == [mean : Generations \cup {"earlier", Nobody}, version : Nat]

StoreOK   == store \in [mean : Generations \cup {"earlier"}, version : Nat,
                        generation : Generations \cup {Nobody}]
RefreshOK == refresh \in [Generations ->
  [pc : {"none", "queued", "mean", "version", "generation", "check", "enqueue", "done"},
   claimed : Nat, next : Nat, wrote : BOOLEAN, advanced : Nat]]
WorkOK    == work \in [Indexers ->
  [pc : {"idle", "next", "row", "prune", "baseline"}, target : Nat,
   todo : SUBSET Listings, s : Listings \cup {Nobody}, got : Baseline]]

\* The type invariant, with what the steps of an indexer know.
RankingTypeOK ==
  /\ public \cup pending \cup lost \cup behind \subseteq Listings
  /\ late \subseteq Indexers /\ lowered \in BOOLEAN
  /\ StoreOK /\ RefreshOK /\ WorkOK
  /\ index \in [Listings -> Baseline]
  /\ BagToSet(indexJobs) \subseteq
       [s : Listings, target : {0}] \cup [s : {Nobody}, target : Nat]
  /\ \A w \in Indexers :
       /\ work[w].pc \in {"row", "prune", "baseline"} => work[w].s \in Listings
       /\ work[w].pc = "next" => work[w].target > 0

\* A refresh that knew the version it was scheduled on advances it at most
\* once, however often it dies and is run again and whichever others it meets,
\* until one of them puts an older version back: then nothing tells a retry what
\* it has done.
AdvancesOnce ==
  lowered \/ \A g \in Generations : refresh[g].claimed > 0 => refresh[g].advanced <= 1

\* A document that is not what its session and the baseline ask for does not
\* stay so, over failures and retries of either queue, refreshes that meet, index
\* jobs that overlap and transactions that are open while they run.  Where the
\* last word was an indexer's that had been overtaken, or the row was committed
\* after its last job, nothing in the code corrects it, until the next job.
Astray(s) == s \notin lost \cup behind /\ ~torn /\ store.version > 0 /\ index[s] # Due(s)
IndexConverges == \A s \in Listings : Astray(s) ~> ~Astray(s)

\* A session that is over, or not public any more, does not stay listed.
Overlong(s) == s \notin lost /\ s \notin public /\ index[s] # NoDocument
OverIsUnlisted == \A s \in Listings : Overlong(s) ~> ~Overlong(s)
=============================================================================
