----------------------------- MODULE MCStorefront -----------------------------
(***************************************************************************)
(* Several small instances of OrderPayment and of MarketplaceRanking in    *)
(* one run.  The two share nothing: in each shape one of them moves.       *)
(***************************************************************************)
EXTENDS OrderPayment, MarketplaceRanking

CONSTANTS p1, j1, g1, s1, w1

VARIABLE shape

Still == [payments |-> {}, kinds |-> {}, jobs |-> {}, total |-> 1,
          listings |-> {}, generations |-> {}, versions |-> {1}, failures |-> 0,
          indexers |-> {w1}, open |-> {}]

\* two deliveries of a payment and one job at a time; two jobs of one delivery;
\* two payments
Kind        == CHOOSE k \in Kinds : TRUE
OneJob      == [Still EXCEPT !.payments = {p1}, !.kinds = Kinds, !.jobs = {j1},
                             !.total = MaxTotal]
TwoJobs     == [Still EXCEPT !.payments = {p1}, !.kinds = {Kind}, !.jobs = Jobs]
TwoPayments == [Still EXCEPT !.payments = Payments, !.kinds = {Kind}, !.jobs = {j1}]

\* refreshes that meet; one that fails, the very first among them; two sessions;
\* two indexers; the session's transactions are open in two of these
Overlap  == [Still EXCEPT !.listings = {s1}, !.generations = Generations]
Failing  == [Still EXCEPT !.listings = {s1}, !.generations = {g1}, !.versions = {0, 1},
                          !.failures = MaxFailures, !.open = {s1}]
TwoListings == [Still EXCEPT !.listings = Listings, !.generations = {g1}]
TwoIndexers == [Still EXCEPT !.listings = {s1}, !.generations = {g1}, !.indexers = Indexers,
                             !.open = {s1}]

Shapes == {OneJob, TwoJobs, TwoPayments, Overlap, Failing, TwoListings, TwoIndexers}

Fits ==
  /\ \A p \in Payments : provider'[p].status # "none" => p \in shape.payments
  /\ \A d \in Deliveries : inbox'[d].status # "none" => d[2] \in shape.kinds
  /\ \A j \in Jobs : queue'[j] # NoJob => j \in shape.jobs
  /\ order'.total <= shape.total
  /\ \A s \in Listings \ shape.listings : ~BagIn(Job(s, 0), indexJobs') /\ s \notin public'
  /\ pending' \subseteq shape.open
  /\ \A g \in Generations : refresh'[g].pc # "none" => g \in shape.generations
  /\ \A w \in Indexers \ shape.indexers : work'[w] = Idle
  /\ failures' <= shape.failures

MCInit ==
  /\ OrderInit /\ RankingInit /\ shape \in Shapes /\ store.version \in shape.versions
MCNext ==
  /\ \/ shape.payments # {} /\ OrderNext /\ UNCHANGED rankingVars
     \/ shape.listings # {} /\ RankingNext /\ UNCHANGED orderVars
  /\ Fits /\ UNCHANGED shape

MCSpec ==
  MCInit /\ [][MCNext]_<<orderVars, rankingVars, shape>> /\ RankingFairness
-----------------------------------------------------------------------------
\* The type invariants of the two.
TypeOK == OrderTypeOK /\ RankingTypeOK
=============================================================================
