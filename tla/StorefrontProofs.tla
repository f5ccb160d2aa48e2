--------------------------- MODULE StorefrontProofs ---------------------------
(***************************************************************************)
(* OrderPayment, for any number of payments, event kinds and jobs: a       *)
(* webhook delivery that is decided has its payment on the order or in     *)
(* front of an operator, and one that is not decided has a job or will be  *)
(* repeated.                                                               *)
(*                                                                         *)
(* MarketplaceRanking, for any number of sessions, refreshes and workers:  *)
(* its types, and that a refresh advances the version it was scheduled on  *)
(* at most once, until a version is put back.                             *)
(***************************************************************************)
EXTENDS MCStorefront, TLAPS

(***************************************************************************)
(* Decided deliveries: what a job carries between its decision and the save *)
(* of its row.                                                             *)
(***************************************************************************)
\* The jobs are well typed, and one that runs has a row left to decide: the
\* attempt it writes is never beyond the last.
JobSet ==
  [pc : {"queued", "read", "adding", "processed", "ignored"}, d : Deliveries,
   tries : 1 .. MAX_ATTEMPTS, stalled : BOOLEAN, attempt : 0 .. MAX_ATTEMPTS,
   total : 0 .. MaxTotal]

QueueOK ==
  /\ queue \in [Jobs -> {NoJob} \cup JobSet]
  /\ \A d \in Deliveries : inbox[d].status \in {"none", "pending"} =>
                             inbox[d].attempts < MAX_ATTEMPTS
  /\ \A d \in Deliveries : inbox[d].status = "none" => inbox[d].names

\* A job that is about to save its decision has accounted for the payment.
JobsAccount ==
  \A j \in Jobs : queue[j].pc \in {"processed", "ignored"} /\ inbox[queue[j].d].names =>
    Accounted(queue[j].d[1])

\* What was sent within the hour was sent.
RecentIsAlerted == recent => alerts # {}

IInv == OrderTypeOK /\ QueueOK /\ RecentIsAlerted /\ JobsAccount /\ DecidedIsAccounted
-----------------------------------------------------------------------------
\* The first component of a delivery is a payment.
LEMMA DeliveryPayment == \A d \in Deliveries : d[1] \in Payments
BY DEF Deliveries

\* A new job of a delivery is well typed, and it has decided nothing.
LEMMA NewJobOK ==
  \A d \in Deliveries : NewJob(d) \in JobSet /\ NewJob(d).pc = "queued"
BY OrderAssumption DEF NewJob, JobSet, OrderAssumption

\* A job that is there is a member of JobSet, and no other has a pc but "none".
LEMMA JobIs ==
  ASSUME QueueOK, NEW j \in Jobs, queue[j].pc # "none"
  PROVE  queue[j] \in JobSet
BY DEF QueueOK, NoJob

\* A job is queued again as a job that has decided nothing.
LEMMA AgainOK ==
  ASSUME QueueOK, NEW j \in Jobs, queue[j].pc # "none"
  PROVE  /\ Again(j, "queued") = [queue EXCEPT ![j] = Again(j, "queued")[j]]
         /\ Again(j, "queued")[j] \in JobSet
         /\ Again(j, "queued")[j].pc = "queued"
         /\ Again(j, "queued")[j].tries = queue[j].tries
<1>1. queue[j] \in JobSet BY JobIs
<1>2. queue \in [Jobs -> {NoJob} \cup JobSet] BY DEF QueueOK
<1>3. NewJob(queue[j].d) \in JobSet BY <1>1, NewJobOK DEF JobSet
<1>4. Again(j, "queued")[j]
        = [NewJob(queue[j].d) EXCEPT !.tries = queue[j].tries,
                                     !.stalled = queue[j].stalled, !.pc = "queued"]
  BY <1>2 DEF Again
<1>5. Again(j, "queued")[j] \in JobSet BY <1>1, <1>3, <1>4 DEF JobSet
<1>6. Again(j, "queued")[j].pc = "queued" /\ Again(j, "queued")[j].tries = queue[j].tries
  BY <1>3, <1>4 DEF JobSet
<1>7. Again(j, "queued") = [queue EXCEPT ![j] = Again(j, "queued")[j]]
  BY <1>2, <1>4 DEF Again
<1> QED BY <1>5, <1>6, <1>7
-----------------------------------------------------------------------------
(***************************************************************************)
(* The initial states.                                                     *)
(***************************************************************************)
LEMMA InitOK == OrderInit => IInv
<1> SUFFICES ASSUME OrderInit PROVE IInv OBVIOUS
<1> USE OrderAssumption DEF OrderInit, OrderAssumption
<1>1. OrderTypeOK
  <2>1. order \in [state : {"ArrangingPayment", "AddingItems", "PaymentSettled", "Cancelled"},
                  total : 1 .. MaxTotal, paid : SUBSET Payments]
    OBVIOUS
  <2>2. provider \in [Payments -> [status : {"none", "open", "authorized", "captured"},
                                  amount : 0 .. MaxTotal]] /\ shop \in [Payments -> 0 .. MaxTotal]
    OBVIOUS
  <2>3. inbox \in [Deliveries -> [status : {"none", "pending", "processed", "ignored", "failed"},
                                 attempts : 0 .. MAX_ATTEMPTS, names : BOOLEAN]]
    OBVIOUS
  <2> QED BY <2>1, <2>2, <2>3 DEF OrderTypeOK
<1>2. QueueOK BY DEF QueueOK, NoJob
<1>3. JobsAccount BY DEF JobsAccount, NoJob
<1>4. DecidedIsAccounted BY DEF DecidedIsAccounted, Decided
<1>5. RecentIsAlerted BY DEF RecentIsAlerted
<1> QED BY <1>1, <1>2, <1>3, <1>4, <1>5 DEF IInv
-----------------------------------------------------------------------------
(***************************************************************************)
(* What a step must do to keep the invariant, said once: payments and      *)
(* alerts only grow, and whoever decides has accounted.                    *)
(***************************************************************************)
Grows == /\ order.paid \subseteq order'.paid
         /\ alerts \subseteq alerts' /\ muted \subseteq muted'
         /\ recent' => recent \/ alerts' # {}

LEMMA RecentStays == ASSUME Grows, RecentIsAlerted PROVE RecentIsAlerted'
BY DEF Grows, RecentIsAlerted

\* What is accounted for stays so.
LEMMA AccountedStays ==
  ASSUME Grows, NEW p, Accounted(p)
  PROVE  Accounted(p)'
BY DEF Grows, Accounted

\* Capturing and settling a payment keeps the types, and records it or nothing.
LEMMA SettlesOK ==
  ASSUME OrderTypeOK, NEW p \in Payments, NEW t \in 0 .. MaxTotal, Settles(p, t)
  PROVE  /\ order' \in [state : {"ArrangingPayment", "AddingItems", "PaymentSettled",
                                 "Cancelled"},
                        total : 1 .. MaxTotal, paid : SUBSET Payments]
         /\ provider' \in [Payments -> [status : {"none", "open", "authorized", "captured"},
                                        amount : 0 .. MaxTotal]]
         /\ order.paid \subseteq order'.paid
         /\ provider[p].amount = t => p \in order'.paid
BY DEF OrderTypeOK, Settles

\* A step that leaves the jobs and the rows alone and only adds to what is
\* accounted for keeps the invariant, if it keeps the types.
LEMMA QuietStep ==
  ASSUME IInv, OrderTypeOK', Grows, UNCHANGED <<inbox, queue>>
  PROVE  IInv'
<1>1. QueueOK' BY DEF IInv, QueueOK
<1>2. JobsAccount' BY AccountedStays DEF IInv, JobsAccount
<1>3. DecidedIsAccounted' BY AccountedStays DEF IInv, DecidedIsAccounted, Decided
<1> QED BY <1>1, <1>2, <1>3, RecentStays DEF IInv

\* One job moves, the rows stay: enough is that the job is still one, and that
\* it accounts for its payment if it has decided.
LEMMA JobStep ==
  ASSUME IInv, OrderTypeOK', Grows, NEW j \in Jobs, NEW q \in {NoJob} \cup JobSet,
         queue' = [queue EXCEPT ![j] = q], UNCHANGED inbox,
         q.pc \in {"processed", "ignored"} /\ inbox[q.d].names => Accounted(q.d[1])'
  PROVE  IInv'
<1>1. QueueOK' BY DEF IInv, QueueOK
<1>2. JobsAccount' BY AccountedStays DEF IInv, JobsAccount, QueueOK
<1>3. DecidedIsAccounted' BY AccountedStays DEF IInv, DecidedIsAccounted, Decided
<1> QED BY <1>1, <1>2, <1>3, RecentStays DEF IInv

\* One job moves and its delivery's row is written: as well, an undecided row has
\* attempts left, and a decided one is accounted for.
LEMMA RowStep ==
  ASSUME IInv, OrderTypeOK', Grows, NEW j \in Jobs, NEW q \in {NoJob} \cup JobSet,
         queue' = [queue EXCEPT ![j] = q] \/ UNCHANGED queue,
         q.pc \notin {"processed", "ignored"},
         NEW d \in Deliveries, NEW r, inbox' = [inbox EXCEPT ![d] = r],
         r.status \in {"none", "pending"} => r.attempts < MAX_ATTEMPTS,
         r.status # "none", r.names => inbox[d].names,
         r.status \in {"processed", "ignored"} /\ r.names => Accounted(d[1])'
  PROVE  IInv'
<1>1. QueueOK'
  <2>1. queue' \in [Jobs -> {NoJob} \cup JobSet] BY DEF IInv, QueueOK
  <2>2. ASSUME NEW e \in Deliveries, inbox'[e].status \in {"none", "pending"}
        PROVE  inbox'[e].attempts < MAX_ATTEMPTS
    BY <2>2 DEF IInv, QueueOK, OrderTypeOK
  <2>3. ASSUME NEW e \in Deliveries, inbox'[e].status = "none" PROVE inbox'[e].names
    BY <2>3 DEF IInv, QueueOK, OrderTypeOK
  <2> QED BY <2>1, <2>2, <2>3 DEF QueueOK
<1>2. JobsAccount'
  <2> SUFFICES ASSUME NEW i \in Jobs, queue'[i].pc \in {"processed", "ignored"},
                      inbox'[queue'[i].d].names
               PROVE  Accounted(queue[i].d[1])'
    BY DEF JobsAccount
  <2>1. queue'[i] = queue[i]
    <3>1. queue'[i] = queue[i] \/ queue'[i] = q BY DEF IInv, QueueOK
    <3> QED BY <3>1
  <2>2. queue[i].pc \in {"processed", "ignored"} BY <2>1
  <2>3. queue[i].d \in Deliveries BY <2>2, JobIs DEF IInv, JobSet
  <2>4. inbox[queue[i].d].names BY <2>1, <2>3 DEF IInv, OrderTypeOK
  <2>5. PICK p : p = queue[i].d[1] OBVIOUS
  <2>6. Accounted(p) BY <2>2, <2>4, <2>5 DEF IInv, JobsAccount
  <2>7. Accounted(p)' BY <2>6, AccountedStays
  <2> QED BY <2>1, <2>5, <2>7
<1>3. DecidedIsAccounted' BY AccountedStays DEF IInv, DecidedIsAccounted, Decided, OrderTypeOK
<1> QED BY <1>1, <1>2, <1>3, RecentStays DEF IInv
-----------------------------------------------------------------------------
(***************************************************************************)
(* The steps of the customer and the browser.                              *)
(***************************************************************************)
LEMMA CheckoutStep ==
  ASSUME IInv, NEW p \in Payments, CreateCheckoutOrder(p)
  PROVE  IInv'
<1> USE DEF CreateCheckoutOrder, answers, ops
<1>1. OrderTypeOK' BY DEF IInv, OrderTypeOK
<1> QED BY <1>1, QuietStep DEF Grows

LEMMA PaysStep ==
  ASSUME IInv, NEW p \in Payments, CustomerPays(p)
  PROVE  IInv'
<1> USE DEF CustomerPays, answers, ops
<1>1. OrderTypeOK' BY DEF IInv, OrderTypeOK
<1> QED BY <1>1, QuietStep DEF Grows

LEMMA CartStep ==
  ASSUME IInv, EditCart
  PROVE  IInv'
<1>1. order \in [state : {"ArrangingPayment", "AddingItems", "PaymentSettled", "Cancelled"},
                 total : 1 .. MaxTotal, paid : SUBSET Payments]
  BY DEF IInv, OrderTypeOK
<1>2. order' \in [state : {"ArrangingPayment", "AddingItems", "PaymentSettled", "Cancelled"},
                  total : 1 .. MaxTotal, paid : SUBSET Payments]
      /\ order'.paid = order.paid
  <2>1. CASE /\ order.total < MaxTotal
             /\ order' = [order EXCEPT !.state = "AddingItems", !.total = @ + 1]
    <3>1. order.total + 1 \in 1 .. MaxTotal
      BY <1>1, <2>1, OrderAssumption DEF OrderAssumption
    <3> QED BY <1>1, <2>1, <3>1
  <2>2. CASE order' = [order EXCEPT !.state = "ArrangingPayment"] BY <1>1, <2>2
  <2>3. CASE order' = [order EXCEPT !.state = "Cancelled"] BY <1>1, <2>3
  <2> QED BY <2>1, <2>2, <2>3 DEF EditCart
<1>3. UNCHANGED <<provider, shop, inbox, answers, queue, ops>> BY DEF EditCart
<1>4. OrderTypeOK' BY <1>2, <1>3 DEF IInv, OrderTypeOK, answers, ops
<1> QED BY <1>2, <1>3, <1>4, QuietStep DEF Grows, ops

LEMMA ShopAddsStep ==
  ASSUME IInv, NEW p \in Payments, ShopAdds(p)
  PROVE  IInv'
<1> USE DEF ShopAdds, payment, answers, ops
<1>1. OrderTypeOK' BY DEF IInv, OrderTypeOK
<1> QED BY <1>1, QuietStep DEF Grows

LEMMA ShopReturnsStep ==
  ASSUME IInv, NEW p \in Payments, ShopReturns(p)
  PROVE  IInv'
<1>1. shop[p] \in 0 .. MaxTotal BY DEF IInv, OrderTypeOK
<1>2. /\ order' \in [state : {"ArrangingPayment", "AddingItems", "PaymentSettled", "Cancelled"},
                     total : 1 .. MaxTotal, paid : SUBSET Payments]
      /\ provider' \in [Payments -> [status : {"none", "open", "authorized", "captured"},
                                     amount : 0 .. MaxTotal]]
      /\ order.paid \subseteq order'.paid
  <2>1. CASE Settles(p, shop[p])
    <3>1. OrderTypeOK BY DEF IInv
    <3> QED BY <1>1, <2>1, <3>1, SettlesOK
  <2>2. CASE UNCHANGED payment BY <2>2 DEF IInv, OrderTypeOK, payment
  <2> QED BY <2>1, <2>2 DEF ShopReturns
<1>3. shop' = [shop EXCEPT ![p] = 0] /\ UNCHANGED <<inbox, answers, queue, ops>>
  BY DEF ShopReturns
<1>4. OrderTypeOK'
  BY <1>2, <1>3, OrderAssumption DEF IInv, OrderTypeOK, OrderAssumption, answers, ops
<1> QED BY <1>2, <1>3, <1>4, QuietStep DEF Grows, ops
-----------------------------------------------------------------------------
(***************************************************************************)
(* The steps of the controller.                                            *)
(***************************************************************************)
\* The queue takes a new job of the delivery, or nothing.
LEMMA EnqueueOK ==
  ASSUME NEW d \in Deliveries, Enqueue(d)
  PROVE  /\ \/ \E j \in Jobs : queue' = [queue EXCEPT ![j] = NewJob(d)]
            \/ UNCHANGED queue
         /\ acked' \in {acked, acked \cup {d}} /\ doubled' \in {doubled, doubled \cup {d}}
BY DEF Enqueue, answers

LEMMA ReceiveStep ==
  ASSUME IInv, NEW d \in Deliveries, ReceiveWebhook(d)
  PROVE  IInv'
<1> USE DEF ReceiveWebhook, payment, answers, ops
<1>1. inbox[d].status = "none" /\ inbox[d].attempts < MAX_ATTEMPTS
  BY DEF IInv, QueueOK
<1>0. PICK b \in BOOLEAN : inbox' = [inbox EXCEPT ![d].status = "pending", ![d].names = b]
  OBVIOUS
<1>9. PICK r : r = [inbox[d] EXCEPT !.status = "pending", !.names = b] OBVIOUS
<1>2. inbox' = [inbox EXCEPT ![d] = r] BY <1>0, <1>9
<1>3. OrderTypeOK'
  <2>1. inbox' \in [Deliveries -> [status : {"none", "pending", "processed", "ignored", "failed"},
                                  attempts : 0 .. MAX_ATTEMPTS, names : BOOLEAN]]
    <3>1. r \in [status : {"none", "pending", "processed", "ignored", "failed"},
                 attempts : 0 .. MAX_ATTEMPTS, names : BOOLEAN]
      BY <1>9 DEF IInv, OrderTypeOK
    <3> QED BY <1>2, <3>1 DEF IInv, OrderTypeOK
  <2>2. acked' \cup doubled' \subseteq Deliveries BY EnqueueOK DEF IInv, OrderTypeOK
  <2> QED BY <2>1, <2>2 DEF IInv, OrderTypeOK
<1>4. Grows BY DEF Grows
<1>5. /\ r.status = "pending" /\ r.attempts = inbox[d].attempts
      /\ r.names => inbox[d].names
  BY <1>1, <1>9 DEF IInv, OrderTypeOK, QueueOK
<1>6. CASE UNCHANGED queue
  <2>1. QueueOK' BY <1>1, <1>2, <1>5, <1>6 DEF IInv, QueueOK, OrderTypeOK
  <2>2. JobsAccount'
    <3>1. \A e \in Deliveries : inbox'[e].names => inbox[e].names
      BY <1>2, <1>5 DEF IInv, OrderTypeOK
    <3>2. \A i \in Jobs : queue[i].pc # "none" => queue[i].d \in Deliveries
      BY JobIs DEF IInv, JobSet
    <3> QED BY <1>4, <1>6, <3>1, <3>2, AccountedStays DEF IInv, JobsAccount
  <2>3. DecidedIsAccounted'
    BY <1>2, <1>4, <1>5, AccountedStays DEF IInv, DecidedIsAccounted, Decided, OrderTypeOK
  <2> QED BY <1>3, <1>4, <2>1, <2>2, <2>3, RecentStays DEF IInv
<1>7. CASE \E j \in Jobs : queue' = [queue EXCEPT ![j] = NewJob(d)]
  <2>1. PICK j \in Jobs : queue' = [queue EXCEPT ![j] = NewJob(d)] BY <1>7
  <2>2. NewJob(d) \in {NoJob} \cup JobSet /\ NewJob(d).pc = "queued" BY NewJobOK
  <2> QED BY <1>1, <1>2, <1>3, <1>4, <1>5, <2>1, <2>2, RowStep
<1> QED BY <1>6, <1>7, EnqueueOK

LEMMA ReceiveAgainStep ==
  ASSUME IInv, NEW d \in Deliveries, ReceiveAgain(d)
  PROVE  IInv'
<1> USE DEF ReceiveAgain, payment, answers, ops
<1>1. /\ \/ \E j \in Jobs : queue' = [queue EXCEPT ![j] = NewJob(d)]
         \/ UNCHANGED queue
      /\ acked' \in {acked, acked \cup {d}} /\ doubled' \in {doubled, doubled \cup {d}}
  BY EnqueueOK
<1>2. OrderTypeOK' BY <1>1 DEF IInv, OrderTypeOK
<1>3. Grows BY DEF Grows
<1>4. CASE UNCHANGED queue BY <1>2, <1>3, <1>4, QuietStep
<1>5. CASE \E j \in Jobs : queue' = [queue EXCEPT ![j] = NewJob(d)]
  <2>1. PICK j \in Jobs : queue' = [queue EXCEPT ![j] = NewJob(d)] BY <1>5
  <2>2. NewJob(d) \in {NoJob} \cup JobSet /\ NewJob(d).pc = "queued" BY NewJobOK
  <2> QED BY <1>2, <1>3, <2>1, <2>2, JobStep
<1> QED BY <1>1, <1>4, <1>5
-----------------------------------------------------------------------------
(***************************************************************************)
(* The steps of a job.                                                     *)
(***************************************************************************)
LEMMA ReadsRowStep ==
  ASSUME IInv, NEW j \in Jobs, JobReadsRow(j)
  PROVE  IInv'
<1> USE DEF JobReadsRow, payment, answers, ops
<1>1. OrderTypeOK' BY DEF IInv, OrderTypeOK
<1>2. Grows BY DEF Grows
<1>3. queue[j] \in JobSet /\ queue[j].d \in Deliveries BY JobIs DEF IInv, JobSet
<1>4. CASE inbox[queue[j].d].status = "pending"
  <2>1. inbox[queue[j].d].attempts + 1 \in 0 .. MAX_ATTEMPTS
    BY <1>3, <1>4, OrderAssumption DEF IInv, QueueOK, OrderTypeOK, OrderAssumption
  <2>2. PICK q : q = [queue[j] EXCEPT !.pc = "read",
                                      !.attempt = inbox[queue[j].d].attempts + 1]
    OBVIOUS
  <2>3. q \in JobSet /\ q.pc = "read" BY <1>3, <2>1, <2>2 DEF JobSet
  <2>4. queue' = [queue EXCEPT ![j] = q] BY <1>4, <2>2 DEF IInv, QueueOK
  <2> QED BY <1>1, <1>2, <2>3, <2>4, JobStep
<1>5. CASE inbox[queue[j].d].status # "pending"
  <2>1. queue' = [queue EXCEPT ![j] = NoJob] BY <1>5 DEF Ends
  <2> QED BY <1>1, <1>2, <2>1, JobStep DEF NoJob
<1> QED BY <1>4, <1>5

LEMMA ReadsOrderStep ==
  ASSUME IInv, NEW j \in Jobs, JobReadsOrder(j)
  PROVE  IInv'
<1> DEFINE p == queue[j].d[1]
<1>1. queue[j] \in JobSet /\ queue[j].d \in Deliveries
  BY JobIs DEF JobReadsOrder, IInv, JobSet
<1>2. p \in Payments BY <1>1, DeliveryPayment
<1>3. UNCHANGED <<payment, shop, inbox, answers>> BY DEF JobReadsOrder
<1>4. CASE UNCHANGED ops /\ queue' = [queue EXCEPT ![j].pc = "adding", ![j].total = order.total]
  <2>1. PICK q : q = [queue[j] EXCEPT !.pc = "adding", !.total = order.total] OBVIOUS
  <2>2. order.total \in 0 .. MaxTotal
    BY OrderAssumption DEF IInv, OrderTypeOK, OrderAssumption
  <2>3. q \in JobSet /\ q.pc = "adding" BY <1>1, <2>1, <2>2 DEF JobSet
  <2>4. queue' = [queue EXCEPT ![j] = q] BY <1>4, <2>1 DEF IInv, QueueOK
  <2>5. OrderTypeOK' /\ Grows BY <1>3, <1>4 DEF IInv, OrderTypeOK, Grows, payment, answers, ops
  <2> QED BY <1>3, <2>3, <2>4, <2>5, JobStep
<1>5. CASE /\ queue' = [queue EXCEPT ![j].pc = "ignored"]
           /\ \/ (~inbox[queue[j].d].names \/ p \in order.paid) /\ UNCHANGED ops
              \/ Notify(p)
  <2>1. PICK q : q = [queue[j] EXCEPT !.pc = "ignored"] OBVIOUS
  <2>2. q \in JobSet /\ q.d = queue[j].d BY <1>1, <2>1 DEF JobSet
  <2>3. queue' = [queue EXCEPT ![j] = q] BY <1>5, <2>1 DEF IInv, QueueOK
  <2>4. CASE (~inbox[queue[j].d].names \/ p \in order.paid) /\ UNCHANGED ops
    <3>1. OrderTypeOK' /\ Grows
      BY <1>3, <2>4 DEF IInv, OrderTypeOK, Grows, payment, answers, ops
    <3>2. inbox[q.d].names => Accounted(q.d[1])'
      BY <1>3, <2>2, <2>4 DEF Accounted, payment
    <3> QED BY <1>3, <2>2, <2>3, <3>1, <3>2, JobStep
  <2>5. CASE Notify(p)
    <3>1. OrderTypeOK' /\ Grows
      BY <1>2, <1>3, <2>5 DEF Notify, IInv, OrderTypeOK, Grows, payment, answers
    <3>2. alerts' # {} /\ p \in alerts' \cup muted'
      BY <2>5 DEF Notify, IInv, RecentIsAlerted
    <3>3. Accounted(q.d[1])'
      BY <2>2, <3>2 DEF Accounted
    <3> QED BY <1>3, <2>2, <2>3, <3>1, <3>3, JobStep
  <2> QED BY <1>5, <2>4, <2>5
<1> QED BY <1>4, <1>5 DEF JobReadsOrder

LEMMA AddsPaymentStep ==
  ASSUME IInv, NEW j \in Jobs, JobAddsPayment(j)
  PROVE  IInv'
<1> USE DEF JobAddsPayment, payment, answers, ops
<1>1. queue[j] \in JobSet /\ queue[j].d \in Deliveries /\ queue[j].total \in 0 .. MaxTotal
  BY JobIs DEF IInv, JobSet
<1>2. queue[j].d[1] \in Payments BY <1>1, DeliveryPayment
<1>3. OrderTypeOK' /\ Grows /\ queue[j].d[1] \in order'.paid
  BY <1>1, <1>2, SettlesOK DEF IInv, OrderTypeOK, Grows
<1>4. PICK q : q = [queue[j] EXCEPT !.pc = "processed"] OBVIOUS
<1>5. q \in JobSet /\ q.d = queue[j].d BY <1>1, <1>4 DEF JobSet
<1>6. queue' = [queue EXCEPT ![j] = q] BY <1>4 DEF IInv, QueueOK
<1>7. Accounted(q.d[1])' BY <1>3, <1>5 DEF Accounted
<1> QED BY <1>3, <1>5, <1>6, <1>7, JobStep

LEMMA SavesRowStep ==
  ASSUME IInv, NEW j \in Jobs, JobSavesRow(j)
  PROVE  IInv'
<1> USE DEF JobSavesRow, payment, answers, ops
<1>1. queue[j] \in JobSet BY JobIs DEF IInv
<1>2. queue[j].d \in Deliveries /\ queue[j].attempt \in 0 .. MAX_ATTEMPTS
  BY <1>1 DEF JobSet
<1>3. OrderTypeOK' /\ Grows BY <1>2 DEF IInv, OrderTypeOK, Grows
<1>4. queue' = [queue EXCEPT ![j] = NoJob] /\ NoJob.pc = "none" BY DEF Ends, NoJob
<1>5. PICK r : r = [inbox[queue[j].d] EXCEPT !.status = queue[j].pc, !.attempts = queue[j].attempt]
  OBVIOUS
<1>6. inbox' = [inbox EXCEPT ![queue[j].d] = r] /\ r.status \in {"processed", "ignored"}
      /\ r.names = inbox[queue[j].d].names
  BY <1>2, <1>5 DEF IInv, OrderTypeOK
<1>7. PICK d \in Deliveries : d = queue[j].d BY <1>2
<1>8. r.names => Accounted(d[1])'
  <2>1. r.names => Accounted(d[1]) BY <1>6, <1>7 DEF IInv, JobsAccount
  <2> QED BY <2>1, <1>3, AccountedStays
<1> QED BY <1>3, <1>4, <1>6, <1>7, <1>8, RowStep

LEMMA FailsStep ==
  ASSUME IInv, NEW j \in Jobs, JobFails(j)
  PROVE  IInv'
<1> USE DEF JobFails, payment, answers, ops
<1>1. queue[j] \in JobSet BY JobIs DEF IInv
<1>2. /\ queue[j].d \in Deliveries /\ queue[j].attempt \in 0 .. MAX_ATTEMPTS
      /\ queue[j].tries \in 1 .. MAX_ATTEMPTS
  BY <1>1 DEF JobSet
<1>3. PICK r : r = [inbox[queue[j].d] EXCEPT
                      !.status = IF queue[j].attempt >= MAX_ATTEMPTS THEN "failed" ELSE "pending",
                      !.attempts = queue[j].attempt]
  OBVIOUS
<1>4. inbox' = [inbox EXCEPT ![queue[j].d] = r] /\ r.names = inbox[queue[j].d].names
      /\ r.status = (IF queue[j].attempt >= MAX_ATTEMPTS THEN "failed" ELSE "pending")
      /\ r.attempts = queue[j].attempt
  <2>1. inbox[queue[j].d] \in
          [status : {"none", "pending", "processed", "ignored", "failed"},
           attempts : 0 .. MAX_ATTEMPTS, names : BOOLEAN]
    BY <1>2 DEF IInv, OrderTypeOK
  <2>2. /\ r.names = inbox[queue[j].d].names /\ r.attempts = queue[j].attempt
        /\ r.status = (IF queue[j].attempt >= MAX_ATTEMPTS THEN "failed" ELSE "pending")
    BY <1>3, <2>1
  <2>3. inbox' = [inbox EXCEPT ![queue[j].d] = r]
    BY <1>3
  <2> QED
    BY <2>2, <2>3
<1>5. /\ r.status \in {"failed", "pending"}
      /\ r.status = "pending" => r.attempts < MAX_ATTEMPTS
  BY <1>2, <1>4, OrderAssumption DEF OrderAssumption
<1>6. OrderTypeOK' /\ Grows BY <1>2 DEF IInv, OrderTypeOK, Grows
<1>7. CASE queue[j].tries < MAX_ATTEMPTS
  <2>1. PICK a : a = Again(j, "queued")[j] OBVIOUS
  <2>2. /\ Again(j, "queued") = [queue EXCEPT ![j] = a]
        /\ a \in JobSet /\ a.pc = "queued" /\ a.tries = queue[j].tries
    BY <2>1, AgainOK DEF IInv
  <2>3. PICK q : q = [a EXCEPT !.tries = @ + 1] OBVIOUS
  <2>4. q \in JobSet /\ q.pc = "queued"
    BY <1>2, <1>7, <2>2, <2>3, OrderAssumption DEF JobSet, OrderAssumption
  <2>5. queue' = [queue EXCEPT ![j] = q] BY <1>7, <2>2, <2>3 DEF IInv, QueueOK
  <2> QED BY <1>2, <1>4, <1>5, <1>6, <2>4, <2>5, RowStep
<1>8. CASE ~(queue[j].tries < MAX_ATTEMPTS)
  <2>1. queue' = [queue EXCEPT ![j] = NoJob] /\ NoJob.pc = "none" BY <1>8 DEF Ends, NoJob
  <2> QED BY <1>2, <1>4, <1>5, <1>6, <2>1, RowStep
<1> QED BY <1>7, <1>8

LEMMA StallsStep ==
  ASSUME IInv, NEW j \in Jobs, JobStalls(j)
  PROVE  IInv'
<1> USE DEF JobStalls, payment, answers, ops
<1>1. OrderTypeOK' /\ Grows BY DEF IInv, OrderTypeOK, Grows
<1>2. PICK a : a = Again(j, "queued")[j] OBVIOUS
<1>3. Again(j, "queued") = [queue EXCEPT ![j] = a] /\ a \in JobSet /\ a.pc = "queued"
  BY <1>2, AgainOK DEF IInv
<1>4. PICK q : q = [a EXCEPT !.stalled = TRUE] OBVIOUS
<1>5. q \in JobSet /\ q.pc = "queued" BY <1>3, <1>4 DEF JobSet
<1>6. queue' = [queue EXCEPT ![j] = q] BY <1>3, <1>4 DEF IInv, QueueOK
<1> QED BY <1>1, <1>5, <1>6, JobStep
-----------------------------------------------------------------------------
(***************************************************************************)
(* Every step, and the theorems.                                           *)
(***************************************************************************)
LEMMA NextOK == IInv /\ [OrderNext]_orderVars => IInv'
<1> SUFFICES ASSUME IInv, [OrderNext]_orderVars PROVE IInv' OBVIOUS
<1>0. CASE HourPasses
  <2>1. OrderTypeOK' /\ Grows BY <1>0 DEF HourPasses, payment, answers, IInv, OrderTypeOK, Grows
  <2> QED BY <1>0, <2>1, QuietStep DEF HourPasses
<1>1. CASE EditCart BY <1>1, CartStep
<1>2. ASSUME NEW p \in Payments,
             \/ CreateCheckoutOrder(p) \/ CustomerPays(p) \/ ShopAdds(p) \/ ShopReturns(p)
      PROVE  IInv'
  BY <1>2, CheckoutStep, PaysStep, ShopAddsStep, ShopReturnsStep
<1>3. ASSUME NEW d \in Deliveries, ReceiveWebhook(d) \/ ReceiveAgain(d)
      PROVE  IInv'
  BY <1>3, ReceiveStep, ReceiveAgainStep
<1>4. ASSUME NEW j \in Jobs, Process(j) \/ JobStalls(j)
      PROVE  IInv'
  BY <1>4, ReadsRowStep, ReadsOrderStep, AddsPaymentStep, SavesRowStep, FailsStep, StallsStep
     DEF Process
<1>5. CASE UNCHANGED orderVars
  <2>1. OrderTypeOK' BY <1>5 DEF IInv, OrderTypeOK, orderVars, answers, ops
  <2> QED BY <1>5, <2>1, QuietStep DEF Grows, orderVars, ops
<1> QED BY <1>0, <1>1, <1>2, <1>3, <1>4, <1>5 DEF OrderNext

\* Every reachable order, payment, delivery and acknowledgement is well typed; a
\* row's attempts never exceed MAX_ATTEMPTS, however many jobs write them.
THEOREM TypeCorrect == OrderSpec => []OrderTypeOK
<1>1. IInv => OrderTypeOK BY DEF IInv
<1> QED BY InitOK, NextOK, <1>1, PTL DEF OrderSpec

\* A delivery that was processed or ignored has its payment recorded on the order
\* or in front of an operator, by an alert of its own or one of the order that was
\* sent within the hour before (reconcileEvent, notify): for any number of payments, of deliveries of one
\* payment and of jobs that run the same row at the same time.
THEOREM DecisionsCorrect == OrderSpec => []DecidedIsAccounted
<1>1. IInv => DecidedIsAccounted BY DEF IInv
<1> QED BY InitOK, NextOK, <1>1, PTL DEF OrderSpec

-----------------------------------------------------------------------------
(***************************************************************************)
(* Deliveries that are not decided.  A run that fails counts itself in the *)
(* row, so that the last one decides it: as long as the delivery never had *)
(* another job, which could put an older count back.                       *)
(***************************************************************************)
JobsOfDoubled ==
  \A i, j \in Jobs :
    queue[i] # NoJob /\ queue[j] # NoJob /\ queue[i].d = queue[j].d =>
      i = j \/ queue[i].d \in doubled

RunsAreCounted ==
  \A j \in Jobs : queue[j] # NoJob /\ queue[j].d \notin doubled =>
    /\ queue[j].tries <= inbox[queue[j].d].attempts + 1
    /\ queue[j].pc \in {"read", "adding"} => queue[j].tries <= queue[j].attempt

UnknownIsUnacked == \A d \in Deliveries : inbox[d].status = "none" => d \notin acked

OwedInv == IInv /\ JobsOfDoubled /\ RunsAreCounted /\ UnknownIsUnacked /\ PendingIsOwed

\* What there is of a job is told from NoJob by its pc.
LEMMA JobOrNone ==
  ASSUME QueueOK, NEW j \in Jobs
  PROVE  /\ queue[j] # NoJob <=> queue[j].pc # "none"
         /\ queue[j] # NoJob => queue[j] \in JobSet
BY DEF QueueOK, NoJob, JobSet

\* What a job moves to keeps the jobs apart, when it stays a job of its delivery.
LEMMA DoubledStays ==
  ASSUME IInv, JobsOfDoubled, NEW j \in Jobs, queue[j] # NoJob,
         NEW q \in {NoJob} \cup JobSet, queue' = [queue EXCEPT ![j] = q],
         q # NoJob => q.d = queue[j].d, UNCHANGED doubled
  PROVE  JobsOfDoubled'
<1>1. queue'[j] = q /\ \A i \in Jobs \ {j} : queue'[i] = queue[i]
  BY DEF IInv, QueueOK
<1> QED
  BY <1>1 DEF JobsOfDoubled

\* A job moves within its runs, its row stays.
LEMMA OwedJobStep ==
  ASSUME OwedInv, IInv', NEW j \in Jobs, queue[j] # NoJob, NEW q \in JobSet,
         queue' = [queue EXCEPT ![j] = q], UNCHANGED <<inbox, answers>>,
         q.d = queue[j].d, q.tries = queue[j].tries,
         q.d \notin doubled /\ q.pc \in {"read", "adding"} => q.tries <= q.attempt
  PROVE  OwedInv'
<1>0. /\ q # NoJob /\ queue \in [Jobs -> {NoJob} \cup JobSet]
      /\ UNCHANGED acked /\ UNCHANGED doubled
  BY DEF JobSet, NoJob, OwedInv, IInv, QueueOK, answers
<1>1. queue'[j] = q /\ \A i \in Jobs \ {j} : queue'[i] = queue[i]
  BY <1>0
<1>2. RunsAreCounted'
  BY <1>0, <1>1 DEF OwedInv, RunsAreCounted
<1>3. UnknownIsUnacked'
  BY <1>0 DEF OwedInv, UnknownIsUnacked
<1>4. PendingIsOwed'
  BY <1>0, <1>1 DEF OwedInv, PendingIsOwed, HasJob
<1>5. JobsOfDoubled'
  BY <1>0, DoubledStays DEF OwedInv
<1> QED
  BY <1>2, <1>3, <1>4, <1>5 DEF OwedInv

\* A job ends or is queued again, and its row is written: decided, or with the run
\* that failed counted.
LEMMA OwedRowStep ==
  ASSUME OwedInv, IInv', NEW j \in Jobs, queue[j] # NoJob,
         NEW q \in {NoJob} \cup JobSet, queue' = [queue EXCEPT ![j] = q], UNCHANGED answers,
         NEW r, inbox' = [inbox EXCEPT ![queue[j].d] = r], r.status # "none",
         queue[j].d \notin doubled /\ q = NoJob => r.status # "pending",
         q # NoJob => q.d = queue[j].d /\ q.pc = "queued",
         queue[j].d \notin doubled /\ q # NoJob => q.tries <= r.attempts + 1
  PROVE  OwedInv'
<1>0. /\ queue \in [Jobs -> {NoJob} \cup JobSet] /\ queue[j].d \in Deliveries
      /\ \E S : inbox \in [Deliveries -> S]
      /\ UNCHANGED acked /\ UNCHANGED doubled
  BY JobOrNone DEF OwedInv, IInv, QueueOK, OrderTypeOK, JobSet, answers
<1>1. /\ queue'[j] = q /\ \A i \in Jobs \ {j} : queue'[i] = queue[i]
      /\ inbox'[queue[j].d] = r
      /\ \A d \in Deliveries \ {queue[j].d} : inbox'[d] = inbox[d]
  BY <1>0
<1>2. RunsAreCounted'
  <2> SUFFICES ASSUME NEW i \in Jobs, queue'[i] # NoJob, queue'[i].d \notin doubled
               PROVE  /\ queue'[i].tries <= inbox'[queue'[i].d].attempts + 1
                      /\ queue'[i].pc \in {"read", "adding"} =>
                           queue'[i].tries <= queue'[i].attempt
    BY <1>0 DEF RunsAreCounted
  <2>1. CASE i = j
    BY <1>1, <2>1
  <2>2. CASE i # j
    <3>1. queue[i] # NoJob /\ queue'[i] = queue[i] /\ queue[i].d # queue[j].d
      BY <1>1, <2>2 DEF OwedInv, JobsOfDoubled
    <3>2. queue[i].d \in Deliveries
      BY <3>1, JobOrNone DEF OwedInv, IInv, JobSet
    <3> QED
      BY <1>1, <3>1, <3>2 DEF OwedInv, RunsAreCounted
  <2> QED
    BY <2>1, <2>2
<1>3. UnknownIsUnacked'
  BY <1>0, <1>1 DEF OwedInv, UnknownIsUnacked
<1>4. PendingIsOwed'
  <2> SUFFICES ASSUME NEW d \in Deliveries \ doubled, inbox'[d].status = "pending", d \in acked
               PROVE  \E i \in Jobs : queue'[i] # NoJob /\ queue'[i].d = d
    BY <1>0 DEF PendingIsOwed, HasJob
  <2>1. CASE d = queue[j].d
    BY <1>1, <2>1
  <2>2. CASE d # queue[j].d
    <3>1. PICK i \in Jobs : queue[i] # NoJob /\ queue[i].d = d
      BY <1>1, <2>2 DEF OwedInv, PendingIsOwed, HasJob
    <3> QED
      BY <1>1, <2>2, <3>1
  <2> QED
    BY <2>1, <2>2
<1>5. JobsOfDoubled'
  BY <1>0, DoubledStays DEF OwedInv
<1> QED
  BY <1>2, <1>3, <1>4, <1>5 DEF OwedInv

\* A delivery comes in, is persisted at most, and gets a job or is not acknowledged.
LEMMA OwedReceiveStep ==
  ASSUME OwedInv, IInv', NEW d \in Deliveries, ReceiveWebhook(d) \/ ReceiveAgain(d)
  PROVE  OwedInv'
<1> DEFINE Taken == /\ \E j \in Jobs : queue[j] = NoJob /\ queue' = [queue EXCEPT ![j] = NewJob(d)]
                    /\ acked' = acked \cup {d}
                    /\ doubled' = IF HasJob(d) THEN doubled \cup {d} ELSE doubled
<1>0. /\ queue \in [Jobs -> {NoJob} \cup JobSet]
      /\ \E S : inbox \in [Deliveries -> S]
  BY DEF OwedInv, IInv, QueueOK, OrderTypeOK
<1>1. /\ inbox'[d].status # "none" /\ inbox'[d].attempts = inbox[d].attempts
      /\ \A e \in Deliveries \ {d} : inbox'[e] = inbox[e]
      /\ inbox[d].status = "none" => d \notin acked
      /\ inbox' # inbox => inbox[d].status = "none"
  <2>1. CASE ReceiveWebhook(d)
    <3>1. inbox[d].status = "none" /\ d \notin acked
      BY <2>1 DEF ReceiveWebhook, OwedInv, UnknownIsUnacked
    <3>2. PICK b \in BOOLEAN : inbox' = [inbox EXCEPT ![d].status = "pending", ![d].names = b]
      BY <2>1 DEF ReceiveWebhook
    <3>3. inbox[d] \in [status : {"none", "pending", "processed", "ignored", "failed"},
                       attempts : 0 .. MAX_ATTEMPTS, names : BOOLEAN]
      BY DEF OwedInv, IInv, OrderTypeOK
    <3>4. PICK x : x = [inbox[d] EXCEPT !.status = "pending", !.names = b]
      OBVIOUS
    <3>5. inbox' = [inbox EXCEPT ![d] = x] /\ x.status = "pending" /\ x.attempts = inbox[d].attempts
      BY <1>0, <3>2, <3>3, <3>4
    <3> QED
      BY <1>0, <3>1, <3>5
  <2>2. CASE ReceiveAgain(d)
    BY <2>2 DEF ReceiveAgain, OwedInv, UnknownIsUnacked
  <2> QED
    BY <2>1, <2>2
<1>2. \/ Taken
      \/ UNCHANGED queue /\ UNCHANGED acked /\ UNCHANGED doubled
      \/ /\ UNCHANGED queue /\ UNCHANGED doubled
         /\ acked' = acked \cup {d} /\ inbox'[d].status # "pending"
  BY <1>1 DEF ReceiveWebhook, ReceiveAgain, Enqueue, answers
<1>3. CASE Taken
  <2>1. PICK j \in Jobs : queue[j] = NoJob /\ queue' = [queue EXCEPT ![j] = NewJob(d)]
    BY <1>3
  <2>2. /\ queue'[j] = NewJob(d) /\ \A i \in Jobs \ {j} : queue'[i] = queue[i]
        /\ NewJob(d) # NoJob /\ NewJob(d).d = d /\ NewJob(d).tries = 1 /\ NewJob(d).pc = "queued"
    BY <1>0, <2>1 DEF NewJob, NoJob
  <2>3. RunsAreCounted'
    <3> SUFFICES ASSUME NEW i \in Jobs, queue'[i] # NoJob, queue'[i].d \notin doubled'
                 PROVE  /\ queue'[i].tries <= inbox'[queue'[i].d].attempts + 1
                        /\ queue'[i].pc \in {"read", "adding"} =>
                             queue'[i].tries <= queue'[i].attempt
      BY DEF RunsAreCounted
    <3>1. CASE i = j
      <4>1. inbox[d].attempts \in Nat
        BY DEF OwedInv, IInv, OrderTypeOK
      <4> QED
        BY <1>1, <2>2, <3>1, <4>1
    <3>2. CASE i # j
      <4>1. queue'[i] = queue[i] /\ queue[i].d \in Deliveries /\ queue[i].d \notin doubled
        BY <1>3, <2>2, <3>2, JobOrNone DEF OwedInv, IInv, JobSet
      <4>2. inbox'[queue[i].d].attempts = inbox[queue[i].d].attempts
        BY <1>1, <4>1
      <4> QED
        BY <4>1, <4>2 DEF OwedInv, RunsAreCounted
    <3> QED
      BY <3>1, <3>2
  <2>4. UnknownIsUnacked'
    BY <1>1, <1>3 DEF OwedInv, UnknownIsUnacked
  <2>5. PendingIsOwed'
    <3> SUFFICES ASSUME NEW e \in Deliveries \ doubled', inbox'[e].status = "pending", e \in acked'
                 PROVE  \E i \in Jobs : queue'[i] # NoJob /\ queue'[i].d = e
      BY DEF PendingIsOwed, HasJob
    <3>1. CASE e = d
      BY <2>2, <3>1
    <3>2. CASE e # d
      <4>1. PICK i \in Jobs : queue[i] # NoJob /\ queue[i].d = e
        BY <1>1, <1>3, <3>2 DEF OwedInv, PendingIsOwed, HasJob
      <4> QED
        BY <2>1, <2>2, <4>1
    <3> QED
      BY <3>1, <3>2
  <2>6. JobsOfDoubled'
    BY <1>3, <2>1, <2>2 DEF OwedInv, JobsOfDoubled, HasJob
  <2> QED
    BY <2>3, <2>4, <2>5, <2>6 DEF OwedInv
<1>4. CASE /\ UNCHANGED queue /\ UNCHANGED doubled
           /\ UNCHANGED acked \/ (acked' = acked \cup {d} /\ inbox'[d].status # "pending")
  <2>1. RunsAreCounted'
    <3> SUFFICES ASSUME NEW i \in Jobs, queue[i] # NoJob, queue[i].d \notin doubled
                 PROVE  /\ queue[i].tries <= inbox'[queue[i].d].attempts + 1
                        /\ queue[i].pc \in {"read", "adding"} => queue[i].tries <= queue[i].attempt
      BY <1>4 DEF RunsAreCounted
    <3>1. queue[i].d \in Deliveries
      BY JobOrNone DEF OwedInv, IInv, JobSet
    <3>2. inbox'[queue[i].d].attempts = inbox[queue[i].d].attempts
      BY <1>1, <3>1
    <3> QED
      BY <3>2 DEF OwedInv, RunsAreCounted
  <2>2. UnknownIsUnacked'
    BY <1>1, <1>4 DEF OwedInv, UnknownIsUnacked
  <2>3. PendingIsOwed'
    <3> SUFFICES ASSUME NEW e \in Deliveries \ doubled, inbox'[e].status = "pending", e \in acked'
                 PROVE  \E i \in Jobs : queue[i] # NoJob /\ queue[i].d = e
      BY <1>4 DEF PendingIsOwed, HasJob
    <3>1. e \in acked /\ inbox[e].status = "pending"
      BY <1>0, <1>1, <1>4
    <3> QED
      BY <3>1 DEF OwedInv, PendingIsOwed, HasJob
  <2>4. JobsOfDoubled'
    BY <1>4 DEF OwedInv, JobsOfDoubled
  <2> QED
    BY <2>1, <2>2, <2>3, <2>4 DEF OwedInv
<1> QED
  BY <1>2, <1>3, <1>4

LEMMA OwedInductive ==
  ASSUME OwedInv, [OrderNext]_orderVars
  PROVE  OwedInv'
<1>0. IInv' /\ QueueOK /\ queue \in [Jobs -> {NoJob} \cup JobSet]
  BY NextOK DEF OwedInv, IInv, QueueOK
<1>1. CASE UNCHANGED <<inbox, answers, queue>>
  BY <1>0, <1>1 DEF OwedInv, JobsOfDoubled, RunsAreCounted, UnknownIsUnacked, PendingIsOwed,
                    HasJob, answers
<1>2. CASE EditCart \/ HourPasses \/ UNCHANGED orderVars
  BY <1>1, <1>2 DEF EditCart, HourPasses, orderVars
<1>3. ASSUME NEW p \in Payments,
             \/ CreateCheckoutOrder(p) \/ CustomerPays(p) \/ ShopAdds(p) \/ ShopReturns(p)
      PROVE  OwedInv'
  BY <1>1, <1>3 DEF CreateCheckoutOrder, CustomerPays, ShopAdds, ShopReturns
<1>4. ASSUME NEW d \in Deliveries, ReceiveWebhook(d) \/ ReceiveAgain(d) PROVE OwedInv'
  BY <1>0, <1>4, OwedReceiveStep
<1>5. ASSUME NEW j \in Jobs, JobReadsRow(j) PROVE OwedInv'
  <2>0. /\ queue[j] # NoJob /\ queue[j] \in JobSet /\ queue[j].d \in Deliveries
        /\ queue'[j] \in {NoJob} \cup JobSet
    BY <1>0, <1>5, JobIs DEF JobReadsRow, JobSet, NoJob, IInv, QueueOK
  <2>1. CASE inbox[queue[j].d].status = "pending"
    <3>1. PICK q : q = [queue[j] EXCEPT !.pc = "read",
                                        !.attempt = inbox[queue[j].d].attempts + 1]
      OBVIOUS
    <3>2. queue' = [queue EXCEPT ![j] = q]
      BY <1>0, <1>5, <2>1, <3>1 DEF JobReadsRow
    <3>3. /\ q.pc = "read" /\ q.d = queue[j].d /\ q.tries = queue[j].tries
          /\ q.attempt = inbox[queue[j].d].attempts + 1
      BY <2>0, <3>1 DEF JobSet
    <3>4. q \in JobSet
      BY <1>0, <2>0, <3>2, <3>3 DEF NoJob
    <3>5. q.d \notin doubled => q.tries <= q.attempt
      BY <2>0, <3>3 DEF OwedInv, RunsAreCounted
    <3> QED
      BY <1>0, <1>5, <2>0, <3>2, <3>3, <3>4, <3>5, OwedJobStep DEF JobReadsRow
  <2>2. CASE inbox[queue[j].d].status # "pending"
    <3>1. /\ queue' = [queue EXCEPT ![j] = NoJob] /\ UNCHANGED <<inbox, acked, doubled>>
      BY <1>5, <2>2 DEF JobReadsRow, Ends, answers
    <3>2. queue'[j] = NoJob /\ \A i \in Jobs \ {j} : queue'[i] = queue[i]
      BY <1>0, <3>1
    <3>3. RunsAreCounted' /\ UnknownIsUnacked'
      BY <3>1, <3>2 DEF OwedInv, RunsAreCounted, UnknownIsUnacked
    <3>4. PendingIsOwed'
      BY <2>2, <3>1, <3>2 DEF OwedInv, PendingIsOwed, HasJob
    <3>5. JobsOfDoubled'
      BY <3>1, <3>2 DEF OwedInv, JobsOfDoubled
    <3> QED
      BY <1>0, <3>3, <3>4, <3>5 DEF OwedInv
  <2> QED
    BY <2>1, <2>2
<1>6. ASSUME NEW j \in Jobs, JobReadsOrder(j) \/ JobAddsPayment(j) PROVE OwedInv'
  <2>0. queue[j] # NoJob /\ queue[j] \in JobSet
    BY <1>0, <1>6, JobIs DEF JobReadsOrder, JobAddsPayment, NoJob
  <2>1. PICK p \in {"adding", "ignored", "processed"} : \E n :
          queue' = [queue EXCEPT ![j] = [[@ EXCEPT !.pc = p] EXCEPT !.total = n]]
    <3>1. CASE queue' = [queue EXCEPT ![j].pc = "adding", ![j].total = order.total]
      BY <1>0, <3>1
    <3>2. CASE queue' = [queue EXCEPT ![j].pc = "ignored"] \/ queue' = [queue EXCEPT ![j].pc = "processed"]
      <4>1. \A p \in {"ignored", "processed"} :
              [queue[j] EXCEPT !.pc = p] = [[queue[j] EXCEPT !.pc = p] EXCEPT !.total = queue[j].total]
        BY <2>0 DEF JobSet
      <4> QED
        BY <1>0, <3>2, <4>1
    <3> QED
      BY <1>6, <3>1, <3>2 DEF JobReadsOrder, JobAddsPayment
  <2>n. PICK n : queue' = [queue EXCEPT ![j] = [[@ EXCEPT !.pc = p] EXCEPT !.total = n]]
    BY <2>1
  <2>2. PICK q : q = [[queue[j] EXCEPT !.pc = p] EXCEPT !.total = n]
    OBVIOUS
  <2>3. /\ q.pc = p /\ q.d = queue[j].d /\ q.tries = queue[j].tries
        /\ q.attempt = queue[j].attempt
    BY <2>0, <2>2 DEF JobSet
  <2>4. queue' = [queue EXCEPT ![j] = q]
    BY <1>0, <2>n, <2>2
  <2>5. q \in JobSet
    <3>1. queue'[j] = q /\ queue' \in [Jobs -> {NoJob} \cup JobSet]
      BY <1>0, <2>4 DEF IInv, QueueOK
    <3> QED
      BY <2>3, <3>1 DEF NoJob
  <2>6. q.d \notin doubled /\ q.pc \in {"read", "adding"} => q.tries <= q.attempt
    <3>1. queue[j].pc \in {"read", "adding"}
      BY <1>6 DEF JobReadsOrder, JobAddsPayment
    <3> QED
      BY <2>0, <2>3, <3>1 DEF OwedInv, RunsAreCounted
  <2> QED
    BY <1>0, <1>6, <2>0, <2>3, <2>4, <2>5, <2>6, OwedJobStep DEF JobReadsOrder, JobAddsPayment
<1>7. ASSUME NEW j \in Jobs, JobSavesRow(j) PROVE OwedInv'
  <2>0. queue[j] # NoJob
    BY <1>7 DEF JobSavesRow, NoJob
  <2>1. PICK r : r = [inbox[queue[j].d] EXCEPT !.status = queue[j].pc, !.attempts = queue[j].attempt]
    OBVIOUS
  <2>2. /\ inbox' = [inbox EXCEPT ![queue[j].d] = r] /\ r.status \in {"processed", "ignored"}
        /\ queue' = [queue EXCEPT ![j] = NoJob] /\ UNCHANGED answers
    <3>1. queue[j].d \in Deliveries
      BY <1>0, <2>0, JobOrNone DEF JobSet
    <3> QED
      BY <1>7, <2>1, <3>1 DEF JobSavesRow, Ends, OwedInv, IInv, OrderTypeOK
  <2> QED
    BY <1>0, <2>0, <2>2, OwedRowStep
<1>8. ASSUME NEW j \in Jobs, JobFails(j) PROVE OwedInv'
  <2>0. /\ queue[j] # NoJob /\ queue[j] \in JobSet /\ queue[j].d \in Deliveries
        /\ queue[j].d \notin doubled => queue[j].tries <= queue[j].attempt
        /\ queue[j].tries \in 1 .. MAX_ATTEMPTS /\ queue[j].attempt \in 0 .. MAX_ATTEMPTS
    BY <1>0, <1>8, JobIs DEF JobFails, NoJob, OwedInv, RunsAreCounted, JobSet
  <2>r. PICK r : r = [inbox[queue[j].d] EXCEPT
                        !.status = IF queue[j].attempt >= MAX_ATTEMPTS THEN "failed" ELSE "pending",
                        !.attempts = queue[j].attempt]
    OBVIOUS
  <2>1. /\ r.status = (IF queue[j].attempt >= MAX_ATTEMPTS THEN "failed" ELSE "pending")
        /\ r.attempts = queue[j].attempt
    BY <2>0, <2>r DEF OwedInv, IInv, OrderTypeOK
  <2>2. inbox' = [inbox EXCEPT ![queue[j].d] = r] /\ UNCHANGED answers
    BY <1>8, <2>r DEF JobFails
  <2>3. CASE queue[j].tries < MAX_ATTEMPTS
    <3>1. PICK a : a = Again(j, "queued")[j]
      OBVIOUS
    <3>2. /\ Again(j, "queued") = [queue EXCEPT ![j] = a]
          /\ a \in JobSet /\ a.pc = "queued" /\ a.tries = queue[j].tries
      BY <1>0, <1>8, <3>1, AgainOK DEF JobFails
    <3>3. a.d = queue[j].d
      BY <1>0, <2>0, <3>1 DEF Again, NewJob
    <3>4. PICK q : q = [a EXCEPT !.tries = @ + 1]
      OBVIOUS
    <3>5. q \in JobSet /\ q.d = queue[j].d /\ q.pc = "queued" /\ q.tries = queue[j].tries + 1
      BY <2>0, <2>3, <3>2, <3>3, <3>4, OrderAssumption DEF JobSet
    <3>6. queue' = [queue EXCEPT ![j] = q] /\ q # NoJob
      BY <1>0, <1>8, <2>3, <3>2, <3>4, <3>5 DEF JobFails, NoJob
    <3>7. (queue[j].d \notin doubled => q.tries <= r.attempts + 1) /\ r.status # "none"
      BY <2>0, <2>1, <3>5
    <3> QED
      BY <1>0, <2>0, <2>2, <3>5, <3>6, <3>7, OwedRowStep
  <2>4. CASE ~(queue[j].tries < MAX_ATTEMPTS)
    <3>1. queue' = [queue EXCEPT ![j] = NoJob]
      BY <1>8, <2>4 DEF JobFails, Ends
    <3>2. (queue[j].d \notin doubled => r.status = "failed") /\ r.status # "none"
      BY <2>0, <2>1, <2>4, OrderAssumption
    <3> QED
      BY <1>0, <2>0, <2>2, <3>1, <3>2, OwedRowStep
  <2> QED
    BY <2>3, <2>4
<1>9. ASSUME NEW j \in Jobs, JobStalls(j) PROVE OwedInv'
  <2>0. queue[j] # NoJob /\ queue[j] \in JobSet
    BY <1>0, <1>9, JobIs DEF JobStalls, NoJob
  <2>1. PICK a : a = Again(j, "queued")[j]
    OBVIOUS
  <2>2. /\ Again(j, "queued") = [queue EXCEPT ![j] = a]
        /\ a \in JobSet /\ a.pc = "queued" /\ a.tries = queue[j].tries
    BY <1>0, <1>9, <2>1, AgainOK DEF JobStalls
  <2>3. a.d = queue[j].d
    BY <1>0, <2>0, <2>1 DEF Again, NewJob
  <2>4. PICK q : q = [a EXCEPT !.stalled = TRUE]
    OBVIOUS
  <2>5. q \in JobSet /\ q.d = queue[j].d /\ q.pc = "queued" /\ q.tries = queue[j].tries
    BY <2>2, <2>3, <2>4 DEF JobSet
  <2>6. queue' = [queue EXCEPT ![j] = q]
    BY <1>0, <1>9, <2>2, <2>4 DEF JobStalls
  <2> QED
    BY <1>0, <1>9, <2>0, <2>5, <2>6, OwedJobStep DEF JobStalls
<1> QED
  BY <1>2, <1>3, <1>4, <1>5, <1>6, <1>7, <1>8, <1>9 DEF OrderNext, Process

LEMMA OwedInit == OrderInit => OwedInv
<1> SUFFICES ASSUME OrderInit PROVE OwedInv
  OBVIOUS
<1>1. acked = {} /\ \A d \in Deliveries : inbox[d].status = "none"
  BY DEF OrderInit
<1>2. \A j \in Jobs : queue[j] = NoJob
  BY DEF OrderInit
<1> QED
  BY <1>1, <1>2, InitOK
     DEF OwedInv, JobsOfDoubled, RunsAreCounted, UnknownIsUnacked, PendingIsOwed

\* A persisted delivery that is not decided has a job that will look at it, or
\* Razorpay has no 2xx for it, unless the delivery was repeated while its job was
\* there (the controller's enqueue and its answer, failed runs, stalled jobs).
THEOREM OwedCorrect == OrderSpec => []PendingIsOwed
<1>1. OrderInit => OwedInv
  BY OwedInit
<1>2. OwedInv /\ [OrderNext]_orderVars => OwedInv'
  BY OwedInductive
<1>3. OwedInv => PendingIsOwed
  BY DEF OwedInv
<1> QED
  BY <1>1, <1>2, <1>3, PTL DEF OrderSpec

-----------------------------------------------------------------------------
(***************************************************************************)
(* Baseline refreshes.  Between the version a refresh was scheduled on and *)
(* its own write of the next one nobody else advances, and once it has     *)
(* written, the version it was scheduled on is gone: a retry sees itself   *)
(* superseded, or its own generation.                                      *)
(***************************************************************************)
Claims(g) ==
  /\ refresh[g].pc = "none" => refresh[g].advanced = 0
  /\ refresh[g].claimed > 0 =>
       /\ refresh[g].advanced \in {0, 1}
       /\ refresh[g].advanced = 1 => store.version > refresh[g].claimed
       /\ refresh[g].pc \in {"mean", "version"} =>
            refresh[g].advanced = 0 /\ refresh[g].next = refresh[g].claimed + 1

RefreshInv == StoreOK /\ RefreshOK /\ \A g \in Generations : Claims(g)

\* until an older version is put back
Recounted == lowered \/ RefreshInv

\* A step that writes no version and moves no refresh but g, to a place before
\* the write only from there, keeps what each of them claims.
LEMMA ClaimsStep ==
  ASSUME RefreshInv, NEW g \in Generations, NEW r,
         refresh' = [refresh EXCEPT ![g] = r],
         r \in [pc : {"queued", "mean", "version", "generation", "check", "enqueue", "done"},
                claimed : Nat, next : Nat, wrote : BOOLEAN, advanced : Nat],
         r.claimed = refresh[g].claimed, r.advanced = refresh[g].advanced,
         r.pc \in {"mean", "version"} => refresh[g].pc = "mean" /\ r.next = refresh[g].next,
         store'.version = store.version,
         StoreOK'
  PROVE  RefreshInv'
<1>1. refresh' \in [Generations ->
        [pc : {"none", "queued", "mean", "version", "generation", "check", "enqueue", "done"},
         claimed : Nat, next : Nat, wrote : BOOLEAN, advanced : Nat]]
  BY DEF RefreshInv, RefreshOK, StoreOK
<1>2. ASSUME NEW h \in Generations PROVE Claims(h)'
  <2>1. CASE h = g
    <3>1. refresh'[h] = r
      BY <2>1 DEF RefreshInv, RefreshOK, StoreOK
    <3> QED
      BY <2>1, <3>1 DEF RefreshInv, Claims
  <2>2. CASE h # g
    <3>1. refresh'[h] = refresh[h]
      BY <2>2 DEF RefreshInv, RefreshOK, StoreOK
    <3> QED
      BY <3>1 DEF RefreshInv, Claims
  <2> QED
    BY <2>1, <2>2
<1> QED
  BY <1>1, <1>2 DEF RefreshInv, RefreshOK, StoreOK

LEMMA RefreshStep ==
  ASSUME RefreshInv, ~lowered', NEW g \in Generations, Refresh(g) \/ Schedule(g) \/ RefreshFails(g)
  PROVE  RefreshInv'
<1>0. /\ store.version \in Nat /\ refresh[g].claimed \in Nat /\ refresh[g].advanced \in Nat
      /\ Claims(g) /\ RefreshOK /\ StoreOK
  BY DEF RefreshInv, RefreshOK, StoreOK
<1>1. CASE Schedule(g)
  <2>1. refresh' = [refresh EXCEPT ![g] = [@ EXCEPT !.pc = "queued", !.claimed = store.version]]
        /\ store' = store /\ refresh[g].advanced = 0
    BY <1>0, <1>1 DEF Schedule, Claims
  <2>2. ASSUME NEW h \in Generations PROVE Claims(h)'
    BY <1>0, <2>1 DEF Claims, RefreshInv, RefreshOK, StoreOK
  <2> QED
    BY <1>0, <2>1, <2>2 DEF RefreshInv, RefreshOK, StoreOK
<1>2. CASE RefreshReads(g)
  <2>1. store' = store
    BY <1>2 DEF RefreshReads, Documents
  <2>2. CASE refresh' = [refresh EXCEPT ![g].pc = "enqueue", ![g].next = store.version]
    <3>1. PICK r : r = [refresh[g] EXCEPT !.pc = "enqueue", !.next = store.version]
      OBVIOUS
    <3>2. refresh' = [refresh EXCEPT ![g] = r]
      BY <1>0, <2>2, <3>1 DEF RefreshOK, StoreOK
    <3> QED
      BY <1>0, <2>1, <3>1, <3>2, ClaimsStep DEF RefreshOK, StoreOK
  <2>3. CASE Goes(g, "done")
    BY <1>0, <2>1, <2>3, ClaimsStep DEF Goes, RefreshOK, StoreOK
  <2>4. CASE ~Superseded(g)
             /\ refresh' = [refresh EXCEPT ![g].pc = "mean", ![g].next = store.version + 1]
    <3>1. refresh[g].claimed > 0 =>
            refresh[g].advanced = 0 /\ store.version = refresh[g].claimed
      BY <1>0, <2>4 DEF Superseded, Claims
    <3>0. PICK n \in Nat : n = store.version + 1
      BY <1>0
    <3>2. PICK r : r = [refresh[g] EXCEPT !.pc = "mean", !.next = n]
      OBVIOUS
    <3>3. /\ refresh' = [refresh EXCEPT ![g] = r]
          /\ r.pc = "mean" /\ r.next = n
          /\ r.claimed = refresh[g].claimed /\ r.advanced = refresh[g].advanced
      BY <1>0, <2>4, <3>0, <3>2 DEF RefreshOK, StoreOK
    <3>4. ASSUME NEW h \in Generations PROVE Claims(h)'
      <4>1. CASE h = g
        BY <1>0, <2>1, <3>0, <3>1, <3>3, <4>1 DEF Claims, RefreshOK, StoreOK
      <4>2. CASE h # g
        BY <2>1, <3>3, <4>2 DEF Claims, RefreshInv, RefreshOK, StoreOK
      <4> QED
        BY <4>1, <4>2
    <3>5. RefreshOK' /\ StoreOK'
      <4>1. r \in [pc : {"mean"}, claimed : Nat, next : Nat, wrote : BOOLEAN, advanced : Nat]
        BY <1>0, <3>2 DEF RefreshOK, StoreOK
      <4> QED
        BY <1>0, <2>1, <3>3, <4>1 DEF RefreshOK, StoreOK
    <3> QED
      BY <3>4, <3>5 DEF RefreshInv
  <2>5. \/ refresh' = [refresh EXCEPT ![g].pc = "enqueue", ![g].next = store.version]
        \/ Goes(g, "done")
        \/ /\ ~Superseded(g)
           /\ refresh' = [refresh EXCEPT ![g].pc = "mean", ![g].next = store.version + 1]
    BY <1>2, Zenon DEF RefreshReads
  <2> QED
    BY <2>2, <2>3, <2>4, <2>5
<1>3. CASE WriteMean(g)
  <2>1. PICK r : r = [refresh[g] EXCEPT !.pc = "version", !.wrote = TRUE]
    OBVIOUS
  <2>2. refresh' = [refresh EXCEPT ![g] = r] /\ store' = [store EXCEPT !.mean = g]
    BY <1>0, <1>3, <2>1 DEF WriteMean, RefreshOK, StoreOK
  <2>3. StoreOK' /\ store'.version = store.version
    BY <1>0, <2>2 DEF RefreshOK, StoreOK
  <2>4. /\ r \in [pc : {"version"}, claimed : Nat, next : Nat, wrote : BOOLEAN, advanced : Nat]
        /\ r.claimed = refresh[g].claimed /\ r.advanced = refresh[g].advanced
        /\ refresh[g].pc = "mean" /\ r.next = refresh[g].next
    BY <1>0, <1>3, <2>1 DEF WriteMean, RefreshOK, StoreOK
  <2> QED
    BY <2>2, <2>3, <2>4, ClaimsStep
<1>4. CASE WriteVersion(g)
  <2>0. PICK a \in Nat : a = refresh[g].advanced + 1
    BY <1>0
  <2>1. /\ store' = [store EXCEPT !.version = refresh[g].next]
        /\ refresh' = [refresh EXCEPT ![g] = [@ EXCEPT !.pc = "generation", !.advanced = a]]
    BY <1>0, <1>4, <2>0 DEF WriteVersion, RefreshOK, StoreOK
  <2>2. refresh[g].claimed > 0 =>
          refresh[g].advanced = 0 /\ refresh[g].next = refresh[g].claimed + 1
    BY <1>0, <1>4 DEF WriteVersion, Claims
  <2>3. /\ refresh[g].next \in Nat /\ store'.version = refresh[g].next
        /\ store'.version >= store.version
    BY <1>0, <1>4, <2>1 DEF WriteVersion, RefreshOK, StoreOK
  <2>4. ASSUME NEW h \in Generations PROVE Claims(h)'
    <3>1. CASE h = g
      <4>1. refresh'[h].pc = "generation" /\ refresh'[h].advanced = a
            /\ refresh'[h].claimed = refresh[g].claimed
        BY <1>0, <2>1, <3>1 DEF RefreshOK, StoreOK
      <4>2. refresh[g].claimed > 0 =>
              refresh'[h].advanced = 1 /\ store'.version > refresh[g].claimed
        BY <1>0, <2>0, <2>2, <2>3, <4>1
      <4> QED
        BY <4>1, <4>2 DEF Claims
    <3>2. CASE h # g
      <4>1. refresh'[h] = refresh[h] /\ refresh[h].claimed \in Nat /\ Claims(h)
        BY <1>0, <2>1, <3>2 DEF RefreshInv, RefreshOK, StoreOK
      <4> QED
        BY <1>0, <2>3, <4>1 DEF Claims
    <3> QED
      BY <3>1, <3>2
  <2>5. StoreOK'
    BY <1>0, <2>1, <2>3 DEF RefreshOK, StoreOK
  <2>6. RefreshOK' /\ StoreOK'
    BY <1>0, <2>1, <2>5 DEF RefreshOK, StoreOK
  <2> QED
    BY <2>4, <2>6 DEF RefreshInv
<1>5. CASE WriteGeneration(g)
  BY <1>0, <1>5, ClaimsStep DEF WriteGeneration, Goes, RefreshOK, StoreOK
<1>6. CASE CheckGeneration(g)
  BY <1>0, <1>6, ClaimsStep DEF CheckGeneration, Goes, RefreshOK, StoreOK
<1>7. CASE EnqueueReindex(g)
  BY <1>0, <1>7, ClaimsStep DEF EnqueueReindex, Goes, RefreshOK, StoreOK
<1>8. CASE RefreshFails(g)
  BY <1>0, <1>8, ClaimsStep DEF RefreshFails, Goes, RefreshOK, StoreOK
<1> QED
  BY <1>1, <1>2, <1>3, <1>4, <1>5, <1>6, <1>7, <1>8 DEF Refresh

LEMMA RefreshNext == RefreshInv /\ ~lowered' /\ [RankingNext]_rankingVars => RefreshInv'
<1> SUFFICES ASSUME RefreshInv, ~lowered', [RankingNext]_rankingVars PROVE RefreshInv'
  OBVIOUS
<1>1. CASE UNCHANGED <<store, refresh>>
  BY <1>1 DEF RefreshInv, RefreshOK, StoreOK, Claims
<1>2. ASSUME NEW s \in Listings, Change(s) \/ Announce(s) \/ Commit(s)
      PROVE  UNCHANGED <<store, refresh>>
  BY <1>2 DEF Change, Announce, Commit, baseline
<1>3. ASSUME NEW w \in Indexers, NEW job \in IndexJob, TakeIndexJob(w, job)
      PROVE  UNCHANGED <<store, refresh>>
  BY <1>3 DEF TakeIndexJob, Indexes, baseline
<1>4. ASSUME NEW w \in Indexers, Work(w) \/ IndexFails(w) PROVE UNCHANGED <<store, refresh>>
  BY <1>4 DEF Work, NextListing, ReadRow, Prune, ReadBaseline, WriteDocument, NoBaseline,
              IndexFails, Abandon, Indexed, Indexes, baseline
<1>5. ASSUME NEW g \in Generations, Refresh(g) \/ Schedule(g) \/ RefreshFails(g)
      PROVE  RefreshInv'
  BY <1>5, RefreshStep
<1>6. CASE UNCHANGED rankingVars
  BY <1>1, <1>6 DEF rankingVars
<1> QED
  BY <1>1, <1>2, <1>3, <1>4, <1>5, <1>6 DEF RankingNext

\* A version that was put back stays so in the history.
LEMMA LoweredStays == lowered /\ [RankingNext]_rankingVars => lowered'
<1> SUFFICES ASSUME lowered, [RankingNext]_rankingVars PROVE lowered'
  OBVIOUS
<1>1. CASE UNCHANGED rankingVars
  BY <1>1 DEF rankingVars
<1>2. ASSUME NEW s \in Listings, Change(s) \/ Announce(s) \/ Commit(s) PROVE lowered'
  BY <1>2 DEF Change, Announce, Commit, baseline
<1>3. ASSUME NEW w \in Indexers, NEW job \in IndexJob, TakeIndexJob(w, job) PROVE lowered'
  BY <1>3 DEF TakeIndexJob, Indexes, baseline
<1>4. ASSUME NEW w \in Indexers, Work(w) \/ IndexFails(w) PROVE lowered'
  BY <1>4 DEF Work, NextListing, ReadRow, Prune, ReadBaseline, WriteDocument, NoBaseline,
              IndexFails, Abandon, Indexed, Indexes, baseline
<1>5. ASSUME NEW g \in Generations, Refresh(g) \/ Schedule(g) \/ RefreshFails(g) PROVE lowered'
  BY <1>5 DEF Refresh, RefreshReads, WriteMean, WriteVersion, WriteGeneration,
              CheckGeneration, EnqueueReindex, Schedule, RefreshFails
<1> QED
  BY <1>1, <1>2, <1>3, <1>4, <1>5 DEF RankingNext

\* A refresh that knew the version it was scheduled on advances it at most once,
\* however often it dies and is run again and whichever others it meets, unless
\* one of them has put an older version back.
THEOREM AdvancesCorrect == RankingSpec => []AdvancesOnce
<1>1. RankingInit => Recounted
  BY DEF RankingInit, Recounted, RefreshInv, RefreshOK, StoreOK, Claims, NoRefresh
<1>2. Recounted /\ [RankingNext]_rankingVars => Recounted'
  BY RefreshNext, LoweredStays DEF Recounted
<1>3. Recounted => AdvancesOnce
  BY DEF Recounted, RefreshInv, RefreshOK, StoreOK, Claims, AdvancesOnce
<1> QED
  BY <1>1, <1>2, <1>3, PTL DEF RankingSpec

-----------------------------------------------------------------------------
(***************************************************************************)
(* The types of MarketplaceRanking.                                        *)
(***************************************************************************)
JobsOK == BagToSet(indexJobs) \subseteq
            [s : Listings, target : {0}] \cup [s : {Nobody}, target : Nat]
Knows(w) == /\ work[w].pc \in {"row", "prune", "baseline"} => work[w].s \in Listings
            /\ work[w].pc = "next" => work[w].target > 0

LEMMA RankingTypeParts ==
  RankingTypeOK <=> /\ public \cup pending \cup lost \cup behind \subseteq Listings
                    /\ late \subseteq Indexers /\ lowered \in BOOLEAN
                    /\ StoreOK /\ RefreshOK /\ WorkOK /\ index \in [Listings -> Baseline]
                    /\ JobsOK /\ \A w \in Indexers : Knows(w)
BY DEF RankingTypeOK, JobsOK, Knows

LEMMA AddOK ==
  ASSUME NEW job, JobsOK, indexJobs' = Add(job),
         job \in [s : Listings, target : {0}] \cup [s : {Nobody}, target : Nat]
  PROVE  JobsOK'
BY DEF JobsOK, Add, BagToSet, SetToBag, (+)

LEMMA TakeOK ==
  ASSUME NEW job, JobsOK, indexJobs' = indexJobs (-) SetToBag({job})
  PROVE  JobsOK'
BY DEF JobsOK, BagToSet, SetToBag, (-)

\* What an indexer may become.
WorkRecord ==
  [pc : {"idle", "next", "row", "prune", "baseline"}, target : Nat,
   todo : SUBSET Listings, s : Listings \cup {Nobody}, got : Baseline]
Sound(r) == /\ r \in WorkRecord
            /\ r.pc \in {"row", "prune", "baseline"} => r.s \in Listings
            /\ r.pc = "next" => r.target > 0

LEMMA WorkOf ==
  ASSUME RankingTypeOK, NEW w \in Indexers
  PROVE  Sound(work[w])
BY DEF RankingTypeOK, WorkOK, Sound, WorkRecord

LEMMA WorkStep ==
  ASSUME RankingTypeOK, NEW w \in Indexers, NEW r, Sound(r), work' = [work EXCEPT ![w] = r]
  PROVE  WorkOK' /\ \A v \in Indexers : Knows(v)'
<1>1. WorkOK'
  BY DEF RankingTypeOK, WorkOK, Sound, WorkRecord
<1>2. ASSUME NEW v \in Indexers PROVE Knows(v)'
  <2>1. work'[v] = IF v = w THEN r ELSE work[v]
    BY DEF RankingTypeOK, WorkOK
  <2> QED
    BY <2>1 DEF RankingTypeOK, Sound, Knows
<1> QED
  BY <1>1, <1>2

LEMMA IdleSound == Sound(Idle)
BY DEF Idle, NoDocument, Sound, WorkRecord, Baseline

\* A step of an indexer that leaves the store, the refreshes and the sessions.
LEMMA IndexerStep ==
  ASSUME RankingTypeOK, NEW w \in Indexers, NEW r, Sound(r), work' = [work EXCEPT ![w] = r],
         UNCHANGED <<public, pending, store, refresh, lowered>>, JobsOK',
         lost' \cup behind' \subseteq Listings, late' \subseteq Indexers,
         index' \in [Listings -> Baseline]
  PROVE  RankingTypeOK'
<1>1. /\ StoreOK' /\ RefreshOK' /\ lowered' \in BOOLEAN
      /\ (public \cup pending \cup lost \cup behind)' \subseteq Listings /\ late' \subseteq Indexers
  BY DEF RankingTypeOK, StoreOK, RefreshOK
<1>2. WorkOK' /\ \A v \in Indexers : Knows(v)'
  BY WorkStep
<1> QED
  BY <1>1, <1>2 DEF RankingTypeOK, JobsOK, Knows

\* A step of a session.
LEMMA ChangeTypes ==
  ASSUME RankingTypeOK, NEW s \in Listings, Change(s) \/ Announce(s) \/ Commit(s)
  PROVE  RankingTypeOK'
<1>1. /\ StoreOK' /\ RefreshOK' /\ WorkOK' /\ index' \in [Listings -> Baseline]
      /\ lowered' \in BOOLEAN /\ \A w \in Indexers : Knows(w)'
  <2>1. UNCHANGED <<store, refresh, lowered, index, work>>
    BY DEF Change, Announce, Commit, baseline
  <2> QED
    BY <2>1 DEF RankingTypeOK, StoreOK, RefreshOK, WorkOK, Knows
<1>2. (public \cup pending)' \subseteq Listings
  BY DEF RankingTypeOK, Change, Announce, Commit
<1>3. lost' \subseteq Listings
  BY DEF RankingTypeOK, Change, Announce, Commit, OrderJob
<1>4. behind' \subseteq Listings /\ late' \subseteq Indexers
  <2>1. CASE UNCHANGED overtaken
    BY <2>1 DEF RankingTypeOK, overtaken
  <2>2. CASE late' = late \cup Holders(s) /\ behind' \in {behind, behind \cup {s}}
    BY <2>2 DEF RankingTypeOK, Holders
  <2> QED
    BY <2>1, <2>2 DEF Change, Announce, Commit
<1>5. JobsOK'
  <2>1. Job(s, 0) \in [s : Listings, target : {0}] /\ JobsOK
    BY DEF Job, RankingTypeOK, JobsOK
  <2>2. CASE indexJobs' = Add(Job(s, 0))
    BY <2>1, <2>2, AddOK
  <2>3. CASE UNCHANGED indexJobs
    BY <2>1, <2>3 DEF JobsOK
  <2> QED
    BY <2>2, <2>3 DEF Change, Announce, Commit, OrderJob
<1> QED
  BY <1>1, <1>2, <1>3, <1>4, <1>5 DEF RankingTypeOK, JobsOK, Knows

LEMMA TakeTypes ==
  ASSUME RankingTypeOK, NEW w \in Indexers, NEW job \in IndexJob, TakeIndexJob(w, job)
  PROVE  RankingTypeOK'
<1>1. JobsOK'
  BY TakeOK DEF RankingTypeOK, JobsOK, TakeIndexJob
<1>2. job.target = 0 => job.s \in Listings
  BY DEF IndexJob, Job, Targets
<1>3. job.target \in Nat
  BY DEF IndexJob, Job, Targets
<1>4. PICK r : r = IF job.target = 0 THEN [Idle EXCEPT !.pc = "row", !.s = job.s]
                   ELSE IF Established(job.target)
                        THEN [Idle EXCEPT !.pc = "next", !.target = job.target, !.todo = public]
                        ELSE Idle
  OBVIOUS
<1>5. Sound(r)
  <2>1. CASE job.target = 0
    BY <1>2, <1>4, <2>1 DEF Idle, NoDocument, Sound, WorkRecord, Baseline
  <2>2. CASE job.target # 0 /\ Established(job.target)
    BY <1>3, <1>4, <2>2 DEF Idle, NoDocument, Sound, WorkRecord, Baseline, Established, RankingTypeOK
  <2>3. CASE job.target # 0 /\ ~Established(job.target)
    BY <1>4, <2>3, IdleSound
  <2> QED
    BY <2>1, <2>2, <2>3
<1>6. work' = [work EXCEPT ![w] = r]
  BY <1>4 DEF TakeIndexJob
<1>7. UNCHANGED <<public, pending, store, refresh, lowered, lost, behind, late, index>>
  BY DEF TakeIndexJob, Indexes, baseline, overtaken
<1> QED
  BY <1>1, <1>5, <1>6, <1>7, IndexerStep DEF RankingTypeOK

LEMMA IndexedTypes ==
  ASSUME RankingTypeOK, NEW w \in Indexers, work[w].s \in Listings, NEW doc \in Baseline,
         Indexed(w, doc)
  PROVE  RankingTypeOK'
<1>1. PICK r : r = IF work[w].target = 0 THEN Idle ELSE [work[w] EXCEPT !.pc = "next"]
  OBVIOUS
<1>2. Sound(r)
  BY <1>1, WorkOf, IdleSound DEF Sound, WorkRecord
<1>3. work' = [work EXCEPT ![w] = r]
  BY <1>1 DEF Indexed, RankingTypeOK, WorkOK
<1>4. index' \in [Listings -> Baseline]
  BY DEF RankingTypeOK, Indexed
<1>5. UNCHANGED <<public, pending, store, refresh, lowered, lost, indexJobs>>
  BY DEF Indexed, Indexes, baseline
<1>6. behind' \subseteq Listings /\ late' \subseteq Indexers
  BY DEF Indexed, Holders, RankingTypeOK
<1> QED
  BY <1>2, <1>3, <1>4, <1>5, <1>6, IndexerStep DEF RankingTypeOK, JobsOK

LEMMA AbandonTypes ==
  ASSUME RankingTypeOK, NEW w \in Indexers, work[w].pc # "idle", Abandon(w)
  PROVE  RankingTypeOK'
<1>1. Sound(work[w]) /\ (work[w].target = 0 => work[w].s \in Listings)
  BY WorkOf DEF Sound, WorkRecord
<1>2. PICK job : job = Job(IF work[w].target = 0 THEN work[w].s ELSE Nobody, work[w].target)
  OBVIOUS
<1>3. job \in [s : Listings, target : {0}] \cup [s : {Nobody}, target : Nat]
  BY <1>1, <1>2 DEF Job, Sound, WorkRecord
<1>4. JobsOK'
  <2>1. JobsOK
    BY DEF RankingTypeOK, JobsOK
  <2>2. CASE indexJobs' = Add(job)
    BY <1>3, <2>1, <2>2, AddOK
  <2>3. CASE UNCHANGED indexJobs
    BY <2>1, <2>3 DEF JobsOK
  <2> QED
    BY <1>2, <2>2, <2>3 DEF Abandon
<1>5. lost' \cup behind' \subseteq Listings /\ late' \subseteq Indexers
  BY <1>1 DEF Abandon, RankingTypeOK
<1>6. work' = [work EXCEPT ![w] = Idle] /\ UNCHANGED <<public, pending, store, refresh, lowered, index>>
  BY DEF Abandon, baseline
<1> QED
  BY <1>4, <1>5, <1>6, IdleSound, IndexerStep DEF RankingTypeOK

LEMMA WorkTypes ==
  ASSUME RankingTypeOK, NEW w \in Indexers, Work(w) \/ IndexFails(w)
  PROVE  RankingTypeOK'
<1>0. Sound(work[w]) /\ JobsOK /\ lost \cup behind \subseteq Listings /\ late \subseteq Indexers /\ index \in [Listings -> Baseline]
      /\ store.mean \in Generations \cup {"earlier"} /\ store.version \in Nat
  BY WorkOf DEF RankingTypeOK, JobsOK, StoreOK
<1>1. CASE NextListing(w)
  <2>1. UNCHANGED <<public, pending, store, refresh, lowered, lost, behind, late, index, indexJobs>>
    BY <1>1 DEF NextListing, Indexes, baseline, overtaken
  <2>2. CASE work' = [work EXCEPT ![w] = Idle]
    BY <1>0, <2>1, <2>2, IdleSound, IndexerStep DEF JobsOK
  <2>3. ASSUME NEW s \in work[w].todo,
               work' = [work EXCEPT ![w].pc = "row", ![w].s = s, ![w].todo = @ \ {s}]
        PROVE  RankingTypeOK'
    <3>1. PICK r : r = [work[w] EXCEPT !.pc = "row", !.s = s, !.todo = @ \ {s}]
      OBVIOUS
    <3>2. work' = [work EXCEPT ![w] = r]
      BY <2>3, <3>1 DEF RankingTypeOK, WorkOK
    <3>3. Sound(r)
      BY <1>0, <3>1 DEF Sound, WorkRecord
    <3> QED
      BY <1>0, <2>1, <3>2, <3>3, IndexerStep DEF JobsOK
  <2> QED
    BY <1>1, <2>2, <2>3 DEF NextListing
<1>2. CASE ReadRow(w)
  <2>1. UNCHANGED <<public, pending, store, refresh, lowered, lost, behind, index, indexJobs>>
        /\ late' \subseteq Indexers
    BY <1>0, <1>2 DEF ReadRow, Indexes, baseline
  <2>2. PICK p : p = IF work[w].s \in public THEN "baseline" ELSE "prune"
    OBVIOUS
  <2>3. PICK r : r = [work[w] EXCEPT !.pc = p, !.got = NoDocument]
    OBVIOUS
  <2>4. work' = [work EXCEPT ![w] = r]
    BY <1>2, <2>2, <2>3 DEF ReadRow, RankingTypeOK, WorkOK
  <2>5. Sound(r)
    BY <1>0, <1>2, <2>2, <2>3 DEF ReadRow, Sound, WorkRecord, NoDocument, Baseline
  <2> QED
    BY <1>0, <2>1, <2>4, <2>5, IndexerStep DEF JobsOK
<1>3. CASE Prune(w)
  BY <1>0, <1>3, IndexedTypes DEF Prune, Sound, NoDocument, Baseline
<1>4. CASE ReadBaseline(w)
  <2>1. UNCHANGED <<public, pending, store, refresh, lowered, lost, behind, late, index, indexJobs>>
    BY <1>4 DEF ReadBaseline, Indexes, baseline, overtaken
  <2>2. PICK got \in Baseline : work' = [work EXCEPT ![w].got = got]
    <3>1. work[w].got \in Baseline
      BY <1>0 DEF Sound, WorkRecord
    <3>2. CASE work' = [work EXCEPT ![w].got.mean = store.mean]
      <4>1. [work[w].got EXCEPT !.mean = store.mean] \in Baseline
        BY <1>0, <3>1 DEF Baseline
      <4> QED
        BY <3>2, <4>1
    <3>3. CASE work' = [work EXCEPT ![w].got.version = store.version]
      <4>1. [work[w].got EXCEPT !.version = store.version] \in Baseline
        BY <1>0, <3>1 DEF Baseline
      <4> QED
        BY <3>3, <4>1
    <3> QED
      BY <1>4, <3>2, <3>3 DEF ReadBaseline
  <2>3. PICK r : r = [work[w] EXCEPT !.got = got]
    OBVIOUS
  <2>4. work' = [work EXCEPT ![w] = r] /\ Sound(r)
    BY <1>0, <2>2, <2>3 DEF Sound, WorkRecord
  <2> QED
    BY <1>0, <2>1, <2>4, IndexerStep DEF JobsOK
<1>5. CASE WriteDocument(w)
  BY <1>0, <1>5, IndexedTypes DEF WriteDocument, Sound, WorkRecord
<1>6. CASE NoBaseline(w)
  BY <1>6, AbandonTypes DEF NoBaseline
<1>7. CASE IndexFails(w)
  BY <1>7, AbandonTypes DEF IndexFails
<1> QED
  BY <1>1, <1>2, <1>3, <1>4, <1>5, <1>6, <1>7 DEF Work

\* A step of a refresh.
LEMMA RefreshTypes ==
  ASSUME RankingTypeOK, NEW g \in Generations, Refresh(g) \/ Schedule(g) \/ RefreshFails(g)
  PROVE  RankingTypeOK'
<1>1. /\ (public \cup pending \cup lost \cup behind)' \subseteq Listings
      /\ late' \subseteq Indexers /\ WorkOK'
      /\ index' \in [Listings -> Baseline] /\ \A w \in Indexers : Knows(w)'
  <2>1. UNCHANGED Documents
    BY DEF Refresh, RefreshReads, WriteMean, WriteVersion, WriteGeneration, CheckGeneration,
           EnqueueReindex, Schedule, RefreshFails
  <2> QED
    BY <2>1 DEF Documents, overtaken, RankingTypeOK, WorkOK, Knows
<1>2. refresh[g].next \in Nat /\ refresh[g].advanced + 1 \in Nat /\ store.version \in Nat
      /\ store.version + 1 \in Nat
  BY DEF RankingTypeOK, RefreshOK, StoreOK
<1>3. JobsOK'
  <2>1. JobsOK
    BY DEF RankingTypeOK, JobsOK
  <2>2. CASE EnqueueReindex(g)
    BY <1>2, <2>1, <2>2, AddOK DEF EnqueueReindex, Job
  <2>3. CASE UNCHANGED indexJobs
    BY <2>1, <2>3 DEF JobsOK
  <2> QED
    BY <2>2, <2>3 DEF Refresh, RefreshReads, WriteMean, WriteVersion, WriteGeneration,
                      CheckGeneration, Schedule, RefreshFails
<1>4. StoreOK'
  BY <1>2 DEF RankingTypeOK, StoreOK, Refresh, RefreshReads, WriteMean, WriteVersion,
              WriteGeneration, CheckGeneration, EnqueueReindex, Schedule, RefreshFails, Documents
<1>5. RefreshOK'
  <2>1. ASSUME NEW pc \in {"queued", "mean", "version", "generation", "check", "enqueue", "done"},
               refresh' = [refresh EXCEPT ![g].pc = pc]
        PROVE  RefreshOK'
    BY <2>1 DEF RankingTypeOK, RefreshOK
  <2>2. CASE Schedule(g)
    BY <1>2, <2>2 DEF RankingTypeOK, RefreshOK, Schedule
  <2>3. CASE RefreshReads(g)
    <3>1. ASSUME NEW pc \in {"enqueue", "mean"}, NEW n \in Nat,
                 refresh' = [refresh EXCEPT ![g].pc = pc, ![g].next = n]
          PROVE  RefreshOK'
      BY <3>1 DEF RankingTypeOK, RefreshOK
    <3> QED
      BY <1>2, <2>1, <2>3, <3>1 DEF RefreshReads, Goes
  <2>4. CASE WriteMean(g)
    BY <2>4 DEF RankingTypeOK, RefreshOK, WriteMean
  <2>5. CASE WriteVersion(g)
    <3>1. PICK a \in Nat : a = refresh[g].advanced + 1
      BY <1>2
    <3>2. refresh' = [refresh EXCEPT ![g].pc = "generation", ![g].advanced = a]
      BY <2>5, <3>1 DEF WriteVersion, RankingTypeOK, RefreshOK
    <3> QED
      BY <3>2 DEF RankingTypeOK, RefreshOK
  <2>6. CASE WriteGeneration(g) \/ CheckGeneration(g) \/ EnqueueReindex(g) \/ RefreshFails(g)
    BY <2>1, <2>6 DEF WriteGeneration, CheckGeneration, EnqueueReindex, RefreshFails, Goes
  <2> QED
    BY <2>2, <2>3, <2>4, <2>5, <2>6 DEF Refresh
<1>6. lowered' \in BOOLEAN
  BY DEF RankingTypeOK, Refresh, RefreshReads, WriteMean, WriteVersion, WriteGeneration,
         CheckGeneration, EnqueueReindex, Schedule, RefreshFails
<1> QED
  BY <1>1, <1>3, <1>4, <1>5, <1>6 DEF RankingTypeOK, JobsOK, Knows

LEMMA RankingTypesInductive == RankingTypeOK /\ [RankingNext]_rankingVars => RankingTypeOK'
<1> SUFFICES ASSUME RankingTypeOK, [RankingNext]_rankingVars PROVE RankingTypeOK'
  OBVIOUS
<1>1. CASE UNCHANGED rankingVars
  BY <1>1 DEF rankingVars, overtaken, RankingTypeOK, StoreOK, RefreshOK, WorkOK
<1>2. CASE RankingNext
  BY <1>2, ChangeTypes, TakeTypes, WorkTypes, RefreshTypes DEF RankingNext
<1> QED
  BY <1>1, <1>2

LEMMA RankingTypesInit == RankingInit => RankingTypeOK
<1> SUFFICES ASSUME RankingInit PROVE RankingTypeOK
  OBVIOUS
<1>1. StoreOK /\ RefreshOK
  BY DEF RankingInit, StoreOK, RefreshOK, NoRefresh
<1>2. WorkOK /\ index \in [Listings -> Baseline] /\ \A w \in Indexers : Knows(w)
  BY DEF RankingInit, WorkOK, Knows, NoDocument, Idle, Baseline
<1>3. JobsOK
  BY DEF RankingInit, JobsOK, BagToSet, EmptyBag, SetToBag
<1>4. public \cup pending \cup lost \cup behind \subseteq Listings
      /\ late \subseteq Indexers /\ lowered \in BOOLEAN
  BY DEF RankingInit
<1> QED
  BY <1>1, <1>2, <1>3, <1>4 DEF RankingTypeOK, JobsOK, Knows

\* The type invariant of MarketplaceRanking.
THEOREM RankingTypeCorrect == RankingSpec => []RankingTypeOK
BY RankingTypesInit, RankingTypesInductive, PTL DEF RankingSpec

-----------------------------------------------------------------------------
(***************************************************************************)
(* The two side by side, in the shapes they are checked in.                *)
(***************************************************************************)
\* The type invariants of the two hold in every shape.
THEOREM ShapesTypeCorrect == MCSpec => []TypeOK
<1>1. MCInit => IInv /\ RankingTypeOK
  BY InitOK, RankingTypesInit DEF MCInit
<1>2. IInv /\ RankingTypeOK /\ [MCNext]_<<orderVars, rankingVars, shape>>
        => (IInv /\ RankingTypeOK)'
  BY NextOK, RankingTypesInductive DEF MCNext
<1>3. IInv /\ RankingTypeOK => TypeOK
  BY DEF IInv, TypeOK
<1> QED
  BY <1>1, <1>2, <1>3, PTL DEF MCSpec

=============================================================================
