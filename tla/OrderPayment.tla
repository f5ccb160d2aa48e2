----------------------------- MODULE OrderPayment -----------------------------
(***************************************************************************)
(* One order of the storefront and the Razorpay payments made for it.  A   *)
(* payment reaches the order by the customer's browser or by a webhook     *)
(* that is persisted, queued and reconciled; addPaymentToOrder, which is   *)
(* Vendure's, checks the state of the order, asks the payment handler, and *)
(* records what the handler confirmed.                                     *)
(***************************************************************************)
EXTENDS Integers, FiniteSets

CONSTANTS
  Payments,       \* bound: Razorpay payments of the order
  Kinds,          \* SETTLING_WEBHOOK_EVENT_TYPES: each is a delivery of its own
  Jobs,           \* bound: jobs of the inbox queue at one time
  MAX_ATTEMPTS,   \* runs of one job, and attempts after which a row is failed
  MaxTotal        \* bound: amounts the order takes, one by one

ASSUME OrderAssumption == MAX_ATTEMPTS \in Nat \ {0} /\ MaxTotal \in Nat \ {0}

VARIABLES
  order,      \* state, total, and the payments recorded on it
  provider,   \* the payments at Razorpay: status and amount
  shop,       \* addPaymentToOrder from the browser: the total it read, or 0
  inbox,      \* payment_webhook_event rows: processingStatus, attemptCount, and
              \* whether the payload names the payment and the order
  acked,      \* deliveries Razorpay had a 2xx answer for
  queue,      \* the jobs
  alerts,     \* payments an operator was alerted about
  recent,     \* lastSentAt: an alert of the order was sent within the hour
  muted,      \* history: payments whose alert was dropped for that reason
  doubled     \* history: deliveries that have had two jobs at a time

ops       == <<alerts, recent, muted>>
answers   == <<acked, doubled>>
orderVars == <<order, provider, shop, inbox, answers, queue, ops>>
payment   == <<order, provider>>

Deliveries == Payments \X Kinds
NoJob      == [pc |-> "none"]
NewJob(d)  == [pc |-> "queued", d |-> d, tries |-> 1, stalled |-> FALSE,
               attempt |-> 0, total |-> 0]

OrderInit ==
  /\ order = [state |-> "ArrangingPayment", total |-> 1, paid |-> {}]
  /\ provider = [p \in Payments |-> [status |-> "none", amount |-> 0]]
  /\ shop = [p \in Payments |-> 0]
  /\ inbox = [d \in Deliveries |-> [status |-> "none", attempts |-> 0, names |-> TRUE]]
  /\ acked = {} /\ doubled = {}
  /\ queue = [j \in Jobs |-> NoJob]
  /\ alerts = {} /\ recent = FALSE /\ muted = {}

(***************************************************************************)
(* The customer, Razorpay and the browser's handshake.                     *)
(***************************************************************************)
\* createRazorpayCheckoutOrder
CreateCheckoutOrder(p) ==
  /\ order.state = "ArrangingPayment" /\ provider[p].status = "none"
  /\ provider' = [provider EXCEPT ![p] = [status |-> "open", amount |-> order.total]]
  /\ UNCHANGED <<order, shop, inbox, answers, queue, ops>>

\* whatever became of the order since
CustomerPays(p) ==
  /\ provider[p].status = "open"
  /\ \E s \in {"authorized", "captured"} : provider' = [provider EXCEPT ![p].status = s]
  /\ UNCHANGED <<order, shop, inbox, answers, queue, ops>>

\* Vendure: the customer goes back to the cart and comes again, an
\* administrator cancels
EditCart ==
  /\ \/ /\ order.state = "ArrangingPayment" /\ order.total < MaxTotal
        /\ order' = [order EXCEPT !.state = "AddingItems", !.total = @ + 1]
     \/ order.state = "AddingItems" /\ order' = [order EXCEPT !.state = "ArrangingPayment"]
     \/ order.state # "Cancelled" /\ order' = [order EXCEPT !.state = "Cancelled"]
  /\ UNCHANGED <<provider, shop, inbox, answers, queue, ops>>

\* verifyAndSettle captures what is only authorized before it compares the
\* amount with the total the order had when it was read
Settles(p, total) ==
  /\ provider[p].status \in {"authorized", "captured"}
  /\ provider' = [provider EXCEPT ![p].status = "captured"]
  /\ order' = IF provider[p].amount = total
              THEN [order EXCEPT !.state = "PaymentSettled", !.paid = @ \cup {p}]
              ELSE order

ShopAdds(p) ==
  /\ shop[p] = 0 /\ provider[p].status \in {"authorized", "captured"}
  /\ order.state = "ArrangingPayment"
  /\ shop' = [shop EXCEPT ![p] = order.total]
  /\ UNCHANGED <<payment, inbox, answers, queue, ops>>

\* or an error, a closed browser, a dead server: nothing is recorded
ShopReturns(p) ==
  /\ shop[p] # 0
  /\ Settles(p, shop[p]) \/ UNCHANGED payment
  /\ shop' = [shop EXCEPT ![p] = 0]
  /\ UNCHANGED <<inbox, answers, queue, ops>>

(***************************************************************************)
(* RazorpayPaymentsWebhookController.                                      *)
(***************************************************************************)
HasJob(d) == \E j \in Jobs : queue[j] # NoJob /\ queue[j].d = d

\* the queue takes the job and Razorpay has its 2xx, or neither
Enqueue(d) ==
  \/ /\ \E j \in Jobs : queue[j] = NoJob /\ queue' = [queue EXCEPT ![j] = NewJob(d)]
     /\ acked' = acked \cup {d}
     /\ doubled' = IF HasJob(d) THEN doubled \cup {d} ELSE doubled
  \/ UNCHANGED <<queue, answers>>

ReceiveWebhook(d) ==
  /\ provider[d[1]].status = "captured" /\ inbox[d].status = "none"
  /\ \E b \in BOOLEAN : inbox' = [inbox EXCEPT ![d].status = "pending", ![d].names = b]
  /\ Enqueue(d)
  /\ UNCHANGED <<payment, shop, ops>>

\* mutant: a known delivery is acknowledged, and that is all
ReceiveAgain_AckOnly(d) ==
  /\ inbox[d].status # "none"
  /\ acked' = acked \cup {d}
  /\ UNCHANGED <<payment, shop, inbox, queue, doubled, ops>>

\* the UNIQUE key refuses the row: one that is still pending is queued again
ReceiveAgain(d) ==
  /\ inbox[d].status # "none"
  /\ IF inbox[d].status = "pending" THEN Enqueue(d)
                                    ELSE acked' = acked \cup {d} /\ UNCHANGED <<queue, doubled>>
  /\ UNCHANGED <<payment, shop, inbox, ops>>

(***************************************************************************)
(* PaymentWebhookQueueService.                                             *)
(***************************************************************************)
Ends(j) == queue' = [queue EXCEPT ![j] = NoJob]

Again(j, pc) ==
  [queue EXCEPT ![j] = [NewJob(@.d) EXCEPT !.tries = queue[j].tries,
                                           !.stalled = queue[j].stalled, !.pc = pc]]

\* a row that is decided is skipped
JobReadsRow(j) ==
  /\ queue[j].pc = "queued"
  /\ LET r == inbox[queue[j].d]
     IN IF r.status = "pending"
        THEN queue' = [queue EXCEPT ![j].pc = "read", ![j].attempt = r.attempts + 1]
        ELSE Ends(j)
  /\ UNCHANGED <<payment, shop, inbox, answers, ops>>

\* PaymentOpsAlertService.notify: one alert of an order in an hour, another one is
\* dropped
Notify(p) ==
  IF recent THEN muted' = muted \cup {p} /\ UNCHANGED <<alerts, recent>>
  ELSE alerts' = alerts \cup {p} /\ recent' = TRUE /\ UNCHANGED muted

\* or another process, whose map of what was sent is its own
HourPasses ==
  /\ recent /\ recent' = FALSE
  /\ UNCHANGED <<payment, shop, inbox, answers, queue, alerts, muted>>

\* mutant: any order that is not payable is taken for a settled one
JobReadsOrder_Silent(j) ==
  /\ queue[j].pc = "read"
  /\ IF inbox[queue[j].d].names /\ order.state = "ArrangingPayment"
     THEN queue' = [queue EXCEPT ![j].pc = "adding", ![j].total = order.total]
     ELSE queue' = [queue EXCEPT ![j].pc = "ignored"]
  /\ UNCHANGED <<payment, shop, inbox, answers, ops>>

\* reconcileEvent: a payload that names no payment, or no order there is, is
\* ignored, and so is the delivery for an order that is not payable, with an
\* alert unless this very payment is known to be recorded (a query that may
\* fail); addPaymentToOrder looks at the state again, and the job then fails
JobReadsOrder(j) ==
  /\ queue[j].pc = "read"
  /\ LET p     == queue[j].d[1]
         names == inbox[queue[j].d].names
     IN IF names /\ order.state = "ArrangingPayment"
        THEN /\ queue' = [queue EXCEPT ![j].pc = "adding", ![j].total = order.total]
             /\ UNCHANGED ops
        ELSE /\ queue' = [queue EXCEPT ![j].pc = "ignored"]
             /\ \/ (~names \/ p \in order.paid) /\ UNCHANGED ops
                \/ names /\ Notify(p)
  /\ UNCHANGED <<payment, shop, inbox, answers>>

JobAddsPayment(j) ==
  /\ queue[j].pc = "adding"
  /\ LET p == queue[j].d[1]
     IN provider[p].amount = queue[j].total /\ Settles(p, queue[j].total)
  /\ queue' = [queue EXCEPT ![j].pc = "processed"]
  /\ UNCHANGED <<shop, inbox, answers, ops>>

\* the whole row is saved, as it was read
JobSavesRow(j) ==
  /\ queue[j].pc \in {"processed", "ignored"}
  /\ inbox' = [inbox EXCEPT ![queue[j].d].status = queue[j].pc,
                            ![queue[j].d].attempts = queue[j].attempt]
  /\ Ends(j)
  /\ UNCHANGED <<payment, shop, answers, ops>>

\* mutant: the last attempt is not the last
JobFails_OffByOne(j) ==
  /\ queue[j].pc \in {"read", "adding"}
  /\ LET n == queue[j].attempt
     IN inbox' = [inbox EXCEPT
          ![queue[j].d].status = IF n > MAX_ATTEMPTS THEN "failed" ELSE "pending",
          ![queue[j].d].attempts = n]
  /\ IF queue[j].tries < MAX_ATTEMPTS
     THEN queue' = [Again(j, "queued") EXCEPT ![j].tries = @ + 1]
     ELSE Ends(j)
  /\ UNCHANGED <<payment, shop, answers, ops>>

\* an error of Razorpay's, an amount that differs, an order moved meanwhile
JobFails(j) ==
  /\ queue[j].pc \in {"read", "adding"}
  /\ LET n == queue[j].attempt
     IN inbox' = [inbox EXCEPT
          ![queue[j].d].status = IF n >= MAX_ATTEMPTS THEN "failed" ELSE "pending",
          ![queue[j].d].attempts = n]
  /\ IF queue[j].tries < MAX_ATTEMPTS
     THEN queue' = [Again(j, "queued") EXCEPT ![j].tries = @ + 1]
     ELSE Ends(j)
  /\ UNCHANGED <<payment, shop, answers, ops>>

\* The worker dies and the stalled job is run again.  Bound: once; BullMQ gives
\* up a job that stalls a second time.
JobStalls(j) ==
  /\ queue[j].pc \notin {"none", "queued"} /\ ~queue[j].stalled
  /\ queue' = [Again(j, "queued") EXCEPT ![j].stalled = TRUE]
  /\ UNCHANGED <<payment, shop, inbox, answers, ops>>
-----------------------------------------------------------------------------
Process(j) ==
  \/ JobReadsRow(j) \/ JobReadsOrder(j) \/ JobAddsPayment(j)
  \/ JobSavesRow(j) \/ JobFails(j)

OrderNext ==
  \/ EditCart \/ HourPasses
  \/ \E p \in Payments : \/ CreateCheckoutOrder(p) \/ CustomerPays(p)
                         \/ ShopAdds(p) \/ ShopReturns(p)
  \/ \E d \in Deliveries : ReceiveWebhook(d) \/ ReceiveAgain(d)
  \/ \E j \in Jobs : Process(j) \/ JobStalls(j)

OrderSpec == OrderInit /\ [][OrderNext]_orderVars
-----------------------------------------------------------------------------
\* The type invariant.
OrderTypeOK ==
  /\ order \in [state : {"ArrangingPayment", "AddingItems", "PaymentSettled", "Cancelled"},
                total : 1 .. MaxTotal, paid : SUBSET Payments]
  /\ provider \in [Payments -> [status : {"none", "open", "authorized", "captured"},
                                amount : 0 .. MaxTotal]]
  /\ shop \in [Payments -> 0 .. MaxTotal]
  /\ inbox \in [Deliveries -> [status : {"none", "pending", "processed", "ignored", "failed"},
                               attempts : 0 .. MAX_ATTEMPTS, names : BOOLEAN]]
  /\ acked \cup doubled \subseteq Deliveries /\ alerts \cup muted \subseteq Payments /\ recent \in BOOLEAN

Decided(d)   == inbox[d].status \in {"processed", "ignored"} /\ inbox[d].names
Accounted(p) == p \in order.paid \cup alerts \/ (p \in muted /\ alerts # {})

\* A delivery that was processed or ignored left its captured payment recorded on
\* the order or in front of an operator, whatever the browser, the other
\* delivery and the customer did meanwhile.  Where notify dropped the alert, the
\* operator has one of another payment of the order.  A payload that names no
\* payment or no order there is leaves nothing but a line in the log.
DecidedIsAccounted == \A d \in Deliveries : Decided(d) => Accounted(d[1])

\* A persisted delivery that is not decided has a job that will look at it, or
\* Razorpay was not told 2xx and repeats it: an enqueue that failed and a worker
\* that died are made good.  A delivery that was repeated while its job was there
\* is left out: one of the two may put back the row that the other has decided,
\* in its last run.
PendingIsOwed ==
  \A d \in Deliveries \ doubled : inbox[d].status = "pending" => d \notin acked \/ HasJob(d)
=============================================================================
