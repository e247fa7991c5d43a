-------------------------- MODULE OrderSettlement --------------------------
(***************************************************************************)
(* From a reservation to a paid order: the order service that stores an    *)
(* order for each message of orders_processing_queue and asks the payment  *)
(* service for a payment record, the customer's calls of initiate and      *)
(* verify at the payment service, the public route that creates a payment  *)
(* record, the payment events, and the consumer of order_payment_queue     *)
(* that writes their outcome to the order.                                 *)
(*                                                                         *)
(* A query of a database is one step, and so are an HTTP request, its      *)
(* response and a frame sent to RabbitMQ.  Whatever a handler does up to   *)
(* its next await belongs to the step before.  The mock provider is the    *)
(* only one that the code ever stores, so no signature is checked.         *)
(***************************************************************************)
EXTENDS Integers, FiniteSets

CONSTANTS
  Orders,      \* ids of orders: of a reservation's, at most one message each, or of none
  Initiates,   \* the calls of initiate
  Verifies,    \* the calls of verify
  OrderOf,     \* the order that such a call is about
  Nil,         \* no row, or no value
  MaxFaults    \* how many errors, crashes and lost messages may happen

ASSUME CallsAssumption == OrderOf \in [Initiates \cup Verifies -> Orders]
ASSUME FaultsAssumption == MaxFaults \in Nat
ASSUME NilAssumption ==
  Nil \notin Initiates \cup {"PENDING_PAYMENT", "PAID", "CANCELLED", "PENDING",
                             "SUCCEEDED", "FAILED", "succeeded", "failed"}

VARIABLES
  \* the order service
  message,   \* the message of a reservation in orders_processing_queue
  order,     \* the status in the row of an order
  post,      \* the POST that asks for the payment record
  \* the payment service
  pay,       \* the status in the row of a payment
  intent,    \* its providerIntentId: the call of initiate that generated it
  initiate,  \* the next step of a call of initiate, or its answer
  got,       \* the intent it answered with
  verify,    \* the next step of a call of verify, or its answer
  \* payment events: a call of verify publishes at most one
  key,       \* its routing key
  event,     \* where it is, or the consumer's next step
  seen,      \* the status of the order that the consumer read
  faults,    \* the errors and crashes so far
  \* history, read by no guard
  charged,   \* the orders whose payment was stored as SUCCEEDED
  bounced    \* the orders whose message was refused because the row was there

orderVars == <<message, order, post>>
paymentVars == <<pay, intent, initiate, got, verify>>
eventVars == <<key, event, seen>>
vars == <<orderVars, paymentVars, eventVars, faults, charged, bounced>>

Init ==
  /\ message = [o \in Orders |-> "none"]
  /\ order = [o \in Orders |-> Nil]
  /\ post = [o \in Orders |-> "none"]
  /\ pay = [o \in Orders |-> Nil]
  /\ intent = [o \in Orders |-> Nil]
  /\ initiate = [i \in Initiates |-> "idle"]
  /\ got = [i \in Initiates |-> Nil]
  /\ verify = [v \in Verifies |-> "idle"]
  /\ key = [v \in Verifies |-> Nil]
  /\ event = [v \in Verifies |-> "none"]
  /\ seen = [v \in Verifies |-> Nil]
  /\ faults = 0
  /\ charged = {}
  /\ bounced = {}

Fault == faults < MaxFaults /\ faults' = faults + 1

-----------------------------------------------------------------------------
(* The consumer of orders_processing_queue: saveOrderToDatabase.           *)

\* The product service has published a reservation.  The id of its order is a new
\* one: the client has not named it before.
Arrive(o) ==
  /\ message[o] = "none"
  /\ pay[o] = Nil
  /\ message' = [message EXCEPT ![o] = "queued"]
  /\ UNCHANGED <<order, post, paymentVars, eventVars, faults, charged, bounced>>

\* The row is created under the unique reservationId.
SaveOrder(o) ==
  /\ message[o] = "queued"
  /\ order[o] = Nil
  /\ order' = [order EXCEPT ![o] = "PENDING_PAYMENT"]
  /\ message' = [message EXCEPT ![o] = "created"]
  /\ UNCHANGED <<post, paymentVars, eventVars, faults, charged, bounced>>

\* The row is there: the insert fails, and the message goes back to the queue.
SaveAgain(o) ==
  /\ message[o] = "queued"
  /\ order[o] # Nil
  /\ bounced' = bounced \cup {o}
  /\ UNCHANGED <<orderVars, paymentVars, eventVars, faults, charged>>

\* The database answers with an error, before or after it stored the row: the
\* message goes back to the queue.
SaveFails(o) ==
  /\ Fault
  /\ message[o] = "queued"
  /\ order[o] = Nil
  /\ order' \in {order, [order EXCEPT ![o] = "PENDING_PAYMENT"]}
  /\ UNCHANGED <<message, post, paymentVars, eventVars, charged, bounced>>

\* Slip: the handler ends without the call of initializedPayment.
PostForgotten(o) ==
  /\ message[o] = "created"
  /\ message' = [message EXCEPT ![o] = "posted"]
  /\ UNCHANGED <<order, post, paymentVars, eventVars, faults, charged, bounced>>

\* initializedPayment is called and not awaited: the handler goes on.
SendPost(o) ==
  /\ message[o] = "created"
  /\ message' = [message EXCEPT ![o] = "posted"]
  /\ post' = [post EXCEPT ![o] = "sent"]
  /\ UNCHANGED <<order, paymentVars, eventVars, faults, charged, bounced>>

AckOrder(o) ==
  /\ message[o] = "posted"
  /\ message' = [message EXCEPT ![o] = "acked"]
  /\ UNCHANGED <<order, post, paymentVars, eventVars, faults, charged, bounced>>

\* createdummyEntry of the payment service, under the unique orderId.
CreateEntry(o) ==
  /\ pay[o] = Nil
  /\ pay' = [pay EXCEPT ![o] = "PENDING"]
  /\ UNCHANGED <<message, order, intent, initiate, got, verify, eventVars, faults,
                 charged, bounced>>

\* The POST of the order service arrives before any other for the order.
StorePayment(o) ==
  /\ post[o] \in {"sent", "orphan"}
  /\ CreateEntry(o)
  /\ post' = [post EXCEPT ![o] = IF post[o] = "sent" THEN "stored" ELSE "done"]

\* Any client may POST to the same route, with the id of an order that is stored or
\* with one that no order has and none will get.
CreateDirectly(o) ==
  /\ order[o] # Nil \/ message[o] = "none"
  /\ CreateEntry(o)
  /\ UNCHANGED post

PostAnswered(o) ==
  /\ post[o] = "stored"
  /\ post' = [post EXCEPT ![o] = "done"]
  /\ UNCHANGED <<message, order, paymentVars, eventVars, faults, charged, bounced>>

\* The order service's process ends.  Its unacknowledged messages go back to
\* their queues, and nobody waits for a POST that is under way, which is lost or
\* still arrives.
Restart(failed) ==
  /\ message' = [o \in Orders |->
                   IF message[o] \in {"created", "posted"} THEN "queued" ELSE message[o]]
  /\ event' = [v \in Verifies |->
                 IF event[v] \in {"write", "ack"} THEN "queued" ELSE event[v]]
  /\ seen' = [v \in Verifies |-> Nil]
  /\ \E lost \in SUBSET {o \in Orders \ failed : post[o] = "sent"} :
       post' = [o \in Orders |->
                 CASE o \in failed \cup lost -> "lost"
                   [] o \notin failed \cup lost /\ post[o] = "sent" -> "orphan"
                   [] o \notin failed \cup lost /\ post[o] = "stored" -> "done"
                   [] OTHER -> post[o]]
  /\ UNCHANGED <<order, paymentVars, key, charged, bounced>>

\* The POST fails, as it must when the record is there already, or its response
\* does: the promise that nobody awaits is rejected, and Node ends the process.
PostRejected(o) ==
  /\ Fault
  /\ post[o] \in {"sent", "stored"}
  /\ Restart({o})

OrderCrash == Fault /\ Restart({})

-----------------------------------------------------------------------------
(* initiate of the payment service.                                        *)

AnswerInitiate(i, answer) ==
  /\ initiate' = [initiate EXCEPT ![i] = answer]
  /\ UNCHANGED <<orderVars, pay, verify, eventVars, faults, charged, bounced>>

\* getOrder, over HTTP: the order must exist and await its payment.
FetchOrder(i) ==
  /\ initiate[i] = "idle"
  /\ AnswerInitiate(i, IF order[OrderOf[i]] = "PENDING_PAYMENT" THEN "lookup" ELSE "REFUSED")
  /\ UNCHANGED <<intent, got>>

\* Slip: every call generates an intent.
AlwaysGenerates(i) ==
  /\ initiate[i] = "lookup"
  /\ AnswerInitiate(i, IF pay[OrderOf[i]] = "PENDING" THEN "generate" ELSE "REFUSED")
  /\ UNCHANGED <<intent, got>>

\* The payment record must exist and be pending; its intent is answered.
LookupPayment(i) ==
  LET o == OrderOf[i]
  IN  /\ initiate[i] = "lookup"
      /\ \/ /\ pay[o] # "PENDING"
            /\ AnswerInitiate(i, "REFUSED")
            /\ UNCHANGED got
         \/ /\ pay[o] = "PENDING" /\ intent[o] # Nil
            /\ AnswerInitiate(i, "INTENT")
            /\ got' = [got EXCEPT ![i] = intent[o]]
         \/ /\ pay[o] = "PENDING" /\ intent[o] = Nil
            /\ AnswerInitiate(i, "generate")
            /\ UNCHANGED got
      /\ UNCHANGED intent

\* There was none: a new intent overwrites what is in the row by now.
StoreIntent(i) ==
  /\ initiate[i] = "generate"
  /\ AnswerInitiate(i, "INTENT")
  /\ intent' = [intent EXCEPT ![OrderOf[i]] = i]
  /\ got' = [got EXCEPT ![i] = i]

InitiateFails(i) ==
  /\ Fault
  /\ initiate[i] \in {"idle", "lookup", "generate"}
  /\ initiate' = [initiate EXCEPT ![i] = "ERROR"]
  /\ UNCHANGED <<orderVars, pay, intent, got, verify, eventVars, charged, bounced>>

-----------------------------------------------------------------------------
(* verify of the payment service.                                          *)

\* Slip: any status but PENDING counts as verified.
NotPending(status) == status # "PENDING"

Verified(status) == status = "SUCCEEDED"

\* Slip: a record without an intent may be verified.
FirstStepWithoutIntent(o) ==
  CASE pay[o] = Nil -> "REFUSED"
    [] pay[o] # Nil /\ Verified(pay[o]) -> "ALREADY"
    [] OTHER -> "update"

\* What the record that was read leads to: an early answer, or the update.
FirstStep(o) ==
  CASE pay[o] = Nil -> "REFUSED"
    [] pay[o] # Nil /\ Verified(pay[o]) -> "ALREADY"
    [] pay[o] # Nil /\ ~Verified(pay[o]) /\ intent[o] = Nil -> "REFUSED"
    [] OTHER -> "update"

FetchPayment(v) ==
  /\ verify[v] = "idle"
  /\ verify' = [verify EXCEPT ![v] = FirstStep(OrderOf[v])]
  /\ UNCHANGED <<orderVars, pay, intent, initiate, got, eventVars, faults, charged, bounced>>

Charge(o) ==
  /\ pay' = [pay EXCEPT ![o] = "SUCCEEDED"]
  /\ charged' = charged \cup {o}

\* The update does not look at the status again.
UpdateSucceeded(v) ==
  /\ verify[v] = "update"
  /\ Charge(OrderOf[v])
  /\ verify' = [verify EXCEPT ![v] = "publish"]
  /\ UNCHANGED <<orderVars, intent, initiate, got, eventVars, faults, bounced>>

\* The database answers with an error, before or after it stored the status.
UpdateFails(v) ==
  /\ Fault
  /\ verify[v] = "update"
  /\ Charge(OrderOf[v]) \/ UNCHANGED <<pay, charged>>
  /\ verify' = [verify EXCEPT ![v] = "fail"]
  /\ UNCHANGED <<orderVars, intent, initiate, got, eventVars, bounced>>

Send(v, routingKey) ==
  /\ key' = [key EXCEPT ![v] = routingKey]
  /\ event' = [event EXCEPT ![v] = "queued"]
  /\ UNCHANGED seen

\* publishPaymentEvent swallows its errors: the event may not have gone out.
PublishSucceeded(v) ==
  /\ verify[v] = "publish"
  /\ verify' = [verify EXCEPT ![v] = "VERIFIED"]
  /\ \/ Send(v, "succeeded") /\ UNCHANGED faults
     \/ Fault /\ UNCHANGED eventVars
  /\ UNCHANGED <<orderVars, pay, intent, initiate, got, charged, bounced>>

\* Slip: the failure is published and not stored.
MarkForgotten(v) ==
  /\ verify[v] = "fail"
  /\ verify' = [verify EXCEPT ![v] = "publishFailed"]
  /\ UNCHANGED <<orderVars, pay, intent, initiate, got, eventVars, faults, charged, bounced>>

\* handlePaymentFailure: the status, whatever it is by now, then the event.
MarkFailed(v) ==
  /\ verify[v] = "fail"
  /\ pay' = [pay EXCEPT ![OrderOf[v]] = "FAILED"]
  /\ verify' = [verify EXCEPT ![v] = "publishFailed"]
  /\ UNCHANGED <<orderVars, intent, initiate, got, eventVars, faults, charged, bounced>>

PublishFailed(v) ==
  /\ verify[v] = "publishFailed"
  /\ verify' = [verify EXCEPT ![v] = "ERROR"]
  /\ \/ Send(v, "failed") /\ UNCHANGED faults
     \/ Fault /\ UNCHANGED eventVars
  /\ UNCHANGED <<orderVars, pay, intent, initiate, got, charged, bounced>>

\* The first query fails, or the one of handlePaymentFailure.
VerifyFails(v) ==
  /\ Fault
  /\ verify[v] \in {"idle", "fail"}
  /\ verify' = [verify EXCEPT ![v] = "ERROR"]
  /\ UNCHANGED <<orderVars, pay, intent, initiate, got, eventVars, charged, bounced>>

\* The payment service's process ends, and with it the calls under way.
Initiating == {i \in Initiates : initiate[i] \in {"lookup", "generate"}}
Verifying ==
  {v \in Verifies : verify[v] \in {"update", "publish", "fail", "publishFailed"}}

PaymentCrash ==
  /\ Fault
  /\ Initiating \cup Verifying # {}
  /\ initiate' = [i \in Initiates |-> IF i \in Initiating THEN "ERROR" ELSE initiate[i]]
  /\ verify' = [v \in Verifies |-> IF v \in Verifying THEN "ERROR" ELSE verify[v]]
  /\ UNCHANGED <<orderVars, pay, intent, got, eventVars, charged, bounced>>

-----------------------------------------------------------------------------
(* The consumer of order_payment_queue: savePaymentSuccess and             *)
(* savePaymentFailed.  There is no prefetch: the handlers interleave.      *)

\* Slips: the status of the payment is copied, the keys are swapped, and every
\* event counts as a success.
CopiedStatus(k) == IF k = "succeeded" THEN "SUCCEEDED" ELSE "FAILED"
SwappedStatus(k) == IF k = "succeeded" THEN "CANCELLED" ELSE "PAID"
PaidAnyway(k) == "PAID"

\* The status that an event asks for.
Outcome(k) == IF k = "succeeded" THEN "PAID" ELSE "CANCELLED"

\* Slips: the guards are inverted, and a failure does not look for PAID.
SkipsInverted(k, status) == status \in {Nil, "PENDING_PAYMENT"}
SkipsCancelledOnly(k, status) ==
  status \in IF k = "succeeded" THEN {Nil, "PAID"} ELSE {Nil, "CANCELLED"}

\* The statuses for which an event is done with: no order, or the guards.
Skips(k, status) ==
  status \in IF k = "succeeded" THEN {Nil, "PAID"} ELSE {Nil, "PAID", "CANCELLED"}

ReadOrder(v) ==
  LET status == order[OrderOf[v]]
  IN  /\ event[v] = "queued"
      /\ event' = [event EXCEPT ![v] = IF Skips(key[v], status) THEN "ack" ELSE "write"]
      /\ seen' = [seen EXCEPT ![v] = status]
      /\ UNCHANGED <<orderVars, paymentVars, key, faults, charged, bounced>>

\* The update does not look at the status again.
Settle(v) == order' = [order EXCEPT ![OrderOf[v]] = Outcome(key[v])]

WriteOrder(v) ==
  /\ event[v] = "write"
  /\ Settle(v)
  /\ event' = [event EXCEPT ![v] = "ack"]
  /\ UNCHANGED <<message, post, paymentVars, key, seen, faults, charged, bounced>>

\* Slip: the message is not acknowledged.
AckForgotten(v) == event[v] = "ack" /\ UNCHANGED vars

AckEvent(v) ==
  /\ event[v] = "ack"
  /\ event' = [event EXCEPT ![v] = "acked"]
  /\ UNCHANGED <<orderVars, paymentVars, key, seen, faults, charged, bounced>>

\* The database answers with an error, before or after it stored the status: a
\* nack without requeue.
EventFails(v) ==
  /\ Fault
  /\ event[v] \in {"queued", "write"}
  /\ (event[v] = "write" /\ Settle(v)) \/ UNCHANGED order
  /\ event' = [event EXCEPT ![v] = "dropped"]
  /\ UNCHANGED <<message, post, paymentVars, key, seen, charged, bounced>>

-----------------------------------------------------------------------------
(* The specification.                                                      *)

Consume(o) == SaveOrder(o) \/ SaveAgain(o) \/ SendPost(o) \/ AckOrder(o)
Record(o) == StorePayment(o) \/ PostAnswered(o)
Initiate(i) == FetchOrder(i) \/ LookupPayment(i) \/ StoreIntent(i)
Verify(v) ==
  \/ FetchPayment(v)
  \/ UpdateSucceeded(v)
  \/ PublishSucceeded(v)
  \/ MarkFailed(v)
  \/ PublishFailed(v)
Handle(v) == ReadOrder(v) \/ WriteOrder(v) \/ AckEvent(v)

Work ==
  \/ \E o \in Orders : Consume(o) \/ Record(o) \/ SaveFails(o) \/ PostRejected(o)
  \/ \E i \in Initiates : Initiate(i) \/ InitiateFails(i)
  \/ \E v \in Verifies : Verify(v) \/ UpdateFails(v) \/ VerifyFails(v)
  \/ \E v \in Verifies : Handle(v) \/ EventFails(v)
  \/ OrderCrash
  \/ PaymentCrash

Next == Work \/ \E o \in Orders : Arrive(o) \/ CreateDirectly(o)

Spec == Init /\ [][Next]_vars

\* Messages are delivered and a handler that has begun goes on.  No client has to
\* call, and nothing has to fail.
Fairness ==
  /\ \A o \in Orders : WF_vars(Consume(o)) /\ WF_vars(Record(o))
  /\ \A v \in Verifies :
       /\ WF_vars(verify[v] # "idle" /\ Verify(v))
       /\ WF_vars(Handle(v))

FairSpec == Spec /\ Fairness

-----------------------------------------------------------------------------
(* Properties.                                                             *)

OrderStatus == {"PENDING_PAYMENT", "PAID", "CANCELLED"}
PaymentStatus == {"PENDING", "SUCCEEDED", "FAILED"}

\* Every variable keeps its type: an order and a payment only ever have a
\* status of their own service.
TypeOK ==
  /\ message \in [Orders -> {"none", "queued", "created", "posted", "acked"}]
  /\ order \in [Orders -> OrderStatus \cup {Nil}]
  /\ post \in [Orders -> {"none", "sent", "orphan", "stored", "done", "lost"}]
  /\ pay \in [Orders -> PaymentStatus \cup {Nil}]
  /\ intent \in [Orders -> Initiates \cup {Nil}]
  /\ initiate \in [Initiates -> {"idle", "lookup", "generate", "INTENT", "REFUSED", "ERROR"}]
  /\ got \in [Initiates -> Initiates \cup {Nil}]
  /\ verify \in [Verifies -> {"idle", "update", "publish", "fail", "publishFailed",
                              "VERIFIED", "ALREADY", "REFUSED", "ERROR"}]
  /\ key \in [Verifies -> {"succeeded", "failed", Nil}]
  /\ event \in [Verifies -> {"none", "queued", "write", "ack", "acked", "dropped"}]
  /\ seen \in [Verifies -> OrderStatus \cup {Nil}]
  /\ faults \in 0..MaxFaults
  /\ charged \subseteq Orders
  /\ bounced \subseteq Orders

\* An order is PAID only if its payment was stored as SUCCEEDED, whatever is
\* redelivered, dropped or lost between the two services.
PaidWasCharged == \A o \in Orders : order[o] = "PAID" => o \in charged

\* An order is CANCELLED only if a call of verify for it failed and said so.
CancelledHadFailure ==
  \A o \in Orders :
    order[o] = "CANCELLED" =>
      \E v \in Verifies : OrderOf[v] = o /\ key[v] = "failed" /\ verify[v] = "ERROR"

\* Anybody may have a payment record created for any id, but a customer is only
\* given an intent, and a payment only gets an outcome, for an order that is stored:
\* verify trusts that an intent comes from an initiate that has looked.
OutcomeNeedsOrder ==
  \A o \in Orders : intent[o] # Nil \/ pay[o] \in {"SUCCEEDED", "FAILED"} => order[o] # Nil

\* A customer is told that the payment is verified, now or previously, only if
\* it was stored as SUCCEEDED.
VerifiedWasCharged ==
  \A v \in Verifies : verify[v] \in {"VERIFIED", "ALREADY"} => OrderOf[v] \in charged

\* The calls and the events for an order that are under way.
UnderWay(o) ==
  {v \in Verifying : OrderOf[v] = o}
    \cup {v \in Verifies : OrderOf[v] = o /\ event[v] \in {"queued", "write", "ack"}}

\* Without a fault the two services agree on an order for which nothing is under
\* way: concurrent calls of verify, each with its event, end in one outcome.
Agreement ==
  \A o \in Orders :
    faults = 0 /\ UnderWay(o) = {} => (pay[o] = "SUCCEEDED" <=> order[o] = "PAID")

\* A failure whose handler read the order when it was PAID does not cancel it;
\* only one that read it before, and writes after, does.
FailureRespectsPaid ==
  [][\A o \in Orders :
       order[o] = "PAID" /\ order'[o] # "PAID" =>
         \E v \in Verifies : OrderOf[v] = o /\ event[v] = "write" /\ seen[v] # "PAID"]_vars

\* Overlapping calls of initiate overwrite each other's intent, but once one is
\* stored and none is being generated it is the intent of the order for good: a
\* customer who was given it is not left with another one's.
IntentFinal(o) ==
  intent[o] # Nil /\ \A i \in Initiates : OrderOf[i] = o => initiate[i] # "generate"

IntentStays ==
  [][\A o \in Orders : IntentFinal(o) => IntentFinal(o)' /\ intent'[o] = intent[o]]_vars

\* How far a call of verify and its verdict are.
Stage(v) ==
  CASE verify[v] \in {"idle", "update"} -> "open"
    [] verify[v] = "fail" -> "failing"
    [] verify[v] \in {"publish", "publishFailed"} \/ event[v] = "queued" -> "due"
    [] event[v] = "write" -> "acting"
    [] event[v] = "ack" -> "done"
    [] OTHER -> "over"

Stages == [v \in Verifies |-> Stage(v)]

\* The calls with a success that is not published, or not acknowledged.
Good ==
  {v \in Verifies :
     \/ verify[v] = "publish"
     \/ event[v] \in {"queued", "write", "ack"} /\ key[v] = "succeeded"}

\* The two services seen as the life of each order, with a mishap for each fault.
Life == INSTANCE OrderLife WITH
  Calls <- Verifies,
  MaxMishaps <- MaxFaults,
  payment <- pay,
  stage <- Stages,
  good <- Good,
  mishaps <- faults

\* Whatever a handler, a query or a crash does, it is one step in the life of an
\* order: no order under an id that has a payment, no verdict without both, no verdict
\* before the payment's status, none carried out that did not find the order open to
\* it, and no failure, loss or repetition but for a fault.
ImplementsOrderLife == Life!Spec

\* Every payment event is acknowledged or dropped in the end, through crashes of
\* the order service.
EventSettled ==
  \A v \in Verifies : event[v] = "queued" ~> event[v] \in {"acked", "dropped"}

\* Without a fault every reservation gets an order with a payment record.
OrderGetsPayment ==
  \A o \in Orders : message[o] = "queued" ~> (pay[o] # Nil \/ faults > 0)

\* Without a fault an order whose payment was verified is PAID in the end.
VerifiedGetsPaid ==
  \A v \in Verifies : verify[v] = "VERIFIED" ~> (order[OrderOf[v]] = "PAID" \/ faults > 0)

\* Guard of savePaymentFailed in order-service.service.ts: a failure is ignored
\* for an order that is PAID.  So an order that is PAID is never cancelled.
PaidStaysPaid == [][\A o \in Orders : order[o] = "PAID" => order'[o] = "PAID"]_vars

\* Answer of verify in payment.service.ts: the payment is verified and the order
\* marked as PAID.  So the order is PAID, at the latest when the event arrives.
VerifiedIsPaid ==
  \A v \in Verifies : verify[v] = "VERIFIED" ~> order[OrderOf[v]] = "PAID"
=============================================================================
