# RashPulse, in TLA+

RashPulse sells a limited stock under load: a gateway takes units of stock with
a Lua script, a queue carries the bookings to a product service that prices and
reserves them, a second queue carries the reservations to an order service, and
a payment service settles the orders through payment events. This directory
holds models of that program, the checks TLC makes on them, and the theorems
that TLAPS proves about them. Paths below are relative to the root of the
repository; `apps/` and `libs/` are its directories.

## The system

| component | state it keeps | operations | modelled in |
| --- | --- | --- | --- |
| API gateway, booking (`apps/api-gateway/src/api-gateway.service.ts`, `common/rabbitmq`, `common/redis`) | one reply queue and one promise per booking | `bookTicket`: script, price, publish, wait for the reply | `FlashSale`, `Reservations` |
| API gateway, reverse proxy (`setup-proxy.ts`, `gateway.config.ts`) | none | forwards `/api/v1/*` | no |
| product service (`product-service.service.ts`, `common/rabbitmq`) | Redis: `stock`, `initial_stock`, `base_price`, `current_price`, `status`, and a lock per customer with a TTL of 300 s | `startFlashSale`, the consumer of `products_pricing_queue` with `handleDynamicPricingUpdate`, `getLiveProductState` (reads only) | `FlashSale`, `SurgePricing` |
| order service (`order-service.service.ts`, `common/rabbitmq`) | PostgreSQL: orders, unique `reservationId` | consumers of `orders_processing_queue` (`saveOrderToDatabase`) and of `order_payment_queue` (`savePaymentSuccess`, `savePaymentFailed`); `getOrderDetails`, `checkOrderStatus` (reads only) | `OrderSettlement`, `OrderLife` |
| payment service (`payment.service.ts`, `common/rabbitmq`) | PostgreSQL: payments, unique `orderId` | `createdummyEntry`, `initiate`, `verify`, `handlePaymentFailure`, `publishPaymentEvent`; `handleWebhook` has no route | `OrderSettlement`, `OrderLife`, without the webhook |
| auth service, OTP (`services/otp.service.ts`) | Redis: code, cooldown, send counter, attempt counter | `generateAndStoreOtp`, `verifyOtp` | `Otp` |
| auth service, tokens and devices (`services/token.service.ts`, `services/device.service.ts`) | PostgreSQL: refresh tokens, devices; Redis: session key | `issueTokens`, `rotateRefreshToken`, `revokeRefreshToken`, `revokeAllForUser`, `upsertDevice`; without a caller: `revokeRefreshToken`, `listDevices`, `deleteDevice` | `RefreshToken`, `Sessions` |
| guards and strategies (`libs/jwt-shared`, `apps/auth-service/src/guards`, `strategies`) | none | stateless checks of a request | no |
| notification service | none | a greeting | no |
| `libs/swagger` | none | API documentation at start-up | no |
| Redis, RabbitMQ, PostgreSQL | the state above | external: atomic commands, at-least-once delivery with acknowledgements, unique constraints | as the models' shared variables |

How they interact: gateway and product service share Redis keys and exchange
messages over `flash_sale_exchange` and a reply queue per booking; the product
service publishes to `order_exchange`; the order service POSTs to the payment
service (through the gateway's proxy, on a route that any client may call as well)
and does not wait; the payment service
GETs the order and publishes to `payment_events_exchange`. No two services share
a transaction, and no consumer sets a prefetch limit, so the handlers of all
delivered messages interleave at every `await`.

### What is hard, and what makes each part correct

* **Booking.** The script is atomic and nothing after it is: the price, the
  publication and the reply may each be the last step of a booking. Correct
  means that every unit is accounted for and every client is answered.
* **Pricing and reservation.** Several GETs, then `SET NX`, then a SET, then two
  messages and an acknowledgement, while other runs do the same, locks expire,
  and a crash brings the message back after any of these steps. Correct means
  one reservation per customer at a time, a price within the surge limits, a
  refusal only for the reason it states, no unit lost or made up.
* **Starting a sale.** Five SETs that bookings run between, and that a second
  start repeats over a sale that is going on.
* **From the sale to the order.** A customer who waits is not told what became
  of her booking. Correct means no more orders than units, one open order per
  customer, and an order for everyone who waits.
* **Orders.** At-least-once delivery against a unique key, and a request to
  another service that nobody awaits, and that a client can get ahead of. Correct
  means one order with one payment record per reservation.
* **Payments.** Concurrent `verify` calls, a status and an event that are
  written separately, events that are handled concurrently with a read and a
  later unguarded update. Correct means that the order and the payment agree,
  and that neither status is reached without its cause.
* **OTP.** A cooldown, two counters and a code that separate commands read,
  write and delete, and that expire. Correct means that no overlap of calls gets
  past a limit, that a code works once, and that nobody is locked out for ever.
* **Tokens and devices.** A row is read, and replaced some queries later;
  finding a revoked one ends every session. Correct means that a token has one
  successor, that what was revoked stays so, and that a user who did nothing
  wrong stays logged in.

PROJECT.json lists each hazard with its line, and the properties that cover it.

## The modules

`SurgePricing` is the pricing ladder as pure operators: a factor is a
percentage, so a price in paise is a base price in rupees times a percentage.
Rounding of JavaScript floats is left out.

`FlashSale` models one product, since every key contains the product id.

| state | code |
| --- | --- |
| `stock`, `initialStock`, `basePrice`, `currentPrice`, `live`, `lock` | the Redis keys |
| `starting` | the next SET of a call of `startFlashSale` |
| `booking`, `billed` | the next step of a call of `bookTicket`, or the status it answered, and its `purchasedPrice` |
| `msg`, `run`, `local` | where the message of a booking is (queued, at a step of `handleDynamicPricingUpdate` or its consumer, acknowledged, dropped), how many runs came before, what this run has read |
| `reply`, `published` | the reply to the gateway; the orders published, by reservation token |
| `faults` | errors and crashes so far, bounded by `MaxFaults` |
| `claimed`, `early`, `expired`, `repeated`, `supplied`, `discarded`, `leaked` | history that no guard reads |

One Redis command or one AMQP frame is one action; what lies between two awaits
belongs to the action before it. `Gatekeeper` is the whole script with
`bookTicket`'s early returns; `Deliver`, `ReadInitial` and `ReadBase` are the
three GETs; `Lock` is `SET NX` with both outcomes; `SetPrice`, `PublishOrder`,
`ReplySuccess` and `Ack` are the path of a reservation, `Refund`, `ReplyFailure`
and `Drop` that of a refusal. Faults: `StartFails`, `BookingFails` and
`RedisError` are commands answered by an error, with what each handler's catch
does; `GatewayCrash` and `ProductCrash` end a process or its connection.
`LockExpires` is the TTL; it needs no fault. `Resend` is a Redis command that is
executed twice: both clients are created with `maxRetriesPerRequest: null`, so
ioredis keeps a command that was not answered and sends it again after it has
reconnected. `StockAgain`, `ScriptAgain`, `LockAgain` and `RefundAgain` are such
executions of `SET stock`, the script, `SET NX` and `INCR`, with the state they
leave and without an answer; the handler's own action is the answered one. The
script takes a unit for nobody, `SET NX` makes the run meet its own lock.

`Reservations` is what `FlashSale` implements: an office without Redis, queues,
prices and steps. It puts a batch on sale, takes a unit for a booking, reserves
it for a customer without a reservation that holds, or gives it back, and a
reservation may end. Its mishaps are the only way out of that: bookings are
decided again, a unit is lost or one too many given back, a batch is put on sale
again or withdrawn. `Office` in `FlashSale` is the refinement mapping: the office's
units are the stock, its undecided bookings are `Unsettled`, its mishaps are the
faults. Most steps of `FlashSale` stutter.

`OrderSettlement` models orders by their reservation, the payment of an order,
and the calls of `initiate` and `verify`; a call of `verify` publishes at most
one event, so events are named by their call. A member of `Orders` is the id of the
order that a reservation will get, or an id that is no order's; which of the two is
open until its message arrives (`Arrive`).

| state | code |
| --- | --- |
| `message`, `order` | the message of `orders_processing_queue` and how far `saveOrderToDatabase` is; the status of the row |
| `post` | the POST that `initializedPayment` sends: under way, an orphan after a restart, stored, answered, lost |
| `pay`, `intent` | the payment row: its status, its `providerIntentId` |
| `initiate`, `got`, `verify` | the next step of a call or its answer |
| `key`, `event`, `seen` | the event's routing key, where it is, and the status its handler read |
| `charged`, `bounced` | history that no guard reads |

`SaveAgain` is the redelivery that meets its own row: the insert fails and the
message goes back, without end. `PostRejected` is the unhandled rejection that
ends the order service's process, and `Restart` what any end of it does.
`POST /payments/create` has no guard and does not look for the order: its handler,
`CreateEntry`, is called by the order service (`StorePayment`) and by any client
(`CreateDirectly`), with the id of a stored order or with one that no order has.
The id of an order is made up when its row is stored, so nobody names it before.
When a client comes first, the unique `orderId` makes the POST of the order service
fail: that is `PostRejected`, and counts as a fault like any other refusal of it.
`UpdateFails` lets the database report an error before or after it has stored.
`ReadOrder` and `WriteOrder` are the two queries of `savePaymentSuccess` and
`savePaymentFailed`.

`OrderLife` is what `OrderSettlement` implements: the life of each order, without
messages, requests, intents and acknowledgements. An order is placed, and a payment
is recorded for it, or for an id that stays without an order; a call decides once
about a payment that has its order, and its verdict is taken up if the order is
open to it, carried out, and closed. The order may have changed between taking up
and carrying out, which is the one race that the abstract specification allows.
Mishaps are the only way to a failure, to the loss of a verdict, and to one that is
due a second time. `Life` in `OrderSettlement` is the refinement mapping: a call's
`stage` is read off its own step and that of its event (`Stage`), `good` are the
calls whose success is still to be published or acknowledged (`Good`), and a mishap
is a fault. All of `initiate`, the POST, and every message of an order stutter.

`Checkout` composes `FlashSale` and `OrderSettlement`. The reservation token of
an order message is the order's unique `reservationId`, so the orders are named by
the tokens, and the publication of the product service is the arrival of the
message at the order service: `PlaceOrder` is both steps at once. `Sell` is any
other step of the sale, `Settle` any other step of the settlement, with the records
that clients create for stored orders (those for other ids meet nothing of the sale,
and are checked in `OrderSettlement`). Each side has
its own faults (`MaxFaults`, `MaxFailures`).

`RefreshToken` models the sessions of one user, since no query spans two. A row is
named by the call that creates it, and so is its token.

| state | code |
| --- | --- |
| `devices`, `row`, `expired` | the rows of `devices` and `refresh_tokens`, with `revoked`; the tokens past their expiry |
| `session` | `auth:session:<user>:<device>`, which nothing reads |
| `pc`, `device`, `parent` | the next step of a call of `verifyOtp` or `refresh`, or how it ended; the device it is for; the token a refresh presents |
| `saw`, `purged`, `late` | history: the rows a call could see when it looked, the tokens revoked with all, the rotations past their check at that time |

`Present` is `AuthService.refresh` with the checks of `rotateRefreshToken` that
need no row; a token is known to clients when its call was answered. `ReadRow`
decides, `Rotate` is the transaction, `RevokeAll` is `revokeAllForUser`. A call may
fail before any step (`CallFails`), which stands for an error before that step's
effect, an error after the effect of the step before, and a lost answer; `Crash`
ends all calls.

`Sessions` is what `RefreshToken` implements: the tokens of a user, without devices,
session keys and answers. A refresh looks at its token once, and is then entitled to
replace it, alarmed, or refused; what it is entitled to it may do later, whatever
became of the token. A mishap ends refreshes and touches no token. `Store` in
`RefreshToken` is the mapping: the rows are the tokens' states, and the next step of
a refresh says what it is entitled to (`Stage`).

`Otp` models one phone number, since every key contains it.

| state | code |
| --- | --- |
| `code`, `cooldown` | `auth:otp` (by the request that stored it), `auth:otp_send_cd` |
| `sends`, `sendTtl`, `attempts`, `attemptTtl` | the counters `auth:otp_send` and `auth:otp_attempt`, and their TTLs |
| `pc`, `number`, `asked` | the next step of a call, what INCR answered it, the code it read |
| `counted`, `clean`, `lost`, `ended` | history that no guard reads |

Each Redis command is an action, and the MULTI is one. Keys expire at any time
after their TTL was set, with one order kept: the TTL of the attempts is as long
as that of the code, so that the one set first ends first. `SendCountedAgain` and
`AttemptCountedAgain` are an `INCR` that is executed twice, as in `FlashSale`. A code is in `clean`
when, as it was stored, no other call was between its first and its last effect
on code and attempts.

`MCFlashSale`, `MCOrderSettlement`, `MCCheckout`, `MCRefreshToken` and `MCOtp` give the constants
their values for TLC; the modules named `...Proofs` hold the theorems. Operators whose
comment begins with *Slip* describe a plausible mistake in the definition that
follows them. No specification uses them: PROJECT.json pairs each with a
property that TLC finds violated when the definition is replaced by it.

### Assumptions

* One process per service, as the repository deploys them.
* Queues and exchanges exist and are durable, and messages persistent, as
  declared; RabbitMQ loses none that reached it.
* A Redis command is executed once, or is answered by an error and not executed,
  or, when its answer is lost, is executed again. Where a second execution would
  find what the first one left (a GET, the SET of a price or of a code, a DEL, an
  EXPIRE), only the answered one is modelled: the command is taken for one that
  was executed late.
* A lost AMQP connection acts like a lost process: no code handles the
  connection's `error` event, which ends the process, to be started again. (An
  orderly close by the broker emits no `error`; nothing then reconnects. That is
  listed as a hazard.)
* `provider` of a payment is `mock`, the schema's default and the only value any
  code stores.
* The TTL of a refresh token's row is the expiry of its JWT (true of values such
  as `30d`; `parseDurationToSeconds` takes other forms for 30 days).
* `initialStock` is a whole number and `basePrice` a whole number of rupees.

## What TLC checks

| run | instance | shows |
| --- | --- | --- |
| `flash_sale` (`FlashSale.cfg`) | two customers, three bookings, three units, no faults | type, surge limits and refusals, in all interleavings with the start of the sale and with expiry |
| `flash_sale_faults` (`FlashSaleFaults.cfg`) | one customer, two bookings, begun when the sale is live, a second start, one fault of any kind at any step | refinement of `Reservations`, ledger, one reservation per customer, success only for a published order |
| `flash_sale_liveness` (`FlashSaleLiveness.cfg`) | the same without the second start | every booking with a unit is answered, every message leaves the queue |
| `settlement` (`OrderSettlement.cfg`) | one order or id without one, a client who creates its record, two `initiate`, two `verify`, two faults | refinement of `OrderLife`, causes of PAID and CANCELLED, no intent and no outcome without an order, agreement of the services, intents that stay, delivery of orders, payments, events |
| `checkout` (`Checkout.cfg`) | two customers, three bookings, three units, no calls of `initiate` and `verify`, no faults | orders within the units, one open order per customer, an order for whoever waits |
| `refresh` (`RefreshToken.cfg`) | two logins of one device, three refreshes, one fault | refinement of `Sessions`, forks, reuse, what it revokes, honest clients, devices, session key |
| `otp` (`Otp.cfg`) | two requests, two verifications, limits of one, one fault | both limits, use of a code, counters' ends, and that limits are lifted |
| `last_unit`, `refused` | as `flash_sale`; as `flash_sale_liveness`, with commands that are answered by an error as the only faults | two statements of the sources that do not hold |
| `paid_cancelled`, `verified_unpaid` | as `settlement`, one fault, and records created by the order service alone | two more |
| `reuse` | as `refresh`, no fault | one more |

`StockLedger` is the centre of the first model. With any number of starts,
`stock + published + unsettled + discarded + leaked = supplied + repeated`. A unit
is *unsettled* from the script on until its message takes effect. A booking that
is answered SOLD_OUT or fails leaves its unit there for ever: it is lost. What a
later start overwrites is *discarded*, and what a script took whose answer was lost
is *leaked*. `repeated` counts the messages that went back to the queue after they
took effect, and the INCRs that were executed twice, and each is exactly one unit
too many: a run that published is refused by its own lock, and gives back a unit
that was sold; a run that refunded may refund again.

`ImplementsReservations` says the rest of what the sale does: that a unit goes to a
booking at most once, that each booking has one outcome, that a reservation is only
made when no other one of the customer holds, and that the faults do what the
mishaps of the office do and nothing worse. `NeverOversold`, `OneOpenOrder` and
`WaitingHasOrder` carry it to the orders. A customer whose booking was refused is
told to wait as well, since `bookTicket` does not look at the reply: she has an
order all the same, through the booking that holds the lock. `OneOpenOrder` is as
strong as the code: no handler looks at `expiresAt`, and the reservation whose lock
has expired can still be paid, next to the one that followed it.

`ImplementsOrderLife` and `ImplementsSessions` say of every step of a handler, a
query, an event, a crash or a redelivery what it is allowed to be. The single
invariants beside them each name one consequence that a reader will look for, or
speak of what the abstract specification leaves out: causes, causes in the past, and
what holds without a fault.

`OutcomeNeedsOrder` is about the records that anybody may create. `verify` does not
ask for the order: it relies on the intent in the record, which only `initiate`
stores, after it has asked. The property follows that trust through both calls.

`IntentStays` says what is left of two overlapping calls of `initiate`: the second
overwrites the intent that the first one answered, and after the last of them the
intent never changes again.

The properties of `RefreshToken` and `Otp` say what separate queries and commands
leave of an intention. A token can be replaced twice, and a code used twice, but
only by calls of which each read before the other wrote (`ForkNeedsOverlap`,
`SecondUseNeedsOverlap`); reuse detection misses the rotations that are past their
check, and nothing else (`PurgeHolds`); the limit of attempts holds for a code in
`clean`, and for others a `DEL` that comes late starts the count again
(`AttemptsLimited`).

**Bounds.** Three units and three bookings let one customer compete with herself and
with another, and let the third booking meet the last unit (`DECR` to 0) and the
price steps at 33 and 66 per cent. One customer and two bookings are the least for
two runs to compete for one lock; one fault covers each single error, crash or
repeated command at each step, and a redelivered run is compared with its own
earlier effect; one more start covers a reset at each step. In `settlement` two
calls of `verify` are the least for a success and a failure to race, which takes one
fault, and a second fault then crashes, drops or loses. `checkout` leaves out what
its parts check alone: with a fault on either side, or with calls of `initiate` and
`verify`, the product of the two is beyond a few minutes. Locks expire in it at any
time, which is what makes a second order. In `refresh` two refreshes fork a token
and a third meets a revoked one, or is in flight when all are revoked; two logins
create a device twice. In `otp` limits of one are passed by the second call.
`flash_sale`, `flash_sale_faults`, `checkout` and `refresh` use symmetry (two
bookings of one customer; the logins, the refreshes), which is sound because they
check invariants and, for the refinements, safety properties whose abstract
specifications are symmetric too. `otp` checks liveness, for which TLC's symmetry is
not sound: there the calls of a kind begin in the order of their names (`InOrder`).
`MaxFaults` and `MaxFailures` bound errors, crashes and repeated commands, and
nothing else is bounded: `run`, `repeated` and `leaked` grow only with faults.
Larger instances are what the proofs are for: no theorem below assumes a bound, and
those of `Checkout` cover the faults and calls that its run leaves out.

**Deadlock** is not checked: when all bookings are served and the faults are
used up, the system rests.

**Fairness.** Weak fairness of the steps of each handler that has begun, and of
delivery: Node runs a ready continuation, RabbitMQ delivers a queued message to a
connected consumer, Redis and PostgreSQL answer. Faults are finitely many, since
a system that fails for ever serves nobody. There is no fairness of customers,
of the administrator, of expiry or of faults. `OrderGetsPayment` and
`VerifiedGetsPaid` are claimed of runs without a fault only: with one the code
does not deliver them, as `SaveAgain` and `verified_unpaid` show. `LimitsLift` too:
a failed EXPIRE leaves the attempts without a TTL. It needs fairness of begun
calls and of expiry.

### Disagreements between the code and its own text

1. `last_unit`: `DECR` answers 0 for the last unit, which the gateway takes for
   sold out (`api-gateway.service.ts:53`); the unit is taken and never sold.
2. `refused`: the SET of the price fails after the lock was taken, the message is
   requeued, and its second run refuses itself with "You already have an active
   checkout session". (`LockAgain` leads there too; the run leaves it out, so that its
   trace is that of the plain error.)
3. `paid_cancelled`: the guard of `savePaymentFailed` is tested before an await;
   a PAID order can be cancelled.
4. `verified_unpaid`: "Order marked as PAID successfully" is answered although
   the event may be lost at either end.
5. `reuse`: `revokeAllForUser` leaves tokens that look reused. A replaced token is
   presented once more, which revokes all; when its successor, unused so far, is first
   presented, "Refresh token reuse detected" is answered, and all are revoked again.

Without a run of its own: `status = LIVE` is read by nobody, although
`product-service.service.ts:125` says that the gateway waits for it; bookings take
units as soon as `stock` is set, and `BilledWithinSurge` has to exclude them.

## What TLAPS proves

For every finite set of bookings, any customers, orders, calls and devices, any
initial stocks, prices and limits, and any number of faults, under the named assumptions on the
constants only:

| theorem | statement |
| --- | --- |
| `SurgeMonotone` | less stock never lowers the price, which stays within 100 to 150 per cent of the base |
| `FlashSaleProofs!TypeCorrect` | `Spec => []TypeOK` |
| `OneReservation` | `Spec => []OneReservationPerUser` |
| `Ledger` | `Spec => []StockLedger` |
| `SuccessPublished` | `Spec => []SuccessIsPublished` |
| `Unforgotten` | `Spec => []NobodyForgotten`: while a booking waits unanswered, its message is queued or with a run whose reply is still to come |
| `SurgeBilling` | `Spec => []BilledWithinSurge` |
| `Refusals` | `Spec => []RefusedForAnother` |
| `SaleIsOffice` | `Spec => ImplementsReservations`: `FlashSale` implements `Reservations` |
| `OrderSettlementProofs!TypeCorrect` | `Spec => []TypeOK` |
| `PaidIsCharged`, `CancelledIsFailure`, `OutcomesNeedOrders`, `VerifiedIsCharged` | the invariants of the same purpose |
| `ServicesAgree` | `Spec => []Agreement` |
| `RespectsPaid`, `IntentIsFinal` | `Spec => FailureRespectsPaid`, `Spec => IntentStays` |
| `SettlementIsOrderLife` | `Spec => ImplementsOrderLife`: `OrderSettlement` implements `OrderLife` |
| `SaleIsUndisturbed`, `DeskIsUndisturbed` | `Checkout!Spec` implies the specification of either part |
| `SaleIsNotOversold`, `OrdersOfOneReservation`, `WaitingIsServed` | the invariants of `checkout` |
| `OrdersWithinStock` | `Spec => []SoldWithinStock`: a sale that is started once, without a fault, has at most as many orders and units in stock as it was started with |
| `PaidWasBooked` | `Spec => []PaidIsBooked`: a PAID order stands for a published reservation of a booking with a unit, and for a stored payment |
| `RefreshTokenProofs!TypeCorrect`, `OtpProofs!TypeCorrect` | `Spec => []TypeOK` |
| `ForksOverlap`, `PurgeIsFinal`, `HonestStaysIn`, `NothingHalfRevoked`, `ChainOnDevice`, `DoublesOverlap`, `SessionFollows` | the invariants of `refresh` |
| `RefreshIsSessions` | `Spec => ImplementsSessions`: `RefreshToken` implements `Sessions` |
| `SendLimitHolds`, `AttemptLimitHolds`, `SecondUsesOverlap`, `CodeStays`, `CountersHaveEnd` | the invariants of `otp` |

None of the invariants is inductive alone. In `FlashSaleProofs` they stand on
each other: `TypeOK`; `BookingInv` (a message exists only for a claimed unit, and
whoever waits has one); `FreshInv` (a published token belongs to an earlier run, or
to the current one after its publication, so the token of a run about to publish
is new); `RunInv` (a message was run at most once more than there were faults). With
them `StockLedger` is itself inductive: each step moves one request between the
sets whose cardinalities are added. `LockInv` says that an unexpired reservation,
published or about to be, is the one in the lock; two of one customer are then
the same. `PriceInv` says that, without an early booking, the engine and the
bookings run only after every price is set. `RefusedInv` says that, without a
fault, the holder of a lock is past it and does not run again. `SupplyInv` says that
one start without a fault supplies its units once, and `RepliedInv` that no run ends
before it has replied.

`ReservationsProofs` maps each action of `FlashSale` to one of the office or to a
stutter, in one lemma per handler and per fault. `FreshInv` and `LockInv` give the
guard of `Reserve`; `BookingInv` that of `Take` and `GiveBack`; `RunInv` keeps the
names of the reservations within those of the office.

`CheckoutProofs` shows that each step of `Checkout` is a step or a stutter of either
part, so that every invariant proved of a part holds in the composition, cited
through its instance. What is new is `Link`: a message at the order service, and
so an order, stands for a published reservation. With it `NeverOversold` is
`StockLedger`, and `OneOpenOrder` is `OneReservationPerUser`. For `WaitingHasOrder`,
`SuccessInv` and `RefusedForAnother` lead from the reply to a publication, and
`PostInv` from a message that is done with to a payment record. `OrdersWithinStock`
takes what was supplied from `SupplyInv`, and `PaidWasBooked` joins `Link` with
`FreshInv` on the one side and `PaidWasCharged` on the other.

In `OrderSettlementProofs` one invariant, `IInv`, says what must have been stored
before a handler can be where it is: the order's row before its POST
(`RowFirst`, which also says that an id with a record and no order gets none), the
order before a call of `initiate` goes on and before any step of `verify` after its
first (`LookedFirst`), the payment before `verify` updates it, SUCCEEDED before the event and
the answer, and, for an event about to be written, that what its handler read
did not stop it. `AgreeInv` adds what holds without a fault.

`OrderLifeProofs` maps the steps of `OrderSettlement` to those of `OrderLife`, in one
lemma for the orders, one for `initiate`, one for `verify`, one for the events, and
one for each kind of crash. A step of one call moves one stage (`OneStageMoves`), so
that each case compares the stages of a single call before and after. Two facts are
needed of the states: `IInv`, which gives the abstract guards (there is a payment
and an order when a verdict is reached, and the order that an event finds is there), and `SentLast`: a
call has an event only when it has ended, so that its stage is read off one or the
other and never off both.

In `RefreshTokenProofs`, `IInv` ties where a call is to what it has stored
(`CallInv`), a login to the devices it saw (`LoginInv`), a refresh to a token that
was answered for its device (`ChainInv`), and a successor to its revoked
predecessor (`ReplaceInv`); `LateInv` and `SessionInv` are `PurgeHolds` and
`SessionMovesOn` before their last step.

`SessionsProofs` has one lemma for each action of `RefreshToken`. `ChainInv` and
`CallInv` give the guards: the token that a refresh reads was answered, so it has a
row, and `Verdict` never meets a row that is missing; a token that is opened or
created by a rotation had none. `Unpresented` says that a refresh presents once.

In `OtpProofs` the limits rest on the numbers that INCR answers: within one life of
a counter they are distinct (`SendInv`, `CleanInv`), and a set whose members have
distinct numbers from 1 to n has at most n members (`NumberedSet`). `CleanInv` says
why that life lasts as long as the code: nobody is about to delete the counter,
and its TTL, being the later one, cannot end first. `NumbersInv` carries it over
the end of the code.

Only model-checked: the six liveness properties, which need fairness, and the
violations. For most of the six, the safety half is proved, so that only "the steps
go on" is left to TLC: `NobodyForgotten` for `BookingAnswered` (a reply is still to
come for whoever waits), `PostInv` for `OrderGetsPayment` (without a fault, a message
that is done with has led to a payment record or to a POST under way), `AgreeInv` for
`VerifiedGetsPaid` (without a fault, a success that is not yet in the order has its
event under way) and `CountersEnd` for `LimitsLift`. `EventSettled` and
`MessageSettled` have none: that an event or a message moves on is all they say.

## Not modelled

`handleWebhook` (no route), the signature of a provider that is never stored,
the proxy, guards, Swagger and the notification service (no state),
`checkOrderStatus` and `getLiveProductState` (reads), floating-point rounding,
several products, users or phone numbers (their keys and rows are disjoint), a
second instance of a service, a client's foreign or forged tokens (they find no
row), and the methods of the auth service that have no caller.

## Plan

Done: every component with state, its safety properties proved; a sale with any
number of starts and repeated commands; three abstract specifications
(`Reservations`, `OrderLife`, `Sessions`) with their refinements proved; the
composition `Checkout`. Left:

1. What `AttemptsLimited` becomes for codes outside `clean`: a bound by the number
   of late deletions.
2. The refinements carried through the composition: `Checkout` as an office whose
   reservations become orders.
3. The reply queues that bookings leave behind, if the code ever bounds them.
