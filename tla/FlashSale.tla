----------------------------- MODULE FlashSale -----------------------------
(***************************************************************************)
(* The flash sale of one product: an administrator's startFlashSale, the   *)
(* booking handler of the API gateway with its Lua gatekeeper, the queue   *)
(* products_pricing_queue, the consumer of the product service with its    *)
(* pricing engine and its reservation lock, and the Redis keys that they   *)
(* all share.                                                              *)
(*                                                                         *)
(* A Redis command is one step.  So is a frame sent to RabbitMQ, since a   *)
(* lost connection may cut between any two of them.  Whatever lies between *)
(* two awaits of a handler belongs to the step that precedes it.  Every    *)
(* Redis key contains the product id and every handler touches the keys of *)
(* one product only, so one product is the whole system.                   *)
(***************************************************************************)
EXTENDS FiniteSets, SurgePricing

CONSTANTS
  Users,        \* the customers
  Requests,     \* the calls of bookTicket
  Sales,        \* the calls of startFlashSale
  UserOf,       \* the customer who makes a request
  InitialOf,    \* the initialStock of a call of startFlashSale
  BaseOf,       \* the basePrice, in rupees, of a call of startFlashSale
  Nil,          \* what Redis answers for a key that does not exist
  MaxFaults     \* how many errors, crashes and lost connections may happen

ASSUME RequestsAssumption == IsFiniteSet(Requests) /\ UserOf \in [Requests -> Users]

\* startFlashSale validates its body: at least one unit, no negative price.
ASSUME SalesAssumption ==
  /\ InitialOf \in [Sales -> Nat \ {0}]
  /\ BaseOf \in [Sales -> Nat]

ASSUME FaultsAssumption == MaxFaults \in Nat

\* A reservation token is new in every run of the consumer: the request and
\* how many runs there were before stand for the random UUID.
Tokens == Requests \X Nat
LockValues == [token : Tokens, lockedPrice : Nat]

ASSUME NilAssumption == Nil \notin Int /\ Nil \notin LockValues

VARIABLES
  \* Redis
  stock,         \* product:<id>:stock
  initialStock,  \* product:<id>:initial_stock
  basePrice,     \* product:<id>:base_price, in rupees
  currentPrice,  \* product:<id>:current_price, in paise
  live,          \* product:<id>:status is LIVE
  lock,          \* locked:productId:<id>:userId:<user>, per customer
  \* the handlers
  starting,      \* the next command of a call of startFlashSale
  booking,       \* the next step of a booking, or the answer it was given
  billed,        \* purchasedPrice of the message of a booking, in paise
  \* products_pricing_queue, its consumer, and what leaves it
  msg,           \* where the message of a request is, or the consumer's next step
  run,           \* how many runs of the consumer on the message came before
  local,         \* what the current run has read from Redis
  reply,         \* the first reply sent to the reply queue of the gateway
  published,     \* the reservations published to order_exchange
  faults,        \* the errors and crashes so far
  \* history, read by no guard
  claimed,       \* the requests for which the script took a unit of stock
  early,         \* those for which it did before the status was LIVE
  expired,       \* the tokens whose lock reached the end of its TTL
  repeated,      \* what took effect again: redelivered messages, re-sent INCRs
  supplied,      \* the units that calls of startFlashSale have put on sale
  discarded,     \* the units in stock that a later start has overwritten
  leaked         \* the units that a re-sent script took for nobody

redisVars == <<stock, initialStock, basePrice, currentPrice, live, lock>>
gatewayVars == <<booking, billed>>
consumerVars == <<msg, run, local, reply, published>>
historyVars == <<claimed, early, expired, repeated, supplied, discarded, leaked>>
vars == <<redisVars, starting, gatewayVars, consumerVars, faults, historyVars>>

NoLocal == [stock |-> 0, initial |-> 0, price |-> 0]

Init ==
  /\ stock = Nil
  /\ initialStock = Nil
  /\ basePrice = Nil
  /\ currentPrice = Nil
  /\ live = FALSE
  /\ lock = [u \in Users |-> Nil]
  /\ starting = [s \in Sales |-> "idle"]
  /\ booking = [r \in Requests |-> "new"]
  /\ billed = [r \in Requests |-> Nil]
  /\ msg = [r \in Requests |-> "none"]
  /\ run = [r \in Requests |-> 0]
  /\ local = [r \in Requests |-> NoLocal]
  /\ reply = [r \in Requests |-> "none"]
  /\ published = {}
  /\ faults = 0
  /\ claimed = {}
  /\ early = {}
  /\ expired = {}
  /\ repeated = 0
  /\ supplied = 0
  /\ discarded = 0
  /\ leaked = 0

-----------------------------------------------------------------------------
(* startFlashSale, one SET at a time.                                      *)

StartStep(s, from, to) ==
  /\ starting[s] = from
  /\ starting' = [starting EXCEPT ![s] = to]
  /\ UNCHANGED <<lock, gatewayVars, consumerVars, faults, claimed, early, expired,
                 repeated, leaked>>

SetInitialStock(s) ==
  /\ StartStep(s, "idle", "stock")
  /\ initialStock' = InitialOf[s]
  /\ UNCHANGED <<stock, basePrice, currentPrice, live, supplied, discarded>>

\* The units a stock key stands for.
Left(s) == IF s = Nil THEN 0 ELSE s

\* The units replace those that are left.
PutOnSale(s) ==
  /\ stock' = InitialOf[s]
  /\ supplied' = supplied + InitialOf[s]
  /\ discarded' = discarded + Left(stock)

SetStock(s) ==
  /\ StartStep(s, "stock", "base")
  /\ PutOnSale(s)
  /\ UNCHANGED <<initialStock, basePrice, currentPrice, live>>

SetBasePrice(s) ==
  /\ StartStep(s, "base", "current")
  /\ basePrice' = BaseOf[s]
  /\ UNCHANGED <<stock, initialStock, currentPrice, live, supplied, discarded>>

SetCurrentPrice(s) ==
  /\ StartStep(s, "current", "status")
  /\ currentPrice' = BaseOf[s] * 100
  /\ UNCHANGED <<stock, initialStock, basePrice, live, supplied, discarded>>

SetLive(s) ==
  /\ StartStep(s, "status", "live")
  /\ live' = TRUE
  /\ UNCHANGED <<stock, initialStock, basePrice, currentPrice, supplied, discarded>>

\* A command is answered by an error, which the handler catches: the keys
\* that are set stay set.
StartFails(s) ==
  /\ faults < MaxFaults
  /\ starting[s] \notin {"live", "failed"}
  /\ starting' = [starting EXCEPT ![s] = "failed"]
  /\ faults' = faults + 1
  /\ UNCHANGED <<redisVars, gatewayVars, consumerVars, historyVars>>

-----------------------------------------------------------------------------
(* bookTicket of the API gateway.                                          *)

\* The test of CHECK_AND_DECR_STOCK_LUA on a stock that exists.
HasUnit(s) == s > 0

Claims(s) == s # Nil /\ HasUnit(s)

\* Slip: the script takes two units.
GateTwice(s) == IF Claims(s) THEN s - 2 ELSE s

\* Slip: the script tests the stock and does not decrement it.
GateKeeps(s) == s

\* What the script returns, and what it leaves in the stock key.
GateResult(s) == IF s = Nil THEN -1 ELSE IF HasUnit(s) THEN s - 1 ELSE 0
GateStock(s) == IF Claims(s) THEN s - 1 ELSE s

\* bookTicket's two early returns; any other result goes on to the price.
Verdict(result) ==
  CASE result = -1 -> "NOT_FOUND"
    [] result = 0 -> "SOLD_OUT"
    [] OTHER -> "price"

Gatekeeper(r) ==
  /\ booking[r] = "new"
  /\ booking' = [booking EXCEPT ![r] = Verdict(GateResult(stock))]
  /\ stock' = GateStock(stock)
  /\ claimed' = IF Claims(stock) THEN claimed \cup {r} ELSE claimed
  /\ early' = IF Claims(stock) /\ ~live THEN early \cup {r} ELSE early
  /\ UNCHANGED <<initialStock, basePrice, currentPrice, live, lock, starting,
                 billed, consumerVars, faults, expired, repeated, supplied, discarded,
                 leaked>>

\* The price a customer is billed: `current_price || '500'`.
BilledPrice(price) == IF price = Nil THEN DefaultBasePrice * 100 ELSE price

ReadPrice(r) ==
  /\ booking[r] = "price"
  /\ booking' = [booking EXCEPT ![r] = "publish"]
  /\ billed' = [billed EXCEPT ![r] = BilledPrice(currentPrice)]
  /\ UNCHANGED <<redisVars, starting, consumerVars, faults, historyVars>>

\* publishToExchange: the reply queue exists, the message goes out, and the
\* handler waits for the first reply with its correlation id.
Publish(r) ==
  /\ booking[r] = "publish"
  /\ booking' = [booking EXCEPT ![r] = "waiting"]
  /\ msg' = [msg EXCEPT ![r] = "queued"]
  /\ UNCHANGED <<redisVars, starting, billed, run, local, reply, published,
                 faults, historyVars>>

\* The answer does not depend on what the reply says.
ReceiveReply(r) ==
  /\ booking[r] = "waiting"
  /\ reply[r] # "none"
  /\ booking' = [booking EXCEPT ![r] = "IN_WAITING_ROOM"]
  /\ UNCHANGED <<redisVars, starting, billed, consumerVars, faults, historyVars>>

\* The script, the GET or assertQueue fails: the exception leaves bookTicket,
\* which gives no unit back.
BookingFails(r) ==
  /\ faults < MaxFaults
  /\ booking[r] \in {"new", "price", "publish"}
  /\ booking' = [booking EXCEPT ![r] = "ERROR"]
  /\ faults' = faults + 1
  /\ UNCHANGED <<redisVars, starting, billed, consumerVars, historyVars>>

\* The gateway loses its process or its connection: no client that waits gets
\* another answer.
InGateway == {"price", "publish", "waiting"}

GatewayCrash ==
  /\ faults < MaxFaults
  /\ \E r \in Requests : booking[r] \in InGateway
  /\ booking' = [r \in Requests |-> IF booking[r] \in InGateway THEN "ERROR" ELSE booking[r]]
  /\ faults' = faults + 1
  /\ UNCHANGED <<redisVars, starting, billed, consumerVars, historyVars>>

-----------------------------------------------------------------------------
(* The consumer of products_pricing_queue.  There is no prefetch: the runs  *)
(* on all messages interleave.  "queued" covers a message that has been    *)
(* delivered and whose first GET has not been answered.                    *)

Goto(r, step) == msg' = [msg EXCEPT ![r] = step]

\* handleDynamicPricingUpdate: three GETs.
Deliver(r) ==
  /\ msg[r] = "queued"
  /\ Goto(r, "initial")
  /\ local' = [local EXCEPT ![r].stock = IF stock = Nil THEN 0 ELSE stock]
  /\ UNCHANGED <<redisVars, starting, gatewayVars, run, reply, published,
                 faults, historyVars>>

ReadInitial(r) ==
  /\ msg[r] = "initial"
  /\ Goto(r, "base")
  /\ local' = [local EXCEPT ![r].initial =
                 IF initialStock = Nil THEN DefaultInitialStock ELSE initialStock]
  /\ UNCHANGED <<redisVars, starting, gatewayVars, run, reply, published,
                 faults, historyVars>>

ReadBase(r) ==
  /\ msg[r] = "base"
  /\ Goto(r, "lock")
  /\ LET base == IF basePrice = Nil THEN DefaultBasePrice ELSE basePrice
     IN  local' = [local EXCEPT ![r].price =
                     SurgePrice(local[r].initial, local[r].stock, base)]
  /\ UNCHANGED <<redisVars, starting, gatewayVars, run, reply, published,
                 faults, historyVars>>

Token(r) == <<r, run[r]>>

\* Slips: SET without NX, and a lock key without the customer.
CanAlwaysReserve(u) == TRUE
NobodyReserved(u) == \A v \in Users : lock[v] = Nil

\* SET ... NX: a customer's lock is taken only if there is none.
CanReserve(u) == lock[u] = Nil

Lock(r) ==
  /\ msg[r] = "lock"
  /\ IF CanReserve(UserOf[r])
       THEN /\ lock' = [lock EXCEPT ![UserOf[r]] =
                          [token |-> Token(r), lockedPrice |-> local[r].price]]
            /\ Goto(r, "price")
       ELSE /\ Goto(r, "refund")
            /\ UNCHANGED lock
  /\ UNCHANGED <<stock, initialStock, basePrice, currentPrice, live, starting,
                 gatewayVars, run, local, reply, published, faults, historyVars>>

SetPrice(r) ==
  /\ msg[r] = "price"
  /\ Goto(r, "order")
  /\ currentPrice' = local[r].price
  /\ UNCHANGED <<stock, initialStock, basePrice, live, lock, starting, gatewayVars,
                 run, local, reply, published, faults, historyVars>>

\* Slip: the channel is closed and the error is swallowed.
OrderLost(tokens, t) == tokens

\* publishToOrderExchange.  The order carries the token and the purchasedPrice
\* of the message, which is billed[r].
Ordered(tokens, t) == tokens \cup {t}

PublishOrder(r) ==
  /\ msg[r] = "order"
  /\ Goto(r, "reply")
  /\ published' = Ordered(published, Token(r))
  /\ UNCHANGED <<redisVars, starting, gatewayVars, run, local, reply, faults,
                 historyVars>>

\* Slip: a refusal is not replied to.
SilentRefusal(r, answer) == IF reply[r] = "none" /\ answer = "success" THEN answer ELSE reply[r]

\* The promise in the gateway takes the first reply.
FirstReply(r, answer) == IF reply[r] = "none" THEN answer ELSE reply[r]

ReplySuccess(r) ==
  /\ msg[r] = "reply"
  /\ Goto(r, "ack")
  /\ reply' = [reply EXCEPT ![r] = FirstReply(r, "success")]
  /\ UNCHANGED <<redisVars, starting, gatewayVars, run, local, published, faults,
                 historyVars>>

Ack(r) ==
  /\ msg[r] = "ack"
  /\ Goto(r, "acked")
  /\ local' = [local EXCEPT ![r] = NoLocal]
  /\ UNCHANGED <<redisVars, starting, gatewayVars, run, reply, published, faults,
                 historyVars>>

\* Slip: a refusal keeps the unit.
UnitKept(s) == s

\* INCR gives the unit of a refused request back.
Returned(s) == IF s = Nil THEN 1 ELSE s + 1

Refund(r) ==
  /\ msg[r] = "refund"
  /\ Goto(r, "refuse")
  /\ stock' = Returned(stock)
  /\ UNCHANGED <<initialStock, basePrice, currentPrice, live, lock, starting,
                 gatewayVars, run, local, reply, published, faults, historyVars>>

\* The BadRequestException: a reply that says so, and a nack without requeue.
ReplyFailure(r) ==
  /\ msg[r] = "refuse"
  /\ Goto(r, "nack")
  /\ reply' = [reply EXCEPT ![r] = FirstReply(r, "failure")]
  /\ UNCHANGED <<redisVars, starting, gatewayVars, run, local, published, faults,
                 historyVars>>

\* Slip: a refused message goes back to the queue.
DropRequeues(r) ==
  /\ msg[r] = "nack"
  /\ Goto(r, "queued")
  /\ run' = [run EXCEPT ![r] = run[r] + 1]
  /\ local' = [local EXCEPT ![r] = NoLocal]
  /\ UNCHANGED <<redisVars, starting, gatewayVars, reply, published, faults,
                 historyVars>>

\* Slip: the message of a refusal is neither acknowledged nor rejected.
DropForgotten(r) == msg[r] = "nack" /\ UNCHANGED vars

Drop(r) ==
  /\ msg[r] = "nack"
  /\ Goto(r, "dropped")
  /\ local' = [local EXCEPT ![r] = NoLocal]
  /\ UNCHANGED <<redisVars, starting, gatewayVars, run, reply, published, faults,
                 historyVars>>

-----------------------------------------------------------------------------
(* Redeliveries and timeouts.                                              *)

\* The steps of a run: those before it gives the unit away or back, and those
\* after.
BeforeEffect == {"initial", "base", "lock", "price", "order", "refund"}
AfterEffect == {"reply", "ack", "refuse", "nack"}

\* The messages in S go back to the queue and their runs end.
Requeue(S) ==
  /\ msg' = [r \in Requests |-> IF r \in S THEN "queued" ELSE msg[r]]
  /\ run' = [r \in Requests |-> IF r \in S THEN run[r] + 1 ELSE run[r]]
  /\ local' = [r \in Requests |-> IF r \in S THEN NoLocal ELSE local[r]]
  /\ repeated' = repeated + Cardinality({r \in S : msg[r] \in AfterEffect})
  /\ faults' = faults + 1

\* A Redis command of the run is answered by an error: a reply that says so,
\* and a nack with requeue.
RedisError(r) ==
  /\ faults < MaxFaults
  /\ msg[r] \in {"queued", "initial", "base", "lock", "price", "refund"}
  /\ Requeue({r})
  /\ reply' = [reply EXCEPT ![r] = FirstReply(r, "failure")]
  /\ UNCHANGED <<redisVars, starting, gatewayVars, published, claimed, early,
                 expired, supplied, discarded, leaked>>

\* The product service loses its process or its connection: RabbitMQ delivers
\* every message again that was not acknowledged.
Unacked == {r \in Requests : msg[r] \in BeforeEffect \cup AfterEffect}

ProductCrash ==
  /\ faults < MaxFaults
  /\ Unacked # {}
  /\ Requeue(Unacked)
  /\ UNCHANGED <<redisVars, starting, gatewayVars, reply, published, claimed,
                 early, expired, supplied, discarded, leaked>>

\* The TTL of a customer's lock elapses.  No command gives a unit back.
LockExpires(u) ==
  /\ lock[u] # Nil
  /\ lock' = [lock EXCEPT ![u] = Nil]
  /\ expired' = expired \cup {lock[u].token}
  /\ UNCHANGED <<stock, initialStock, basePrice, currentPrice, live, starting,
                 gatewayVars, consumerVars, faults, claimed, early, repeated,
                 supplied, discarded, leaked>>

-----------------------------------------------------------------------------
(* Commands that are executed twice.  The Redis clients wait for an answer  *)
(* through any number of reconnections (maxRetriesPerRequest: null), and   *)
(* after each they send a command again that was not answered.  These are  *)
(* the executions whose answer is lost; the step of the handler is the one *)
(* that is answered.  A second GET, or a second SET of any other key, is   *)
(* taken for one that is executed late.                                    *)

AnswerLost ==
  /\ faults < MaxFaults
  /\ faults' = faults + 1
  /\ UNCHANGED <<initialStock, basePrice, currentPrice, live, starting, gatewayVars,
                 consumerVars, claimed, early, expired>>

StockAgain(s) ==
  /\ AnswerLost
  /\ starting[s] = "stock"
  /\ PutOnSale(s)
  /\ UNCHANGED <<lock, repeated, leaked>>

\* The unit is taken for nobody: the answered execution takes another one.
ScriptAgain(r) ==
  /\ AnswerLost
  /\ booking[r] = "new"
  /\ Claims(stock)
  /\ stock' = GateStock(stock)
  /\ leaked' = leaked + 1
  /\ UNCHANGED <<lock, repeated, supplied, discarded>>

\* The run will find its own lock and take it for that of another request.
LockAgain(r) ==
  /\ AnswerLost
  /\ msg[r] = "lock"
  /\ CanReserve(UserOf[r])
  /\ lock' = [lock EXCEPT ![UserOf[r]] =
                [token |-> Token(r), lockedPrice |-> local[r].price]]
  /\ UNCHANGED <<stock, repeated, supplied, discarded, leaked>>

RefundAgain(r) ==
  /\ AnswerLost
  /\ msg[r] = "refund"
  /\ stock' = Returned(stock)
  /\ repeated' = repeated + 1
  /\ UNCHANGED <<lock, supplied, discarded, leaked>>

Resend ==
  \/ \E s \in Sales : StockAgain(s)
  \/ \E r \in Requests : ScriptAgain(r) \/ LockAgain(r) \/ RefundAgain(r)

-----------------------------------------------------------------------------
(* The specification.                                                      *)

Start(s) ==
  \/ SetInitialStock(s)
  \/ SetStock(s)
  \/ SetBasePrice(s)
  \/ SetCurrentPrice(s)
  \/ SetLive(s)
  \/ StartFails(s)

Book(r) ==
  \/ Gatekeeper(r)
  \/ ReadPrice(r)
  \/ Publish(r)
  \/ ReceiveReply(r)
  \/ BookingFails(r)

Consume(r) ==
  \/ Deliver(r)
  \/ ReadInitial(r)
  \/ ReadBase(r)
  \/ Lock(r)
  \/ SetPrice(r)
  \/ PublishOrder(r)
  \/ ReplySuccess(r)
  \/ Ack(r)
  \/ Refund(r)
  \/ ReplyFailure(r)
  \/ Drop(r)

Next ==
  \/ \E s \in Sales : Start(s)
  \/ \E r \in Requests : Book(r) \/ Consume(r) \/ RedisError(r)
  \/ GatewayCrash
  \/ ProductCrash
  \/ Resend
  \/ \E u \in Users : LockExpires(u)

Spec == Init /\ [][Next]_vars

\* A handler that has begun goes on, and a message is delivered.  Nobody has to
\* start a sale or to book, and nothing has to fail or to expire.
Fairness ==
  \A r \in Requests :
    /\ WF_vars(ReadPrice(r))
    /\ WF_vars(Publish(r))
    /\ WF_vars(ReceiveReply(r))
    /\ WF_vars(Consume(r))

FairSpec == Spec /\ Fairness

-----------------------------------------------------------------------------
(* Properties.                                                             *)

\* Every variable keeps its type: the stock key never goes below zero, and a
\* step of a handler is one of the steps that the code has.
TypeOK ==
  /\ stock \in Nat \cup {Nil}
  /\ initialStock \in Nat \cup {Nil}
  /\ basePrice \in Nat \cup {Nil}
  /\ currentPrice \in Nat \cup {Nil}
  /\ live \in BOOLEAN
  /\ lock \in [Users -> LockValues \cup {Nil}]
  /\ starting \in [Sales -> {"idle", "stock", "base", "current", "status", "live", "failed"}]
  /\ booking \in [Requests -> InGateway \cup
                    {"new", "NOT_FOUND", "SOLD_OUT", "IN_WAITING_ROOM", "ERROR"}]
  /\ billed \in [Requests -> Nat \cup {Nil}]
  /\ msg \in [Requests -> BeforeEffect \cup AfterEffect \cup
                            {"none", "queued", "acked", "dropped"}]
  /\ run \in [Requests -> Nat]
  /\ local \in [Requests -> [stock : Nat, initial : Nat, price : Nat]]
  /\ reply \in [Requests -> {"none", "success", "failure"}]
  /\ published \subseteq Tokens
  /\ faults \in 0..MaxFaults
  /\ claimed \subseteq Requests
  /\ early \subseteq claimed
  /\ expired \subseteq Tokens
  /\ repeated \in Nat
  /\ supplied \in Nat
  /\ discarded \in Nat
  /\ leaked \in Nat

\* One administrator starts the sale once.
OneStart == \A s, t \in Sales : s = t

\* The requests whose unit of stock is neither sold nor back: the message has
\* not gone out, and never will when the booking was answered, or has not taken
\* effect.
Unsettled ==
  {r \in claimed : msg[r] \in {"none", "queued"} \cup BeforeEffect}

\* The accounts of the sale, through any number of calls of startFlashSale.  A
\* unit that was put on sale is in the stock, sold, still unsettled, was in the
\* stock that a later start overwrote, or was taken by a script whose answer was
\* lost.  Each message that goes back to the queue after it took effect, and each
\* INCR that is sent again, puts one unit too much on the books.  Nothing else
\* does either, whatever the errors, crashes, redeliveries and expiries.
StockLedger ==
  Left(stock) + Cardinality(published) + Cardinality(Unsettled) + discarded + leaked
    = supplied + repeated

\* A customer never has two reservations that both still hold: of two that were
\* published, the lock of one has expired.  Errors, crashes and redeliveries
\* between the lock, the order and the acknowledgement do not change that.
OneReservationPerUser ==
  \A p, q \in published :
    UserOf[p[1]] = UserOf[q[1]] /\ p # q => p \in expired \/ q \in expired

\* When no unit was taken before the sale was live, every customer is billed at
\* least the base price and at most one and a half times as much, whatever the
\* order in which the runs of the pricing engine store their prices.
BilledWithinSurge ==
  \A s \in Sales :
    OneStart /\ early = {} =>
      \A r \in Requests :
        billed[r] # Nil => billed[r] \in BaseOf[s] * 100 .. BaseOf[s] * 150

\* A customer who is told success has a reservation that was published.
SuccessIsPublished ==
  \A r \in Requests :
    reply[r] = "success" => \E t \in published : t[1] = r

\* Without a fault, a request is refused only because another request of the
\* same customer goes through or went through.
RefusedForAnother ==
  \A r \in Requests :
    faults = 0 /\ msg[r] \in {"refuse", "nack", "dropped"} =>
      \E q \in Requests \ {r} :
        UserOf[q] = UserOf[r] /\ msg[q] \in {"price", "order", "reply", "ack", "acked"}

\* The sale seen as an office that takes units for bookings and decides each of
\* them, and that has a mishap with each fault.  A call of startFlashSale may
\* still put its units on sale before it has set the stock.
Office == INSTANCE Reservations WITH
  Bookings <- Requests,
  CustomerOf <- UserOf,
  Batches <- Sales,
  SizeOf <- InitialOf,
  MaxMishaps <- MaxFaults,
  batches <- {s \in Sales : starting[s] \in {"idle", "stock"}},
  units <- Left(stock),
  holders <- claimed,
  undecided <- Unsettled,
  reservations <- published,
  ended <- expired,
  mishaps <- faults

\* Whatever a handler or an expiry does, it does one thing to one unit: it takes
\* it for a booking that never had one, reserves it for a customer without a
\* reservation that holds, or gives it back.  Whatever a fault does, it is one of
\* the mishaps of the office.
ImplementsReservations == Office!Spec

\* A booking that got a unit is answered: the gateway waits for the reply of
\* the product service without any timeout.
BookingAnswered ==
  \A r \in Requests :
    booking[r] \in InGateway ~> booking[r] \in {"IN_WAITING_ROOM", "ERROR"}

\* A message that entered the queue is acknowledged or dropped in the end: once
\* the faults stop, no message goes round for ever.
MessageSettled ==
  \A r \in Requests : msg[r] = "queued" ~> msg[r] \in {"acked", "dropped"}

\* Comment of api-gateway.service.ts, case B: the stock was at zero or below.
\* So a booking that is answered SOLD_OUT took no unit.
SoldOutTookNothing == \A r \in Requests : booking[r] = "SOLD_OUT" => r \notin claimed

\* Message of the refusal in product-service.service.ts: the customer has an
\* active checkout session.  So one that is refused, and has no other request
\* on the way, has a reservation that was published.
RefusedHasSession ==
  \A r \in Requests :
    msg[r] = "dropped" =>
      \E q \in Requests :
        /\ UserOf[q] = UserOf[r]
        /\ \/ \E t \in published : t[1] = q
           \/ msg[q] \in {"queued"} \cup BeforeEffect
=============================================================================
