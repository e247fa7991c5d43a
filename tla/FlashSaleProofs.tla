-------------------------- MODULE FlashSaleProofs --------------------------
(***************************************************************************)
(* What FlashSale promises for every number of customers, requests and     *)
(* faults, proved with TLAPS.  The inductive invariants come one after the *)
(* other, each proved from those before it: the types, the life of a       *)
(* booking, the freshness of tokens, the holder of a lock, what is told,   *)
(* the prices, the refusals, the accounts of the sale, and the answers.    *)
(***************************************************************************)
EXTENDS FlashSale, FiniteSetTheorems, TLAPS

\* A request whose message is with the consumer, or was, got its unit from the
\* script, and a request gets one at most.
BookingInv ==
  \A r \in Requests :
    /\ booking[r] \in InGateway \cup {"IN_WAITING_ROOM"} => r \in claimed
    /\ booking[r] = "new" => r \notin claimed
    /\ booking[r] \in {"new", "price", "publish"} => msg[r] = "none"
    /\ msg[r] # "none" => r \in claimed
    /\ booking[r] \in {"waiting", "IN_WAITING_ROOM"} => msg[r] # "none"

\* The token of a published reservation is that of an earlier run, or of the
\* current one when this has published already.
FreshInv ==
  /\ IsFiniteSet(published)
  /\ \A t \in published :
       /\ t[1] \in claimed
       /\ \/ t[2] < run[t[1]]
          \/ t[2] = run[t[1]] /\ msg[t[1]] \in {"reply", "ack", "acked"}

Holds(t) == lock[UserOf[t[1]]] # Nil /\ lock[UserOf[t[1]]].token = t

\* The run that took a lock, and the reservation it published, are those of the
\* lock for as long as the lock has not expired.
LockInv ==
  /\ \A t \in published : t \in expired \/ Holds(t)
  /\ \A r \in Requests :
       msg[r] \in {"price", "order"} => Token(r) \in expired \/ Holds(Token(r))

-----------------------------------------------------------------------------
(* The pricing engine.                                                     *)

\* The more stock is left, the lower the price: the ladder of the pricing
\* engine has no gap and no inversion.
THEOREM SurgeMonotone ==
  ASSUME NEW initial \in Nat, NEW base \in Nat,
         NEW more \in Int, NEW less \in Int, less <= more
  PROVE  /\ SurgePrice(initial, more, base) <= SurgePrice(initial, less, base)
         /\ SurgePrice(initial, more, base) \in base * 100 .. base * 150
  BY DEF SurgePrice, SurgePercent, SoldMoreThan

LEMMA SurgeType ==
  ASSUME NEW initial \in Nat, NEW left \in Nat, NEW base \in Nat
  PROVE  SurgePrice(initial, left, base) \in Nat
<1>1. SurgePercent(initial, left) \in {100, 115, 130, 150}
  BY DEF SurgePercent
<1> QED
  BY <1>1 DEF SurgePrice

-----------------------------------------------------------------------------
(* Type correctness.                                                       *)

LEMMA RequeueType ==
  ASSUME TypeOK, faults < MaxFaults, NEW S \in SUBSET Requests, Requeue(S)
  PROVE  /\ msg' \in [Requests -> BeforeEffect \cup AfterEffect \cup
                                    {"none", "queued", "acked", "dropped"}]
         /\ run' \in [Requests -> Nat]
         /\ local' \in [Requests -> [stock : Nat, initial : Nat, price : Nat]]
         /\ faults' \in 0..MaxFaults
         /\ repeated' \in Nat
<1>1. Cardinality({r \in S : msg[r] \in AfterEffect}) \in Nat
  BY FS_Subset, FS_CardinalityType, RequestsAssumption
<1>2. NoLocal \in [stock : Nat, initial : Nat, price : Nat]
  BY DEF NoLocal
<1> QED
  BY <1>1, <1>2, FaultsAssumption DEF TypeOK, Requeue

\* A command whose answer is lost changes the stock or takes a lock, and nobody
\* learns of it.
LEMMA ResendKeeps ==
  ASSUME TypeOK, Resend
  PROVE  /\ UNCHANGED <<initialStock, basePrice, currentPrice, live, starting, booking, billed,
                        msg, run, local, reply, published, claimed, early, expired>>
         /\ faults < MaxFaults /\ faults' = faults + 1
         /\ \/ lock' = lock
            \/ \E r \in Requests :
                 /\ lock[UserOf[r]] = Nil
                 /\ lock' = [lock EXCEPT ![UserOf[r]] =
                              [token |-> Token(r), lockedPrice |-> local[r].price]]
  BY DEF Resend, StockAgain, ScriptAgain, LockAgain, RefundAgain, AnswerLost, CanReserve,
         gatewayVars, consumerVars

\* Every variable keeps its type; the stock never goes below zero.
THEOREM TypeCorrect == Spec => []TypeOK
<1>1. Init => TypeOK
  <2> SUFFICES ASSUME Init PROVE TypeOK
    OBVIOUS
  <2>1. local \in [Requests -> [stock : Nat, initial : Nat, price : Nat]]
    BY DEF Init, NoLocal
  <2>2. lock \in [Users -> LockValues \cup {Nil}] /\ live \in BOOLEAN
    BY DEF Init
  <2> QED
    BY <2>1, <2>2, FaultsAssumption DEF Init, TypeOK
<1>2. TypeOK /\ [Next]_vars => TypeOK'
  <2> SUFFICES ASSUME TypeOK, [Next]_vars
               PROVE  TypeOK'
    OBVIOUS
  <2> USE RequestsAssumption, SalesAssumption, FaultsAssumption, NilAssumption
  <2>1. ASSUME NEW s \in Sales, Start(s)
        PROVE  TypeOK'
    <3>1. CASE SetInitialStock(s)
      BY <3>1 DEF TypeOK, SetInitialStock, StartStep, gatewayVars, consumerVars, historyVars
    <3>2. CASE SetStock(s)
      BY <3>2 DEF TypeOK, SetStock, PutOnSale, Left, StartStep, gatewayVars, consumerVars,
                  historyVars
    <3>3. CASE SetBasePrice(s)
      BY <3>3 DEF TypeOK, SetBasePrice, StartStep, gatewayVars, consumerVars, historyVars
    <3>4. CASE SetCurrentPrice(s)
      BY <3>4 DEF TypeOK, SetCurrentPrice, StartStep, gatewayVars, consumerVars, historyVars
    <3>5. CASE SetLive(s)
      BY <3>5 DEF TypeOK, SetLive, StartStep, gatewayVars, consumerVars, historyVars
    <3>6. CASE StartFails(s)
      BY <3>6 DEF TypeOK, StartFails, redisVars, gatewayVars, consumerVars, historyVars
    <3> QED
      BY <2>1, <3>1, <3>2, <3>3, <3>4, <3>5, <3>6 DEF Start
  <2>2. ASSUME NEW r \in Requests, Book(r)
        PROVE  TypeOK'
    <3>1. CASE Gatekeeper(r)
      <4>1. GateStock(stock) \in Nat \cup {Nil}
        BY DEF TypeOK, GateStock, Claims, HasUnit
      <4>2. Verdict(GateResult(stock)) \in {"NOT_FOUND", "SOLD_OUT", "price"}
        BY DEF Verdict
      <4> QED
        BY <3>1, <4>1, <4>2 DEF TypeOK, Gatekeeper, InGateway, consumerVars
    <3>2. CASE ReadPrice(r)
      BY <3>2 DEF TypeOK, ReadPrice, BilledPrice, DefaultBasePrice, InGateway, redisVars,
                  consumerVars, historyVars
    <3>3. CASE Publish(r)
      BY <3>3 DEF TypeOK, Publish, InGateway, redisVars, historyVars
    <3>4. CASE ReceiveReply(r)
      BY <3>4 DEF TypeOK, ReceiveReply, redisVars, consumerVars, historyVars
    <3>5. CASE BookingFails(r)
      BY <3>5 DEF TypeOK, BookingFails, redisVars, consumerVars, historyVars
    <3> QED
      BY <2>2, <3>1, <3>2, <3>3, <3>4, <3>5 DEF Book
  <2>3. ASSUME NEW r \in Requests, Consume(r)
        PROVE  TypeOK'
    <3> USE DEF TypeOK, Goto, BeforeEffect, AfterEffect
    <3>1. CASE Deliver(r)
      BY <3>1 DEF Deliver, redisVars, gatewayVars, historyVars
    <3>2. CASE ReadInitial(r)
      BY <3>2 DEF ReadInitial, DefaultInitialStock, redisVars, gatewayVars, historyVars
    <3>3. CASE ReadBase(r)
      <4> DEFINE base == IF basePrice = Nil THEN DefaultBasePrice ELSE basePrice
                 price == SurgePrice(local[r].initial, local[r].stock, base)
      <4>1. local' = [local EXCEPT ![r].price = price]
        BY <3>3 DEF ReadBase
      <4>2. base \in Nat
        BY DEF DefaultBasePrice
      <4>3. price \in Nat
        BY <4>2, SurgeType
      <4> HIDE DEF price
      <4> QED
        BY <3>3, <4>1, <4>3 DEF ReadBase, redisVars, gatewayVars, historyVars
    <3>4. CASE Lock(r)
      <4>1. [token |-> Token(r), lockedPrice |-> local[r].price] \in LockValues
        BY DEF LockValues, Tokens, Token
      <4>2. lock' \in [Users -> LockValues \cup {Nil}]
        BY <3>4, <4>1 DEF Lock
      <4> QED
        BY <3>4, <4>2 DEF Lock, gatewayVars, historyVars
    <3>5. CASE SetPrice(r)
      BY <3>5 DEF SetPrice, gatewayVars, historyVars
    <3>6. CASE PublishOrder(r)
      BY <3>6 DEF PublishOrder, Ordered, Tokens, Token, redisVars, gatewayVars, historyVars
    <3>7. CASE ReplySuccess(r)
      BY <3>7 DEF ReplySuccess, FirstReply, redisVars, gatewayVars, historyVars
    <3>8. CASE Ack(r)
      BY <3>8 DEF Ack, NoLocal, redisVars, gatewayVars, historyVars
    <3>9. CASE Refund(r)
      BY <3>9 DEF Refund, Returned, gatewayVars, historyVars
    <3>10. CASE ReplyFailure(r)
      BY <3>10 DEF ReplyFailure, FirstReply, redisVars, gatewayVars, historyVars
    <3>11. CASE Drop(r)
      BY <3>11 DEF Drop, NoLocal, redisVars, gatewayVars, historyVars
    <3> QED
      BY <2>3, <3>1, <3>2, <3>3, <3>4, <3>5, <3>6, <3>7, <3>8, <3>9, <3>10, <3>11 DEF Consume
  <2>4. ASSUME NEW r \in Requests, RedisError(r)
        PROVE  TypeOK'
    <3>1. {r} \in SUBSET Requests /\ Requeue({r}) /\ faults < MaxFaults
      BY <2>4 DEF RedisError
    <3>2. reply' \in [Requests -> {"none", "success", "failure"}]
      BY <2>4 DEF RedisError, FirstReply, TypeOK
    <3> QED
      BY <2>4, <3>1, <3>2, RequeueType DEF RedisError, TypeOK, redisVars, gatewayVars
  <2>5. CASE GatewayCrash
    BY <2>5 DEF GatewayCrash, TypeOK, redisVars, consumerVars, historyVars
  <2>6. CASE ProductCrash
    <3>1. Unacked \in SUBSET Requests /\ Requeue(Unacked) /\ faults < MaxFaults
      BY <2>6 DEF ProductCrash, Unacked
    <3> QED
      BY <2>6, <3>1, RequeueType DEF ProductCrash, TypeOK, redisVars, gatewayVars
  <2>7. ASSUME NEW u \in Users, LockExpires(u)
        PROVE  TypeOK'
    <3>1. lock[u] \in LockValues
      BY <2>7 DEF LockExpires, TypeOK
    <3> QED
      BY <2>7, <3>1 DEF LockExpires, TypeOK, LockValues, gatewayVars, consumerVars
  <2>9. CASE Resend
    <3>1. /\ stock' \in Nat \cup {Nil}
          /\ supplied' \in Nat /\ discarded' \in Nat /\ repeated' \in Nat /\ leaked' \in Nat
      <4>1. ASSUME NEW s \in Sales, StockAgain(s)
            PROVE  <3>1
        BY <4>1 DEF StockAgain, PutOnSale, Left, TypeOK
      <4>2. ASSUME NEW r \in Requests, ScriptAgain(r)
            PROVE  <3>1
        BY <4>2 DEF ScriptAgain, GateStock, Claims, HasUnit, TypeOK
      <4>3. ASSUME NEW r \in Requests, LockAgain(r) \/ RefundAgain(r)
            PROVE  <3>1
        BY <4>3 DEF LockAgain, RefundAgain, Returned, TypeOK
      <4> QED
        BY <2>9, <4>1, <4>2, <4>3 DEF Resend
    <3>2. \A r \in Requests :
            [token |-> Token(r), lockedPrice |-> local[r].price] \in LockValues
      BY DEF LockValues, Tokens, Token, TypeOK
    <3>3. lock' \in [Users -> LockValues \cup {Nil}]
      <4>1. CASE lock' = lock
        BY <4>1 DEF TypeOK
      <4>2. ASSUME NEW r \in Requests,
                   lock' = [lock EXCEPT ![UserOf[r]] =
                             [token |-> Token(r), lockedPrice |-> local[r].price]]
            PROVE  <3>3
        <5> DEFINE value == [token |-> Token(r), lockedPrice |-> local[r].price]
        <5>1. value \in LockValues
          BY <3>2
        <5> HIDE DEF value
        <5> QED
          BY <4>2, <5>1 DEF TypeOK, value
      <4> QED
        BY <2>9, <4>1, <4>2, ResendKeeps
    <3> QED
      BY <2>9, <3>1, <3>3, ResendKeeps DEF TypeOK
  <2>8. CASE UNCHANGED vars
    BY <2>8 DEF TypeOK, vars, redisVars, gatewayVars, consumerVars, historyVars
  <2> QED
    BY <2>1, <2>2, <2>3, <2>4, <2>5, <2>6, <2>7, <2>8, <2>9 DEF Next
<1> QED
  BY <1>1, <1>2, PTL DEF Spec

-----------------------------------------------------------------------------
(* Bookings and tokens.                                                    *)

\* A step of the consumer moves a message that is there and leaves the gateway
\* and startFlashSale alone.
LEMMA ConsumeMoves ==
  ASSUME TypeOK, NEW r \in Requests, Consume(r)
  PROVE  /\ msg[r] # "none"
         /\ \E step \in (BeforeEffect \cup AfterEffect \cup {"acked", "dropped"}) :
              msg' = [msg EXCEPT ![r] = step]
         /\ UNCHANGED <<booking, claimed, run, initialStock, starting, expired, repeated>>
  BY DEF TypeOK, Consume, Deliver, ReadInitial, ReadBase, Lock, SetPrice, PublishOrder,
         ReplySuccess, Ack, Refund, ReplyFailure, Drop, Goto, BeforeEffect, AfterEffect,
         redisVars, gatewayVars, historyVars

\* So does a redelivery.
LEMMA RequeueMoves ==
  ASSUME TypeOK, NEW S \in SUBSET Requests, \A r \in S : msg[r] # "none", Requeue(S)
  PROVE  \A r \in Requests : /\ msg'[r] = "none" <=> msg[r] = "none"
                             /\ msg'[r] = IF r \in S THEN "queued" ELSE msg[r]
                             /\ run'[r] = IF r \in S THEN run[r] + 1 ELSE run[r]
  BY DEF TypeOK, Requeue

LEMMA BookingInvariant == Spec => []BookingInv
<1>1. Init => BookingInv
  BY DEF Init, BookingInv, InGateway
<1>2. TypeOK /\ BookingInv /\ [Next]_vars => BookingInv'
  <2> SUFFICES ASSUME TypeOK, BookingInv, [Next]_vars
               PROVE  BookingInv'
    OBVIOUS
  <2> USE DEF BookingInv
  <2>1. ASSUME NEW s \in Sales, Start(s)
        PROVE  BookingInv'
    BY <2>1 DEF Start, StartStep, SetInitialStock, SetStock, SetBasePrice, SetCurrentPrice,
                SetLive, StartFails, gatewayVars, consumerVars, historyVars
  <2>2. ASSUME NEW r \in Requests, Book(r)
        PROVE  BookingInv'
    <3> USE DEF TypeOK, InGateway
    <3>1. CASE Gatekeeper(r)
      <4>1. Verdict(GateResult(stock)) = "price" => Claims(stock)
        BY DEF Verdict, GateResult, Claims, HasUnit
      <4>2. Verdict(GateResult(stock)) \in {"NOT_FOUND", "SOLD_OUT", "price"}
        BY DEF Verdict
      <4> QED
        BY <3>1, <4>1, <4>2 DEF Gatekeeper, consumerVars
    <3>2. CASE ReadPrice(r)
      BY <3>2 DEF ReadPrice, consumerVars, historyVars
    <3>3. CASE Publish(r)
      BY <3>3 DEF Publish, historyVars
    <3>4. CASE ReceiveReply(r)
      BY <3>4 DEF ReceiveReply, consumerVars, historyVars
    <3>5. CASE BookingFails(r)
      BY <3>5 DEF BookingFails, consumerVars, historyVars
    <3> QED
      BY <2>2, <3>1, <3>2, <3>3, <3>4, <3>5 DEF Book
  <2>3. ASSUME NEW r \in Requests, Consume(r)
        PROVE  BookingInv'
    <3>1. \A q \in Requests : msg'[q] # "none" <=> msg[q] # "none"
      BY <2>3, ConsumeMoves DEF TypeOK, BeforeEffect, AfterEffect
    <3>2. booking' = booking /\ claimed' = claimed
      BY <2>3, ConsumeMoves
    <3> QED
      BY <3>1, <3>2
  <2>4. ASSUME NEW r \in Requests, RedisError(r)
        PROVE  BookingInv'
    BY <2>4, RequeueMoves DEF RedisError, redisVars, gatewayVars
  <2>5. CASE GatewayCrash
    BY <2>5 DEF GatewayCrash, TypeOK, InGateway, consumerVars, historyVars
  <2>6. CASE ProductCrash
    BY <2>6, RequeueMoves
       DEF ProductCrash, Unacked, BeforeEffect, AfterEffect, redisVars, gatewayVars
  <2>7. ASSUME NEW u \in Users, LockExpires(u)
        PROVE  BookingInv'
    BY <2>7 DEF LockExpires, gatewayVars, consumerVars
  <2>9. CASE Resend
    BY <2>9, ResendKeeps
  <2>8. CASE UNCHANGED vars
    BY <2>8 DEF vars, gatewayVars, consumerVars, historyVars
  <2> QED
    BY <2>1, <2>2, <2>3, <2>4, <2>5, <2>6, <2>7, <2>8, <2>9 DEF Next
<1> QED
  BY <1>1, <1>2, TypeCorrect, PTL DEF Spec

\* A redelivery costs a fault, so no run has a number above the count of faults.
RunInv ==
  /\ \A r \in Requests : run[r] <= faults
  /\ \A u \in Users : lock[u] # Nil => lock[u].token[2] <= faults

LEMMA RunInvariant == Spec => []RunInv
<1>1. Init => RunInv
  BY DEF Init, RunInv
<1>2. TypeOK /\ RunInv /\ [Next]_vars => RunInv'
  <2> SUFFICES ASSUME TypeOK, RunInv, [Next]_vars
               PROVE  RunInv'
    OBVIOUS
  <2> USE DEF RunInv
  <2>0. /\ faults \in Nat /\ run \in [Requests -> Nat]
        /\ \A u \in Users : lock[u] # Nil => lock[u].token[2] \in Nat
    BY FaultsAssumption, NilAssumption DEF TypeOK, LockValues, Tokens
  <2>1. ASSUME NEW s \in Sales, Start(s)
        PROVE  RunInv'
    BY <2>1, <2>0 DEF Start, StartStep, SetInitialStock, SetStock, SetBasePrice,
                SetCurrentPrice, SetLive, StartFails, redisVars, consumerVars
  <2>2. ASSUME NEW r \in Requests, Book(r)
        PROVE  RunInv'
    BY <2>2, <2>0 DEF Book, Gatekeeper, ReadPrice, Publish, ReceiveReply, BookingFails,
                      redisVars, consumerVars
  <2>3. ASSUME NEW r \in Requests, Consume(r)
        PROVE  RunInv'
    <3>1. CASE Lock(r) /\ CanReserve(UserOf[r])
      <4>1. /\ lock' = [lock EXCEPT ![UserOf[r]] =
                          [token |-> <<r, run[r]>>, lockedPrice |-> local[r].price]]
            /\ run' = run /\ faults' = faults
        BY <3>1 DEF Lock, Token
      <4> QED
        BY <4>1, <2>0 DEF TypeOK
    <3>2. CASE ~(Lock(r) /\ CanReserve(UserOf[r]))
      <4>1. UNCHANGED <<run, faults, lock>>
        BY <2>3, <3>2 DEF Consume, Deliver, ReadInitial, ReadBase, Lock, SetPrice,
                     PublishOrder, ReplySuccess, Ack, Refund, ReplyFailure, Drop, redisVars
      <4> QED
        BY <4>1
    <3> QED
      BY <3>1, <3>2
  <2>4. ASSUME NEW r \in Requests, RedisError(r)
        PROVE  RunInv'
    BY <2>4, <2>0 DEF RedisError, Requeue, redisVars
  <2>5. CASE GatewayCrash
    BY <2>5, <2>0 DEF GatewayCrash, redisVars, consumerVars
  <2>6. CASE ProductCrash
    BY <2>6, <2>0 DEF ProductCrash, Requeue, redisVars
  <2>7. ASSUME NEW u \in Users, LockExpires(u)
        PROVE  RunInv'
    BY <2>7, <2>0 DEF LockExpires, consumerVars, TypeOK
  <2>9. CASE Resend
    <3>1. run' = run /\ faults' = faults + 1
      BY <2>9, ResendKeeps
    <3>2. CASE lock' = lock
      BY <3>1, <3>2, <2>0
    <3>3. ASSUME NEW r \in Requests,
                 lock' = [lock EXCEPT ![UserOf[r]] =
                           [token |-> Token(r), lockedPrice |-> local[r].price]]
          PROVE  RunInv'
      BY <3>1, <3>3, <2>0 DEF Token, TypeOK
    <3> QED
      BY <2>9, <3>2, <3>3, ResendKeeps
  <2>8. CASE UNCHANGED vars
    BY <2>8 DEF vars, redisVars, consumerVars
  <2> QED
    BY <2>1, <2>2, <2>3, <2>4, <2>5, <2>6, <2>7, <2>8, <2>9 DEF Next
<1> QED
  BY <1>1, <1>2, TypeCorrect, PTL DEF Spec

\* A run publishes in one step only, and after that it replies and acknowledges.
LEMMA ConsumePublishes ==
  ASSUME TypeOK, NEW r \in Requests, Consume(r)
  PROVE  \/ PublishOrder(r)
         \/ /\ published' = published
            /\ msg[r] \in {"reply", "ack", "acked"} => msg'[r] \in {"reply", "ack", "acked"}
  BY DEF TypeOK, Consume, Deliver, ReadInitial, ReadBase, Lock, SetPrice,
         ReplySuccess, Ack, Refund, ReplyFailure, Drop, Goto

LEMMA FreshInvariant == Spec => []FreshInv
<1>1. Init => FreshInv
  BY FS_EmptySet DEF Init, FreshInv
<1>2. TypeOK /\ BookingInv /\ FreshInv /\ [Next]_vars => FreshInv'
  <2> SUFFICES ASSUME TypeOK, BookingInv, FreshInv, [Next]_vars
               PROVE  FreshInv'
    OBVIOUS
  <2> USE DEF FreshInv
  <2>0. \A t \in published : t[1] \in Requests /\ t[2] \in Nat /\ run[t[1]] \in Nat
    BY DEF TypeOK, Tokens
  <2>1. ASSUME NEW s \in Sales, Start(s)
        PROVE  FreshInv'
    BY <2>1 DEF Start, StartStep, SetInitialStock, SetStock, SetBasePrice, SetCurrentPrice,
                SetLive, StartFails, gatewayVars, consumerVars, historyVars
  <2>2. ASSUME NEW r \in Requests, Book(r)
        PROVE  FreshInv'
    <3>1. CASE Publish(r)
      BY <3>1, <2>0 DEF Publish, BookingInv, TypeOK, historyVars
    <3>2. CASE ~Publish(r)
      BY <2>2, <3>2 DEF Book, Gatekeeper, ReadPrice, ReceiveReply, BookingFails,
                        consumerVars, historyVars
    <3> QED
      BY <3>1, <3>2
  <2>3. ASSUME NEW r \in Requests, Consume(r)
        PROVE  FreshInv'
    <3>1. CASE PublishOrder(r)
      <4>1. /\ published' = published \cup {Token(r)}
            /\ msg' = [msg EXCEPT ![r] = "reply"]
            /\ run' = run /\ claimed' = claimed
            /\ msg[r] = "order"
        BY <3>1 DEF PublishOrder, Ordered, Goto, historyVars
      <4>2. IsFiniteSet(published')
        BY <4>1, FS_AddElement
      <4>3. r \in claimed
        BY <4>1 DEF BookingInv
      <4> QED
        BY <4>1, <4>2, <4>3, <2>0 DEF Token, TypeOK
    <3>2. CASE ~PublishOrder(r)
      <4>1. /\ published' = published
            /\ msg[r] \in {"reply", "ack", "acked"} => msg'[r] \in {"reply", "ack", "acked"}
        BY <2>3, <3>2, ConsumePublishes
      <4> QED
        BY <2>3, <4>1, <2>0, ConsumeMoves DEF TypeOK
    <3> QED
      BY <3>1, <3>2
  <2>4. ASSUME NEW r \in Requests, RedisError(r)
        PROVE  FreshInv'
    BY <2>4, <2>0, RequeueMoves DEF RedisError
  <2>5. CASE GatewayCrash
    BY <2>5 DEF GatewayCrash, consumerVars, historyVars
  <2>6. CASE ProductCrash
    BY <2>6, <2>0, RequeueMoves DEF ProductCrash, Unacked, BeforeEffect, AfterEffect
  <2>7. ASSUME NEW u \in Users, LockExpires(u)
        PROVE  FreshInv'
    BY <2>7 DEF LockExpires, consumerVars
  <2>9. CASE Resend
    BY <2>9, ResendKeeps
  <2>8. CASE UNCHANGED vars
    BY <2>8 DEF vars, consumerVars, historyVars
  <2> QED
    BY <2>1, <2>2, <2>3, <2>4, <2>5, <2>6, <2>7, <2>8, <2>9 DEF Next
<1> QED
  BY <1>1, <1>2, TypeCorrect, BookingInvariant, PTL DEF Spec

-----------------------------------------------------------------------------
(* The reservation lock.                                                   *)

\* A step of the consumer other than SET NX and the publish neither takes a
\* lock nor brings a run between the two.
LEMMA ConsumeKeepsLock ==
  ASSUME TypeOK, NEW r \in Requests, Consume(r), ~Lock(r), ~PublishOrder(r)
  PROVE  /\ UNCHANGED <<lock, published, run, expired>>
         /\ \E step \in BeforeEffect \cup AfterEffect \cup {"acked", "dropped"} :
              /\ msg' = [msg EXCEPT ![r] = step]
              /\ step \in {"price", "order"} => msg[r] \in {"price", "order"}
  BY DEF TypeOK, Consume, Deliver, ReadInitial, ReadBase, SetPrice, ReplySuccess, Ack,
         Refund, ReplyFailure, Drop, Goto, BeforeEffect, AfterEffect, redisVars, historyVars

LEMMA LockInvariant == Spec => []LockInv
<1>1. Init => LockInv
  BY DEF Init, LockInv
<1>2. TypeOK /\ LockInv /\ [Next]_vars => LockInv'
  <2> SUFFICES ASSUME TypeOK, LockInv, [Next]_vars
               PROVE  LockInv'
    OBVIOUS
  <2> USE DEF LockInv, Holds, Token
  <2>0. /\ \A t \in published : t[1] \in Requests
        /\ \A r \in Requests : UserOf[r] \in Users
    BY RequestsAssumption DEF TypeOK, Tokens
  <2>1. ASSUME NEW s \in Sales, Start(s)
        PROVE  LockInv'
    BY <2>1 DEF Start, StartStep, SetInitialStock, SetStock, SetBasePrice, SetCurrentPrice,
                SetLive, StartFails, redisVars, gatewayVars, consumerVars, historyVars
  <2>2. ASSUME NEW r \in Requests, Book(r)
        PROVE  LockInv'
    <3>1. CASE Publish(r)
      BY <3>1 DEF Publish, TypeOK, redisVars, historyVars
    <3>2. CASE ~Publish(r)
      BY <2>2, <3>2 DEF Book, Gatekeeper, ReadPrice, ReceiveReply, BookingFails,
                        redisVars, consumerVars, historyVars
    <3> QED
      BY <3>1, <3>2
  <2>3. ASSUME NEW r \in Requests, Consume(r)
        PROVE  LockInv'
    <3>1. CASE Lock(r)
      <4>1. CASE lock[UserOf[r]] = Nil
        <5>1. LET held == [token |-> <<r, run[r]>>, lockedPrice |-> local[r].price]
              IN  /\ lock' = [lock EXCEPT ![UserOf[r]] = held]
                  /\ held # Nil /\ held.token = <<r, run[r]>>
          BY <3>1, <4>1, NilAssumption
             DEF Lock, CanReserve, LockValues, Tokens, TypeOK
        <5>2. /\ msg' = [msg EXCEPT ![r] = "price"]
              /\ run' = run /\ published' = published /\ expired' = expired
          BY <3>1, <4>1 DEF Lock, CanReserve, Goto, historyVars
        <5> QED
          BY <4>1, <5>1, <5>2, <2>0 DEF TypeOK
      <4>2. CASE lock[UserOf[r]] # Nil
        BY <3>1, <4>2 DEF Lock, CanReserve, Goto, TypeOK, historyVars
      <4> QED
        BY <4>1, <4>2
    <3>2. CASE PublishOrder(r)
      <4>1. /\ msg[r] = "order" /\ msg' = [msg EXCEPT ![r] = "reply"]
            /\ published' = published \cup {Token(r)}
            /\ UNCHANGED <<lock, run, expired>>
        BY <3>2 DEF PublishOrder, Ordered, Goto, redisVars, historyVars
      <4>2. \A t \in published' : t \in expired \/ Holds(t)
        BY <4>1
      <4>3. \A q \in Requests : msg'[q] \in {"price", "order"} => msg[q] \in {"price", "order"}
        BY <4>1 DEF TypeOK
      <4> QED
        BY <4>1, <4>2, <4>3
    <3>3. CASE ~Lock(r) /\ ~PublishOrder(r)
      <4>1. /\ UNCHANGED <<lock, published, run, expired>>
            /\ \E step \in BeforeEffect \cup AfterEffect \cup {"acked", "dropped"} :
                 /\ msg' = [msg EXCEPT ![r] = step]
                 /\ step \in {"price", "order"} => msg[r] \in {"price", "order"}
        BY <2>3, <3>3, ConsumeKeepsLock
      <4>2. \A q \in Requests :
              msg'[q] \in {"price", "order"} => msg[q] \in {"price", "order"}
        BY <4>1 DEF TypeOK
      <4> QED
        BY <4>1, <4>2
    <3> QED
      BY <3>1, <3>2, <3>3
  <2>4. ASSUME NEW r \in Requests, RedisError(r)
        PROVE  LockInv'
    BY <2>4 DEF RedisError, Requeue, TypeOK, redisVars
  <2>5. CASE GatewayCrash
    BY <2>5 DEF GatewayCrash, redisVars, consumerVars, historyVars
  <2>6. CASE ProductCrash
    BY <2>6 DEF ProductCrash, Requeue, TypeOK, redisVars
  <2>7. ASSUME NEW u \in Users, LockExpires(u)
        PROVE  LockInv'
    <3>1. /\ lock' = [lock EXCEPT ![u] = Nil]
          /\ expired' = expired \cup {lock[u].token}
          /\ UNCHANGED <<msg, run, published>>
      BY <2>7 DEF LockExpires, consumerVars
    <3> QED
      BY <3>1, <2>0 DEF TypeOK
  <2>9. CASE Resend
    <3>1. /\ UNCHANGED <<msg, run, published, expired>>
          /\ \A u \in Users : lock[u] # Nil => lock'[u] = lock[u]
      BY <2>9, ResendKeeps DEF TypeOK
    <3>2. \A t : UserOf[t[1]] \in Users /\ Holds(t) => Holds(t)'
      BY <3>1 DEF Holds
    <3>3. \A r \in Requests : Token(r)' = Token(r) /\ UserOf[Token(r)[1]] \in Users
      BY <3>1, RequestsAssumption DEF Token
    <3>4. \A t \in published : UserOf[t[1]] \in Users
      BY RequestsAssumption DEF TypeOK, Tokens
    <3> QED
      BY <3>1, <3>2, <3>3, <3>4
  <2>8. CASE UNCHANGED vars
    BY <2>8 DEF vars, redisVars, consumerVars, historyVars
  <2> QED
    BY <2>1, <2>2, <2>3, <2>4, <2>5, <2>6, <2>7, <2>8, <2>9 DEF Next
<1> QED
  BY <1>1, <1>2, TypeCorrect, PTL DEF Spec

\* A customer never has two published reservations whose locks both still hold,
\* through every crash, redelivery and expiry between SET NX, the publish and
\* the acknowledgement.
THEOREM OneReservation == Spec => []OneReservationPerUser
<1>1. LockInv => OneReservationPerUser
  BY DEF LockInv, Holds, OneReservationPerUser
<1> QED
  BY <1>1, LockInvariant, PTL

-----------------------------------------------------------------------------
(* What a customer is told.                                                *)

PublishedFor(r) == \E t \in published : t[1] = r

\* The order goes out before the reply that says success.
SuccessInv ==
  \A r \in Requests :
    msg[r] \in {"reply", "ack", "acked"} \/ reply[r] = "success" => PublishedFor(r)

\* A step of the consumer that publishes nothing and is no success leaves the
\* messages and replies of a success as they are.
LEMMA ConsumeReplies ==
  ASSUME TypeOK, NEW r \in Requests, Consume(r), ~PublishOrder(r), ~ReplySuccess(r)
  PROVE  /\ published' = published
         /\ \A q \in Requests :
              /\ msg'[q] \in {"reply", "ack", "acked"} => msg[q] \in {"reply", "ack", "acked"}
              /\ reply'[q] = "success" => reply[q] = "success"
  BY DEF TypeOK, Consume, Deliver, ReadInitial, ReadBase, Lock, SetPrice, Ack, Refund,
         ReplyFailure, FirstReply, Drop, Goto

LEMMA SuccessInvariant == Spec => []SuccessInv
<1>1. Init => SuccessInv
  BY DEF Init, SuccessInv
<1>2. TypeOK /\ SuccessInv /\ [Next]_vars => SuccessInv'
  <2> SUFFICES ASSUME TypeOK, SuccessInv, [Next]_vars
               PROVE  SuccessInv'
    OBVIOUS
  <2> USE DEF SuccessInv, PublishedFor
  <2>1. ASSUME NEW s \in Sales, Start(s)
        PROVE  SuccessInv'
    BY <2>1 DEF Start, StartStep, SetInitialStock, SetStock, SetBasePrice, SetCurrentPrice,
                SetLive, StartFails, consumerVars
  <2>2. ASSUME NEW r \in Requests, Book(r)
        PROVE  SuccessInv'
    BY <2>2 DEF Book, Gatekeeper, ReadPrice, Publish, ReceiveReply, BookingFails,
                consumerVars, TypeOK
  <2>3. ASSUME NEW r \in Requests, Consume(r)
        PROVE  SuccessInv'
    <3>1. CASE PublishOrder(r)
      <4>1. /\ published' = published \cup {Token(r)} /\ reply' = reply
            /\ msg' = [msg EXCEPT ![r] = "reply"]
        BY <3>1 DEF PublishOrder, Ordered, Goto
      <4>2. Token(r)[1] = r
        BY DEF Token
      <4> QED
        BY <4>1, <4>2 DEF TypeOK
    <3>2. CASE ReplySuccess(r)
      BY <3>2 DEF ReplySuccess, FirstReply, Goto, TypeOK
    <3>3. CASE ~PublishOrder(r) /\ ~ReplySuccess(r)
      BY <2>3, <3>3, ConsumeReplies
    <3> QED
      BY <3>1, <3>2, <3>3
  <2>4. ASSUME NEW r \in Requests, RedisError(r)
        PROVE  SuccessInv'
    BY <2>4 DEF RedisError, Requeue, FirstReply, TypeOK
  <2>5. CASE GatewayCrash
    BY <2>5 DEF GatewayCrash, consumerVars
  <2>6. CASE ProductCrash
    BY <2>6 DEF ProductCrash, Requeue, TypeOK
  <2>7. ASSUME NEW u \in Users, LockExpires(u)
        PROVE  SuccessInv'
    BY <2>7 DEF LockExpires, consumerVars
  <2>9. CASE Resend
    BY <2>9, ResendKeeps
  <2>8. CASE UNCHANGED vars
    BY <2>8 DEF vars, consumerVars
  <2> QED
    BY <2>1, <2>2, <2>3, <2>4, <2>5, <2>6, <2>7, <2>8, <2>9 DEF Next
<1> QED
  BY <1>1, <1>2, TypeCorrect, PTL DEF Spec

\* No customer is told success without an order: a reply follows the
\* publication in every run of the consumer, first or repeated.
THEOREM SuccessPublished == Spec => []SuccessIsPublished
<1>1. SuccessInv => SuccessIsPublished
  BY DEF SuccessInv, PublishedFor, SuccessIsPublished
<1> QED
  BY <1>1, SuccessInvariant, PTL

-----------------------------------------------------------------------------
(* Prices.                                                                 *)

Surged(s) == BaseOf[s] * 100 .. BaseOf[s] * 150

\* The pricing engine and the bookings only run after startFlashSale has set
\* every price ...
Priced(s) ==
  /\ claimed # {} => live
  /\ live => starting[s] = "live"
  /\ starting[s] \in {"current", "status", "live"} => basePrice = BaseOf[s]
  /\ starting[s] \in {"status", "live"} => currentPrice \in Surged(s)
  /\ \A r \in Requests :
       /\ msg[r] \in {"lock", "price"} => local[r].price \in Surged(s)
       /\ billed[r] # Nil => billed[r] \in Surged(s)

\* ... when no unit was taken before the sale was live.
PriceInv == OneStart /\ early = {} => \A s \in Sales : Priced(s)

LEMMA SurgedPrices ==
  ASSUME NEW s \in Sales
  PROVE  /\ BaseOf[s] \in Nat
         /\ BaseOf[s] * 100 \in Surged(s)
         /\ \A price \in Surged(s) : price # Nil
         /\ \A initial, left \in Nat : SurgePrice(initial, left, BaseOf[s]) \in Surged(s)
<1>1. BaseOf[s] \in Nat
  BY SalesAssumption
<1>2. \A initial, left \in Nat : SurgePrice(initial, left, BaseOf[s]) \in Surged(s)
  <2> SUFFICES ASSUME NEW initial \in Nat, NEW left \in Nat
               PROVE  SurgePrice(initial, left, BaseOf[s]) \in Surged(s)
    OBVIOUS
  <2>1. left \in Int /\ left <= left
    OBVIOUS
  <2> QED
    BY <1>1, <2>1, SurgeMonotone DEF Surged
<1>3. BaseOf[s] * 100 \in Surged(s)
  BY <1>1 DEF Surged
<1>4. \A price \in Surged(s) : price # Nil
  BY <1>1, NilAssumption DEF Surged
<1> QED
  BY <1>1, <1>2, <1>3, <1>4

LEMMA EarlyStays ==
  ASSUME [Next]_vars
  PROVE  early \subseteq early'
  BY DEF Next, Start, StartStep, SetInitialStock, SetStock, SetBasePrice, SetCurrentPrice,
         SetLive, StartFails, Book, Gatekeeper, ReadPrice, Publish, ReceiveReply, BookingFails,
         Consume, Deliver, ReadInitial, ReadBase, Lock, SetPrice, PublishOrder, ReplySuccess,
         Ack, Refund, ReplyFailure, Drop, RedisError, GatewayCrash, ProductCrash, Resend,
         StockAgain, ScriptAgain, LockAgain, RefundAgain, AnswerLost, LockExpires,
         historyVars, vars

\* A step of the consumer that neither computes nor stores a price.
LEMMA ConsumeKeepsPrices ==
  ASSUME TypeOK, NEW r \in Requests, Consume(r), ~ReadBase(r), ~SetPrice(r)
  PROVE  /\ UNCHANGED <<basePrice, currentPrice, live, starting, billed, claimed>>
         /\ \A q \in Requests :
              msg'[q] \in {"lock", "price"} =>
                msg[q] \in {"lock", "price"} /\ local'[q] = local[q]
  BY DEF TypeOK, Consume, Deliver, ReadInitial, Lock, PublishOrder, ReplySuccess, Ack,
         Refund, ReplyFailure, Drop, Goto, redisVars, gatewayVars, historyVars

\* No customer is billed less than the base price or more than one and a half
\* times as much, although the price is computed from a stock that was read
\* earlier and overlapping runs store their prices in any order.
THEOREM SurgeBilling == Spec => []BilledWithinSurge
<1>1. Init => PriceInv
  BY DEF Init, PriceInv, Priced
<1>2. TypeOK /\ BookingInv /\ PriceInv /\ [Next]_vars => PriceInv'
  <2> SUFFICES ASSUME TypeOK, BookingInv, PriceInv, [Next]_vars, OneStart, early' = {},
                      NEW s \in Sales
               PROVE  Priced(s)'
    BY DEF PriceInv, OneStart
  <2>0. Priced(s) /\ \A t \in Sales : t = s
    BY EarlyStays DEF PriceInv, OneStart
  <2>1. ASSUME NEW t \in Sales, Start(t)
        PROVE  Priced(s)'
    <3>1. t = s
      BY <2>0
    <3>2. UNCHANGED <<msg, local, billed, claimed>>
      BY <2>1 DEF Start, StartStep, SetInitialStock, SetStock, SetBasePrice, SetCurrentPrice,
                  SetLive, StartFails, gatewayVars, consumerVars, historyVars
    <3>3. CASE SetBasePrice(s)
      BY <3>3, <3>2, <2>0 DEF SetBasePrice, StartStep, Priced, TypeOK
    <3>4. CASE SetCurrentPrice(s)
      BY <3>4, <3>2, <2>0, SurgedPrices DEF SetCurrentPrice, StartStep, Priced, TypeOK
    <3>5. CASE SetInitialStock(s) \/ SetStock(s) \/ SetLive(s) \/ StartFails(s)
      BY <3>5, <3>2, <2>0 DEF SetInitialStock, SetStock, SetLive, StartFails, StartStep,
                              Priced, TypeOK, redisVars
    <3> QED
      BY <2>1, <3>1, <3>3, <3>4, <3>5 DEF Start
  <2>2. ASSUME NEW r \in Requests, Book(r)
        PROVE  Priced(s)'
    <3>1. CASE Gatekeeper(r)
      <4>1. claimed' # {} => live
        BY <3>1, <2>0 DEF Gatekeeper, Priced
      <4>2. UNCHANGED <<starting, basePrice, currentPrice, live, msg, local, billed>>
        BY <3>1 DEF Gatekeeper, consumerVars
      <4> QED
        BY <4>1, <4>2, <2>0 DEF Priced
    <3>2. CASE ReadPrice(r)
      <4>1. starting[s] = "live" /\ currentPrice \in Surged(s)
        BY <3>2, <2>0 DEF ReadPrice, BookingInv, InGateway, Priced
      <4>2. billed' = [billed EXCEPT ![r] = currentPrice]
        BY <3>2, <4>1, SurgedPrices DEF ReadPrice, BilledPrice
      <4>3. UNCHANGED <<starting, basePrice, currentPrice, live, msg, local, claimed>>
        BY <3>2 DEF ReadPrice, consumerVars, redisVars, historyVars
      <4> QED
        BY <4>1, <4>2, <4>3, <2>0 DEF Priced, TypeOK
    <3>3. CASE Publish(r)
      BY <3>3, <2>0 DEF Publish, Priced, TypeOK, redisVars, historyVars
    <3>4. CASE ReceiveReply(r) \/ BookingFails(r)
      BY <3>4, <2>0 DEF ReceiveReply, BookingFails, Priced, consumerVars, redisVars, historyVars
    <3> QED
      BY <2>2, <3>1, <3>2, <3>3, <3>4 DEF Book
  <2>3. ASSUME NEW r \in Requests, Consume(r)
        PROVE  Priced(s)'
    <3>1. starting[s] = "live"
      BY <2>3, <2>0, ConsumeMoves DEF BookingInv, Priced
    <3>2. CASE ReadBase(r)
      <4>0. basePrice = BaseOf[s] /\ basePrice # Nil
        BY <3>1, <2>0, SurgedPrices, NilAssumption DEF Priced
      <4>1. /\ local' = [local EXCEPT ![r].price =
                           SurgePrice(local[r].initial, local[r].stock, BaseOf[s])]
            /\ msg' = [msg EXCEPT ![r] = "lock"]
            /\ UNCHANGED <<starting, basePrice, currentPrice, live, billed, claimed>>
        BY <3>2, <4>0 DEF ReadBase, Goto, redisVars, gatewayVars, historyVars
      <4>2. local'[r].price \in Surged(s)
        BY <4>1, SurgedPrices DEF TypeOK
      <4> QED
        BY <4>1, <4>2, <2>0 DEF Priced, TypeOK
    <3>3. CASE SetPrice(r)
      BY <3>3, <2>0 DEF SetPrice, Goto, Priced, TypeOK, gatewayVars, historyVars
    <3>4. CASE ~ReadBase(r) /\ ~SetPrice(r)
      BY <2>3, <3>4, <2>0, ConsumeKeepsPrices DEF Priced
    <3> QED
      BY <3>2, <3>3, <3>4
  <2>4. ASSUME NEW r \in Requests, RedisError(r)
        PROVE  Priced(s)'
    BY <2>4, <2>0 DEF RedisError, Requeue, Priced, TypeOK, redisVars, gatewayVars
  <2>5. CASE GatewayCrash
    BY <2>5, <2>0 DEF GatewayCrash, Priced, redisVars, consumerVars, historyVars
  <2>6. CASE ProductCrash
    BY <2>6, <2>0 DEF ProductCrash, Requeue, Priced, TypeOK, redisVars, gatewayVars
  <2>7. ASSUME NEW u \in Users, LockExpires(u)
        PROVE  Priced(s)'
    BY <2>7, <2>0 DEF LockExpires, Priced, gatewayVars, consumerVars
  <2>9. CASE Resend
    BY <2>9, <2>0, ResendKeeps DEF Priced
  <2>8. CASE UNCHANGED vars
    BY <2>8, <2>0 DEF vars, Priced, redisVars, gatewayVars, consumerVars, historyVars
  <2> QED
    BY <2>1, <2>2, <2>3, <2>4, <2>5, <2>6, <2>7, <2>8, <2>9 DEF Next
<1>3. PriceInv => BilledWithinSurge
  BY DEF PriceInv, Priced, BilledWithinSurge, Surged
<1> QED
  BY <1>1, <1>2, <1>3, TypeCorrect, BookingInvariant, PTL DEF Spec

-----------------------------------------------------------------------------
(* Refusals.                                                               *)

Reserved == {"price", "order", "reply", "ack", "acked"}
Refused == {"refund", "refuse", "nack", "dropped"}

\* Without a fault the holder of a lock is past it and never runs again.
RefusedInv ==
  faults = 0 =>
    /\ \A u \in Users :
         lock[u] # Nil =>
           \E q \in Requests : UserOf[q] = u /\ msg[q] \in Reserved
    /\ \A r \in Requests :
         msg[r] \in Refused =>
           \E q \in Requests \ {r} : UserOf[q] = UserOf[r] /\ msg[q] \in Reserved

\* Apart from the attempt to lock, a step of the consumer moves a message from a
\* reserved step to a reserved one, and from a refused one to a refused one.
LEMMA ConsumeKeepsVerdict ==
  ASSUME TypeOK, NEW r \in Requests, Consume(r), ~Lock(r)
  PROVE  /\ UNCHANGED <<lock, faults>>
         /\ \A q \in Requests : msg[q] \in Reserved => msg'[q] \in Reserved
         /\ \A q \in Requests : msg'[q] \in Refused => msg[q] \in Refused
  BY DEF TypeOK, Consume, Deliver, ReadInitial, ReadBase, SetPrice, PublishOrder,
         ReplySuccess, Ack, Refund, ReplyFailure, Drop, Goto, redisVars, Reserved, Refused

\* Only a customer's own other booking can cost a booking its unit, in every
\* interleaving of the runs and expiries.
THEOREM Refusals == Spec => []RefusedForAnother
<1>1. Init => RefusedInv
  BY DEF Init, RefusedInv, Refused
<1>2. TypeOK /\ BookingInv /\ RefusedInv /\ [Next]_vars => RefusedInv'
  <2> SUFFICES ASSUME TypeOK, BookingInv, RefusedInv, [Next]_vars, faults' = 0
               PROVE  RefusedInv'
    BY DEF RefusedInv
  <2> USE DEF RefusedInv
  <2>0. faults \in Nat
    BY FaultsAssumption DEF TypeOK
  <2>1. ASSUME NEW s \in Sales, Start(s)
        PROVE  RefusedInv'
    BY <2>1, <2>0 DEF Start, StartStep, SetInitialStock, SetStock, SetBasePrice,
                      SetCurrentPrice, SetLive, StartFails, redisVars, consumerVars
  <2>2. ASSUME NEW r \in Requests, Book(r)
        PROVE  RefusedInv'
    <3>1. CASE Publish(r)
      <4>1. msg[r] = "none" /\ msg' = [msg EXCEPT ![r] = "queued"]
        BY <3>1 DEF Publish, BookingInv
      <4>2. lock' = lock /\ faults = 0
        BY <3>1 DEF Publish, redisVars
      <4>3. /\ \A q \in Requests : msg[q] \in Reserved => msg'[q] \in Reserved
            /\ \A q \in Requests : msg'[q] \in Refused => msg[q] \in Refused
        BY <4>1 DEF TypeOK, Reserved, Refused
      <4> QED
        BY <4>2, <4>3
    <3>2. CASE ~Publish(r)
      BY <2>2, <3>2, <2>0 DEF Book, Gatekeeper, ReadPrice, ReceiveReply, BookingFails,
                              redisVars, consumerVars
    <3> QED
      BY <3>1, <3>2
  <2>3. ASSUME NEW r \in Requests, Consume(r)
        PROVE  RefusedInv'
    <3>1. CASE Lock(r)
      <4>1. msg[r] = "lock" /\ faults' = faults /\ UserOf[r] \in Users
        BY <3>1, RequestsAssumption DEF Lock
      <4>2. CASE CanReserve(UserOf[r])
        <5>1. msg' = [msg EXCEPT ![r] = "price"]
              /\ \A u \in Users : lock'[u] = lock[u] \/ u = UserOf[r]
          BY <3>1, <4>2 DEF Lock, Goto, TypeOK
        <5> QED
          BY <4>1, <5>1 DEF TypeOK, Reserved, Refused
      <4>3. CASE ~CanReserve(UserOf[r])
        <5>1. msg' = [msg EXCEPT ![r] = "refund"] /\ lock' = lock
          BY <3>1, <4>3 DEF Lock, Goto
        <5>2. PICK q \in Requests : UserOf[q] = UserOf[r] /\ msg[q] \in Reserved
          BY <4>1, <4>3 DEF CanReserve
        <5>3. q # r
          BY <4>1, <5>2 DEF Reserved
        <5> QED
          BY <4>1, <5>1, <5>2, <5>3 DEF TypeOK, Reserved, Refused
      <4> QED
        BY <4>2, <4>3
    <3>2. CASE ~Lock(r)
      BY <2>3, <3>2, ConsumeKeepsVerdict
    <3> QED
      BY <3>1, <3>2
  <2>4. ASSUME NEW r \in Requests, RedisError(r)
        PROVE  RefusedInv'
    BY <2>4, <2>0 DEF RedisError, Requeue
  <2>5. CASE GatewayCrash
    BY <2>5, <2>0 DEF GatewayCrash
  <2>6. CASE ProductCrash
    BY <2>6, <2>0 DEF ProductCrash, Requeue
  <2>7. ASSUME NEW u \in Users, LockExpires(u)
        PROVE  RefusedInv'
    BY <2>7 DEF LockExpires, TypeOK, consumerVars
  <2>9. CASE Resend
    BY <2>9, <2>0, ResendKeeps
  <2>8. CASE UNCHANGED vars
    BY <2>8 DEF vars, redisVars, consumerVars
  <2> QED
    BY <2>1, <2>2, <2>3, <2>4, <2>5, <2>6, <2>7, <2>8, <2>9 DEF Next
<1>3. RefusedInv => RefusedForAnother
  BY DEF RefusedInv, RefusedForAnother, Refused, Reserved
<1> QED
  BY <1>1, <1>2, <1>3, TypeCorrect, BookingInvariant, PTL DEF Spec

-----------------------------------------------------------------------------
(* The accounts.                                                           *)

LEMMA UnsettledFinite ==
  ASSUME TypeOK
  PROVE  IsFiniteSet(Unsettled) /\ Cardinality(Unsettled) \in Nat
<1>1. Unsettled \in SUBSET Requests
  BY DEF TypeOK, Unsettled
<1> QED
  BY <1>1, FS_Subset, FS_CardinalityType, RequestsAssumption

\* The steps of a run that neither sell a unit nor give one back.
LEMMA ConsumeKeepsAccounts ==
  ASSUME TypeOK, BookingInv, NEW r \in Requests, Consume(r), ~PublishOrder(r), ~Refund(r)
  PROVE  /\ UNCHANGED <<stock, published, repeated, supplied, discarded, leaked>>
         /\ Unsettled' = Unsettled
<1>1. /\ UNCHANGED <<stock, published, repeated, supplied, discarded, leaked, claimed>>
      /\ \E step \in BeforeEffect \cup AfterEffect \cup {"acked", "dropped"} :
           /\ msg' = [msg EXCEPT ![r] = step]
           /\ step \in BeforeEffect <=> msg[r] \in {"queued"} \cup BeforeEffect
      /\ msg[r] # "none"
  BY DEF TypeOK, Consume, Deliver, ReadInitial, ReadBase, Lock, SetPrice, ReplySuccess, Ack,
         ReplyFailure, Drop, Goto, BeforeEffect, AfterEffect, redisVars, historyVars
<1>2. \A q \in claimed : msg'[q] \in {"none", "queued"} \cup BeforeEffect
                           <=> msg[q] \in {"none", "queued"} \cup BeforeEffect
  BY <1>1 DEF TypeOK, BeforeEffect, AfterEffect
<1> QED
  BY <1>1, <1>2 DEF Unsettled

\* A run that settles its message leaves one unsettled unit less.
LEMMA OneSettled ==
  ASSUME TypeOK, BookingInv, NEW r \in Requests, NEW step \in {"reply", "refuse"},
         msg[r] \in BeforeEffect, msg' = [msg EXCEPT ![r] = step], claimed' = claimed
  PROVE  Cardinality(Unsettled') = Cardinality(Unsettled) - 1
<1>1. r \in Unsettled
  BY DEF BookingInv, Unsettled, BeforeEffect
<1>2. Unsettled' = Unsettled \ {r}
  BY DEF TypeOK, Unsettled, BeforeEffect
<1> QED
  BY <1>1, <1>2, UnsettledFinite, FS_RemoveElement

\* A redelivery makes the units of the messages that took effect unsettled once
\* more, and no other.
LEMMA RequeueAccounts ==
  ASSUME TypeOK, BookingInv, NEW S \in SUBSET Requests, Requeue(S), claimed' = claimed,
         \A r \in S : msg[r] \in {"queued"} \cup BeforeEffect \cup AfterEffect
  PROVE  Cardinality(Unsettled') - repeated' = Cardinality(Unsettled) - repeated
<1> DEFINE again == {r \in S : msg[r] \in AfterEffect}
<1>1. IsFiniteSet(again)
  <2>1. again \in SUBSET Requests
    OBVIOUS
  <2> QED
    BY <2>1, FS_Subset, RequestsAssumption
<1>2. Unsettled \cap again = {}
  BY DEF Unsettled, BeforeEffect, AfterEffect
<1>3. \A r \in S : msg[r] # "none"
  BY DEF BeforeEffect, AfterEffect
<1>4. S \subseteq claimed
  BY <1>3 DEF BookingInv
<1>5. \A r \in Requests : msg'[r] = IF r \in S THEN "queued" ELSE msg[r]
  BY <1>3, RequeueMoves
<1>6. Unsettled' = Unsettled \cup again
  BY <1>4, <1>5 DEF TypeOK, Unsettled
<1>7. /\ Cardinality(Unsettled \cap again) = 0
      /\ Cardinality(again) \in Nat
  BY <1>1, <1>2, FS_EmptySet, FS_CardinalityType
<1>8. Cardinality(Unsettled \cup again) = Cardinality(Unsettled) + Cardinality(again)
  <2> HIDE DEF again
  <2>1. Cardinality(Unsettled \cup again) =
          Cardinality(Unsettled) + Cardinality(again) - Cardinality(Unsettled \cap again)
    BY <1>1, UnsettledFinite, FS_Union
  <2> QED
    BY <2>1, <1>7, UnsettledFinite
<1>9. repeated' = repeated + Cardinality(again)
  BY DEF Requeue
<1> QED
  BY <1>6, <1>7, <1>8, <1>9, UnsettledFinite DEF TypeOK

\* Every unit that was put on sale is in the stock, sold, unsettled, overwritten
\* or leaked, up to one for each redelivery of a message that had taken effect
\* and for each INCR that was sent again: no interleaving of bookings, runs and
\* starts, no error and no crash loses or makes another.
THEOREM Ledger == Spec => []StockLedger
<1> USE DEF Left
<1>1. Init => StockLedger
  <2> SUFFICES ASSUME Init PROVE StockLedger
    OBVIOUS
  <2>1. published = {} /\ Unsettled = {}
    BY DEF Init, Unsettled
  <2> QED
    BY <2>1, FS_EmptySet DEF Init, StockLedger
<1>2. TypeOK /\ BookingInv /\ FreshInv /\ StockLedger /\ [Next]_vars => StockLedger'
  <2> SUFFICES ASSUME TypeOK, BookingInv, FreshInv, StockLedger, [Next]_vars
               PROVE  StockLedger'
    OBVIOUS
  <2>0. /\ IsFiniteSet(published) /\ Cardinality(published) \in Nat
        /\ IsFiniteSet(Unsettled) /\ Cardinality(Unsettled) \in Nat
        /\ repeated \in Nat /\ supplied \in Nat /\ discarded \in Nat /\ leaked \in Nat
        /\ Left(stock) \in Nat
        /\ Left(stock) + Cardinality(published) + Cardinality(Unsettled) + discarded + leaked
             = supplied + repeated
    BY UnsettledFinite, FS_CardinalityType DEF FreshInv, TypeOK, StockLedger
  <2>k. ASSUME UNCHANGED <<stock, published, repeated, supplied, discarded, leaked>>,
               Unsettled' = Unsettled
        PROVE  StockLedger'
    BY <2>k, <2>0 DEF StockLedger
  <2>1. ASSUME NEW s \in Sales, Start(s)
        PROVE  StockLedger'
    <3>1. UNCHANGED <<published, repeated, leaked, claimed, msg>>
      BY <2>1 DEF Start, StartStep, SetInitialStock, SetStock, SetBasePrice,
                  SetCurrentPrice, SetLive, StartFails, consumerVars, historyVars
    <3>2. Unsettled' = Unsettled
      BY <3>1 DEF Unsettled
    <3>3. CASE SetStock(s)
      <4>1. /\ stock' = InitialOf[s]
            /\ supplied' = supplied + InitialOf[s]
            /\ discarded' = discarded + Left(stock)
        BY <3>3 DEF SetStock, PutOnSale
      <4>2. Left(stock') = InitialOf[s] /\ InitialOf[s] \in Nat
        BY <4>1, SalesAssumption, NilAssumption
      <4> QED
        BY <3>1, <3>2, <4>1, <4>2, <2>0 DEF StockLedger
    <3>4. CASE ~SetStock(s)
      BY <2>1, <2>k, <3>1, <3>2, <3>4
         DEF Start, SetInitialStock, SetBasePrice, SetCurrentPrice, SetLive, StartFails,
             redisVars, historyVars
    <3> QED
      BY <3>3, <3>4
  <2>2. ASSUME NEW r \in Requests, Book(r)
        PROVE  StockLedger'
    <3>1. CASE Gatekeeper(r) /\ Claims(stock)
      <4>1. /\ stock # Nil /\ stock > 0 /\ stock' = stock - 1
            /\ claimed' = claimed \cup {r}
            /\ UNCHANGED <<msg, published, repeated, supplied, discarded, leaked>>
        BY <3>1 DEF Gatekeeper, GateStock, Claims, HasUnit, consumerVars
      <4>2. r \notin claimed /\ msg[r] = "none"
        BY <3>1 DEF Gatekeeper, BookingInv
      <4>3. Unsettled' = Unsettled \cup {r} /\ r \notin Unsettled
        BY <4>1, <4>2 DEF Unsettled
      <4>4. Cardinality(Unsettled \cup {r}) = Cardinality(Unsettled) + 1
        BY <4>3, <2>0, FS_AddElement
      <4>5. Left(stock') = Left(stock) - 1
        BY <4>1, NilAssumption DEF TypeOK
      <4> QED
        BY <4>1, <4>3, <4>4, <4>5, <2>0 DEF StockLedger
    <3>2. CASE Gatekeeper(r) /\ ~Claims(stock)
      <4>1. UNCHANGED <<stock, claimed, msg, published, repeated, supplied, discarded, leaked>>
        BY <3>2 DEF Gatekeeper, GateStock, consumerVars
      <4> QED
        BY <4>1, <2>k DEF Unsettled
    <3>3. CASE Publish(r)
      <4>1. /\ msg[r] = "none" /\ msg' = [msg EXCEPT ![r] = "queued"]
            /\ UNCHANGED <<stock, claimed, published, repeated, supplied, discarded, leaked>>
        BY <3>3 DEF Publish, BookingInv, redisVars, historyVars
      <4>2. Unsettled' = Unsettled
        BY <4>1 DEF Unsettled, TypeOK
      <4> QED
        BY <4>1, <4>2, <2>k
    <3>4. CASE ReadPrice(r) \/ ReceiveReply(r) \/ BookingFails(r)
      <4>1. UNCHANGED <<stock, claimed, msg, published, repeated, supplied, discarded, leaked>>
        BY <3>4 DEF ReadPrice, ReceiveReply, BookingFails, redisVars, consumerVars, historyVars
      <4> QED
        BY <4>1, <2>k DEF Unsettled
    <3> QED
      BY <2>2, <3>1, <3>2, <3>3, <3>4 DEF Book
  <2>3. ASSUME NEW r \in Requests, Consume(r)
        PROVE  StockLedger'
    <3>1. CASE PublishOrder(r)
      <4>1. /\ msg[r] = "order" /\ msg' = [msg EXCEPT ![r] = "reply"]
            /\ published' = published \cup {Token(r)}
            /\ UNCHANGED <<stock, claimed, repeated, supplied, discarded, leaked>>
        BY <3>1 DEF PublishOrder, Ordered, Goto, redisVars, historyVars
      <4>2. Token(r) \notin published
        BY <4>1 DEF FreshInv, Token, TypeOK
      <4>3. Cardinality(published') = Cardinality(published) + 1
        BY <4>1, <4>2, <2>0, FS_AddElement
      <4>4. Cardinality(Unsettled') = Cardinality(Unsettled) - 1
        BY <4>1, OneSettled DEF BeforeEffect
      <4> QED
        BY <4>1, <4>3, <4>4, <2>0 DEF StockLedger
    <3>2. CASE Refund(r)
      <4>1. /\ msg[r] = "refund" /\ msg' = [msg EXCEPT ![r] = "refuse"]
            /\ stock' = Returned(stock)
            /\ UNCHANGED <<published, claimed, repeated, supplied, discarded, leaked>>
        BY <3>2 DEF Refund, Goto, historyVars
      <4>2. Cardinality(Unsettled') = Cardinality(Unsettled) - 1
        BY <4>1, OneSettled DEF BeforeEffect
      <4>3. Left(stock') = Left(stock) + 1
        BY <4>1, NilAssumption DEF Returned, TypeOK
      <4> QED
        BY <4>1, <4>2, <4>3, <2>0 DEF StockLedger
    <3>3. CASE ~PublishOrder(r) /\ ~Refund(r)
      BY <2>3, <3>3, <2>k, ConsumeKeepsAccounts
    <3> QED
      BY <3>1, <3>2, <3>3
  <2>9. ASSUME NEW S \in SUBSET Requests, Requeue(S),
               \A r \in S : msg[r] \in {"queued"} \cup BeforeEffect \cup AfterEffect,
               UNCHANGED <<stock, published, claimed, supplied, discarded, leaked>>
        PROVE  StockLedger'
    <3>1. Cardinality(Unsettled') - repeated' = Cardinality(Unsettled) - repeated
      BY <2>9, RequeueAccounts
    <3>2. Unsettled' \in SUBSET Requests /\ repeated' = repeated
            + Cardinality({r \in S : msg[r] \in AfterEffect})
      BY <2>9 DEF Unsettled, TypeOK, Requeue
    <3>3. Cardinality(Unsettled') \in Nat
      BY <3>2, FS_Subset, FS_CardinalityType, RequestsAssumption
    <3>4. repeated' \in Nat
      BY <2>9, <3>2, FS_Subset, FS_CardinalityType, RequestsAssumption DEF TypeOK
    <3> DEFINE units == Left(stock)
               sold == Cardinality(published)
    <3>5. /\ units' = units /\ sold' = sold
          /\ supplied' = supplied /\ discarded' = discarded /\ leaked' = leaked
      BY <2>9
    <3>6. /\ units \in Nat /\ sold \in Nat
          /\ units + sold + Cardinality(Unsettled) + discarded + leaked = supplied + repeated
      BY <2>0
    <3> HIDE DEF units, sold
    <3>7. units' + sold' + Cardinality(Unsettled') + discarded' + leaked' = supplied' + repeated'
      BY <3>1, <3>3, <3>4, <3>5, <3>6, <2>0
    <3> QED
      BY <3>7 DEF StockLedger, units, sold
  <2>4. ASSUME NEW r \in Requests, RedisError(r)
        PROVE  StockLedger'
    <3>1. /\ Requeue({r}) /\ UNCHANGED <<stock, published, claimed, supplied, discarded, leaked>>
          /\ msg[r] \in {"queued"} \cup BeforeEffect \cup AfterEffect
      BY <2>4 DEF RedisError, redisVars, BeforeEffect
    <3> QED
      BY <3>1, <2>9
  <2>5. CASE GatewayCrash
    <3>1. UNCHANGED <<stock, published, repeated, supplied, discarded, leaked, claimed, msg>>
      BY <2>5 DEF GatewayCrash, redisVars, consumerVars, historyVars
    <3> QED
      BY <3>1, <2>k DEF Unsettled
  <2>6. CASE ProductCrash
    <3>1. /\ Requeue(Unacked) /\ Unacked \in SUBSET Requests
          /\ UNCHANGED <<stock, published, claimed, supplied, discarded, leaked>>
          /\ \A r \in Unacked : msg[r] \in {"queued"} \cup BeforeEffect \cup AfterEffect
      BY <2>6 DEF ProductCrash, Unacked, redisVars
    <3> QED
      BY <3>1, <2>9
  <2>7. ASSUME NEW u \in Users, LockExpires(u)
        PROVE  StockLedger'
    BY <2>7, <2>k DEF LockExpires, Unsettled, consumerVars
  <2>10. CASE Resend
    <3>1. UNCHANGED <<published, claimed, msg>> /\ Unsettled' = Unsettled
      BY <2>10, ResendKeeps DEF Unsettled
    <3>2. ASSUME NEW s \in Sales, StockAgain(s)
          PROVE  StockLedger'
      <4>1. /\ stock' = InitialOf[s] /\ supplied' = supplied + InitialOf[s]
            /\ discarded' = discarded + Left(stock) /\ UNCHANGED <<repeated, leaked>>
        BY <3>2 DEF StockAgain, PutOnSale
      <4>2. Left(stock') = InitialOf[s] /\ InitialOf[s] \in Nat
        BY <4>1, SalesAssumption, NilAssumption
      <4> QED
        BY <3>1, <4>1, <4>2, <2>0 DEF StockLedger
    <3>3. ASSUME NEW r \in Requests, ScriptAgain(r)
          PROVE  StockLedger'
      <4>1. /\ stock # Nil /\ stock > 0 /\ stock' = stock - 1 /\ leaked' = leaked + 1
            /\ UNCHANGED <<repeated, supplied, discarded>>
        BY <3>3 DEF ScriptAgain, GateStock, Claims, HasUnit
      <4>2. Left(stock') = Left(stock) - 1
        BY <4>1, NilAssumption DEF TypeOK
      <4> QED
        BY <3>1, <4>1, <4>2, <2>0 DEF StockLedger
    <3>4. ASSUME NEW r \in Requests, LockAgain(r)
          PROVE  StockLedger'
      <4>1. UNCHANGED <<stock, repeated, supplied, discarded, leaked>>
        BY <3>4 DEF LockAgain
      <4> QED
        BY <3>1, <4>1, <2>k
    <3>5. ASSUME NEW r \in Requests, RefundAgain(r)
          PROVE  StockLedger'
      <4>1. /\ stock' = Returned(stock) /\ repeated' = repeated + 1
            /\ UNCHANGED <<supplied, discarded, leaked>>
        BY <3>5 DEF RefundAgain
      <4>2. Left(stock') = Left(stock) + 1
        BY <4>1, NilAssumption DEF Returned, TypeOK
      <4> QED
        BY <3>1, <4>1, <4>2, <2>0 DEF StockLedger
    <3> QED
      BY <2>10, <3>2, <3>3, <3>4, <3>5 DEF Resend
  <2>8. CASE UNCHANGED vars
    <3>1. UNCHANGED <<stock, published, repeated, supplied, discarded, leaked, claimed, msg>>
      BY <2>8 DEF vars, redisVars, consumerVars, historyVars
    <3> QED
      BY <3>1, <2>k DEF Unsettled
  <2> QED
    BY <2>1, <2>2, <2>3, <2>4, <2>5, <2>6, <2>7, <2>8, <2>10 DEF Next
<1> QED
  BY <1>1, <1>2, TypeCorrect, BookingInvariant, FreshInvariant, PTL DEF Spec

\* A call of startFlashSale that nothing disturbs puts its units on sale once, and
\* without a fault nothing takes effect twice.
SupplyInv ==
  faults = 0 =>
    /\ repeated = 0
    /\ OneStart =>
         \A s \in Sales :
           supplied = IF starting[s] \in {"idle", "stock"} THEN 0 ELSE InitialOf[s]

LEMMA SupplyInvariant == Spec => []SupplyInv
<1>1. Init => SupplyInv
  BY DEF Init, SupplyInv
<1>2. TypeOK /\ SupplyInv /\ [Next]_vars => SupplyInv'
  <2> SUFFICES ASSUME TypeOK, SupplyInv, [Next]_vars
               PROVE  SupplyInv'
    OBVIOUS
  <2> USE DEF SupplyInv
  <2>1. ASSUME NEW s \in Sales, Start(s)
        PROVE  SupplyInv'
    <3> USE DEF StartStep
    <3>1. CASE SetStock(s)
      <4>1. /\ starting[s] = "stock" /\ starting' = [starting EXCEPT ![s] = "base"]
            /\ supplied' = supplied + InitialOf[s]
            /\ UNCHANGED <<faults, repeated>>
        BY <3>1 DEF SetStock, PutOnSale
      <4>2. ASSUME faults = 0, OneStart PROVE supplied' = InitialOf[s]
        BY <4>1, <4>2, SalesAssumption
      <4>3. OneStart => \A t \in Sales : t = s
        BY DEF OneStart
      <4> QED
        BY <4>1, <4>2, <4>3 DEF TypeOK
    <3>2. CASE SetInitialStock(s) \/ SetBasePrice(s) \/ SetCurrentPrice(s) \/ SetLive(s)
      <4>1. /\ \E step \in {"stock", "current", "status", "live"} :
                 /\ starting' = [starting EXCEPT ![s] = step]
                 /\ step = "stock" <=> starting[s] = "idle"
                 /\ starting[s] # "stock"
            /\ UNCHANGED <<faults, repeated, supplied>>
        BY <3>2 DEF SetInitialStock, SetBasePrice, SetCurrentPrice, SetLive
      <4> QED
        BY <4>1 DEF TypeOK
    <3>3. CASE StartFails(s)
      BY <3>3 DEF StartFails, TypeOK
    <3> QED
      BY <2>1, <3>1, <3>2, <3>3 DEF Start
  <2>2. ASSUME NEW r \in Requests, Book(r)
        PROVE  SupplyInv'
    BY <2>2 DEF Book, Gatekeeper, ReadPrice, Publish, ReceiveReply, BookingFails, historyVars,
                TypeOK
  <2>3. ASSUME NEW r \in Requests, Consume(r)
        PROVE  SupplyInv'
    <3>1. UNCHANGED <<faults, repeated, supplied, starting>>
      BY <2>3 DEF Consume, Deliver, ReadInitial, ReadBase, Lock, SetPrice, PublishOrder,
                  ReplySuccess, Ack, Refund, ReplyFailure, Drop, historyVars
    <3> QED
      BY <3>1
  <2>4. CASE GatewayCrash \/ ProductCrash \/ Resend \/ \E r \in Requests : RedisError(r)
    <3>1. faults' = faults + 1
      BY <2>4 DEF GatewayCrash, ProductCrash, RedisError, Requeue, Resend, StockAgain,
                  ScriptAgain, LockAgain, RefundAgain, AnswerLost
    <3> QED
      BY <3>1 DEF TypeOK
  <2>5. ASSUME NEW u \in Users, LockExpires(u)
        PROVE  SupplyInv'
    BY <2>5 DEF LockExpires
  <2>6. CASE UNCHANGED vars
    BY <2>6 DEF vars, historyVars
  <2> QED
    BY <2>1, <2>2, <2>3, <2>4, <2>5, <2>6 DEF Next
<1> QED
  BY <1>1, <1>2, TypeCorrect, PTL DEF Spec

-----------------------------------------------------------------------------
(* The answers.                                                            *)

\* Whatever ends a run has replied before.
RepliedInv ==
  \A r \in Requests : msg[r] \in {"ack", "nack", "acked", "dropped"} => reply[r] # "none"

LEMMA RepliedInvariant == Spec => []RepliedInv
<1>1. Init => RepliedInv
  BY DEF Init, RepliedInv
<1>2. TypeOK /\ RepliedInv /\ [Next]_vars => RepliedInv'
  <2> SUFFICES ASSUME TypeOK, RepliedInv, [Next]_vars
               PROVE  RepliedInv'
    OBVIOUS
  <2> USE DEF RepliedInv
  <2>1. ASSUME NEW s \in Sales, Start(s)
        PROVE  RepliedInv'
    BY <2>1 DEF Start, StartStep, SetInitialStock, SetStock, SetBasePrice, SetCurrentPrice,
                SetLive, StartFails, consumerVars
  <2>2. ASSUME NEW r \in Requests, Book(r)
        PROVE  RepliedInv'
    BY <2>2 DEF Book, Gatekeeper, ReadPrice, Publish, ReceiveReply, BookingFails,
                consumerVars, TypeOK
  <2>3. ASSUME NEW r \in Requests, Consume(r)
        PROVE  RepliedInv'
    BY <2>3 DEF Consume, Deliver, ReadInitial, ReadBase, Lock, SetPrice, PublishOrder,
                ReplySuccess, Ack, Refund, ReplyFailure, FirstReply, Drop, Goto, TypeOK
  <2>4. ASSUME NEW r \in Requests, RedisError(r)
        PROVE  RepliedInv'
    BY <2>4 DEF RedisError, Requeue, FirstReply, TypeOK
  <2>5. CASE GatewayCrash
    BY <2>5 DEF GatewayCrash, consumerVars
  <2>6. CASE ProductCrash
    BY <2>6 DEF ProductCrash, Requeue, TypeOK
  <2>7. ASSUME NEW u \in Users, LockExpires(u)
        PROVE  RepliedInv'
    BY <2>7 DEF LockExpires, consumerVars
  <2>8. CASE Resend
    BY <2>8, ResendKeeps
  <2>9. CASE UNCHANGED vars
    BY <2>9 DEF vars, consumerVars
  <2> QED
    BY <2>1, <2>2, <2>3, <2>4, <2>5, <2>6, <2>7, <2>8, <2>9 DEF Next
<1> QED
  BY <1>1, <1>2, TypeCorrect, PTL DEF Spec

\* publishToExchange waits without a timeout, and never for nothing: while a booking
\* waits and has no reply, its message is in the queue, or with a run that has not
\* come to its reply.
NobodyForgotten ==
  \A r \in Requests :
    booking[r] = "waiting" /\ reply[r] = "none" =>
      msg[r] \in {"queued", "reply", "refuse"} \cup BeforeEffect

\* Whatever fails, no booking waits for a reply that nobody will send: what is left to
\* BookingAnswered is that the runs go on.
THEOREM Unforgotten == Spec => []NobodyForgotten
<1>1. TypeOK /\ BookingInv /\ RepliedInv => NobodyForgotten
  BY DEF TypeOK, BookingInv, RepliedInv, NobodyForgotten, AfterEffect
<1> QED
  BY <1>1, TypeCorrect, BookingInvariant, RepliedInvariant, PTL
=============================================================================
