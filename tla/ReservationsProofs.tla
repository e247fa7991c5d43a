------------------------- MODULE ReservationsProofs -------------------------
(***************************************************************************)
(* FlashSale implements Reservations, for every number of customers,       *)
(* requests, starts and faults.                                            *)
(***************************************************************************)
EXTENDS FlashSaleProofs

-----------------------------------------------------------------------------
(* The steps of the sale and what they are to the office.                  *)

Waiting == {s \in Sales : starting[s] \in {"idle", "stock"}}

\* startFlashSale puts its batch on sale, withdraws it, or does nothing yet.
LEMMA StartImplements ==
  ASSUME TypeOK, NEW s \in Sales, Start(s)
  PROVE  Office!Supply(s) \/ Office!Withdraw(s) \/ Office!Repeat({}) \/ UNCHANGED Office!vars
<1>0. UNCHANGED <<claimed, msg, published, expired>> /\ Unsettled' = Unsettled
  BY DEF Start, StartStep, SetInitialStock, SetStock, SetBasePrice, SetCurrentPrice, SetLive,
         StartFails, consumerVars, historyVars, Unsettled
<1>1. CASE SetStock(s)
  <2>1. Waiting' = Waiting \ {s} /\ s \in Waiting
    BY <1>1 DEF SetStock, StartStep, TypeOK, Waiting
  <2>2. Left(stock)' = InitialOf[s] /\ faults' = faults
    BY <1>1, SalesAssumption, NilAssumption DEF SetStock, PutOnSale, StartStep, Left
  <2> QED
    BY <1>0, <2>1, <2>2 DEF Office!Supply, Waiting
<1>2. CASE StartFails(s)
  <2>1. /\ stock' = stock /\ Waiting' = Waiting \ {s}
        /\ faults < MaxFaults /\ faults' = faults + 1
    BY <1>2 DEF StartFails, TypeOK, Waiting, redisVars
  <2>2. CASE s \in Waiting
    BY <1>0, <2>1, <2>2 DEF Office!Withdraw, Office!Mishap, Waiting, Left
  <2>3. CASE s \notin Waiting
    BY <1>0, <2>1, <2>3 DEF Office!Repeat, Office!Mishap, Waiting, Left
  <2> QED
    BY <2>2, <2>3
<1>3. CASE SetInitialStock(s) \/ SetBasePrice(s) \/ SetCurrentPrice(s) \/ SetLive(s)
  <2>1. stock' = stock /\ Waiting' = Waiting /\ faults' = faults
    BY <1>3 DEF SetInitialStock, SetBasePrice, SetCurrentPrice, SetLive, StartStep, TypeOK,
                Waiting
  <2> QED
    BY <1>0, <2>1 DEF Office!vars, Waiting, Left
<1> QED
  BY <1>1, <1>2, <1>3 DEF Start

\* The script takes a unit for a booking; no other step of bookTicket matters.
LEMMA BookImplements ==
  ASSUME TypeOK, BookingInv, NEW r \in Requests, Book(r)
  PROVE  Office!Take(r) \/ Office!Repeat({}) \/ UNCHANGED Office!vars
<1>0. UNCHANGED <<starting, published, expired>>
  BY DEF Book, Gatekeeper, ReadPrice, Publish, ReceiveReply, BookingFails, consumerVars,
         historyVars
<1>1. CASE Gatekeeper(r) /\ Claims(stock)
  <2>1. /\ stock # Nil /\ stock > 0 /\ stock' = stock - 1
        /\ claimed' = claimed \cup {r} /\ msg' = msg /\ faults' = faults
    BY <1>1 DEF Gatekeeper, GateStock, Claims, HasUnit, consumerVars
  <2>2. r \notin claimed /\ msg[r] = "none"
    BY <1>1 DEF Gatekeeper, BookingInv
  <2>3. Unsettled' = Unsettled \cup {r}
    BY <2>1, <2>2 DEF Unsettled
  <2>4. Left(stock) > 0 /\ Left(stock)' = Left(stock) - 1
    BY <2>1, NilAssumption DEF Left, TypeOK
  <2> QED
    BY <1>0, <2>1, <2>2, <2>3, <2>4 DEF Office!Take
<1>2. CASE ~(Gatekeeper(r) /\ Claims(stock))
  <2>1. UNCHANGED <<stock, claimed>>
    BY <1>2 DEF Book, Gatekeeper, GateStock, ReadPrice, Publish, ReceiveReply, BookingFails,
                redisVars, historyVars
  <2>2. \/ msg' = msg
        \/ msg[r] = "none" /\ msg' = [msg EXCEPT ![r] = "queued"]
    BY DEF Book, Gatekeeper, ReadPrice, Publish, ReceiveReply, BookingFails, consumerVars,
           BookingInv
  <2>3. Unsettled' = Unsettled
    BY <2>1, <2>2 DEF Unsettled, TypeOK
  <2>4. \/ faults' = faults
        \/ faults < MaxFaults /\ faults' = faults + 1
    <3>1. CASE BookingFails(r)
      BY <3>1 DEF BookingFails
    <3>2. CASE ~BookingFails(r)
      BY <3>2 DEF Book, Gatekeeper, ReadPrice, Publish, ReceiveReply, consumerVars
    <3> QED
      BY <3>1, <3>2
  <2> QED
    BY <1>0, <2>1, <2>3, <2>4 DEF Office!vars, Office!Repeat, Office!Mishap, Left
<1> QED
  BY <1>1, <1>2

\* A run of the consumer reserves the unit of its booking or gives it back.
LEMMA ConsumeImplements ==
  ASSUME TypeOK, BookingInv, FreshInv, LockInv, NEW r \in Requests, Consume(r)
  PROVE  Office!Reserve(r, run[r]) \/ Office!GiveBack(r) \/ UNCHANGED Office!vars
<1>0. UNCHANGED <<starting, claimed, expired, faults>>
  BY ConsumeMoves DEF Consume, Deliver, ReadInitial, ReadBase, Lock, SetPrice, PublishOrder,
                      ReplySuccess, Ack, Refund, ReplyFailure, Drop
<1>1. CASE PublishOrder(r)
  <2>1. /\ msg[r] = "order" /\ msg' = [msg EXCEPT ![r] = "reply"]
        /\ published' = published \cup {<<r, run[r]>>}
        /\ stock' = stock
    BY <1>1 DEF PublishOrder, Ordered, Goto, Token, redisVars
  <2>2. r \in Unsettled /\ Unsettled' = Unsettled \ {r}
    BY <2>1, <1>0 DEF BookingInv, Unsettled, BeforeEffect, TypeOK
  <2>3. <<r, run[r]>> \notin published
    BY <2>1 DEF FreshInv, TypeOK
  <2>4. \/ <<r, run[r]>> \in expired
        \/ \A t \in published : UserOf[t[1]] = UserOf[r] => t \in expired
    <3>1. <<r, run[r]>> \in expired \/ lock[UserOf[r]].token = <<r, run[r]>>
      BY <2>1 DEF LockInv, Holds, Token
    <3>2. \A t \in published : t \in expired \/ lock[UserOf[t[1]]].token = t
      BY DEF LockInv, Holds
    <3> QED
      BY <2>3, <3>1, <3>2
  <2> QED
    BY <1>0, <2>1, <2>2, <2>3, <2>4 DEF Office!Reserve, Left
<1>2. CASE Refund(r)
  <2>1. /\ msg[r] = "refund" /\ msg' = [msg EXCEPT ![r] = "refuse"]
        /\ stock' = Returned(stock)
        /\ published' = published
    BY <1>2 DEF Refund, Goto
  <2>2. r \in Unsettled /\ Unsettled' = Unsettled \ {r}
    BY <2>1, <1>0 DEF BookingInv, Unsettled, BeforeEffect, TypeOK
  <2>3. Left(stock)' = Left(stock) + 1
    BY <2>1, NilAssumption DEF Left, Returned, TypeOK
  <2> QED
    BY <1>0, <2>1, <2>2, <2>3 DEF Office!GiveBack
<1>3. CASE ~PublishOrder(r) /\ ~Refund(r)
  BY <1>0, <1>3, ConsumeKeepsAccounts DEF Office!vars, Left
<1> QED
  BY <1>1, <1>2, <1>3

\* A redelivery decides again the bookings whose runs had taken effect.
LEMMA RequeueImplements ==
  ASSUME TypeOK, BookingInv, NEW S \in SUBSET Requests, Requeue(S),
         \A r \in S : msg[r] \in {"queued"} \cup BeforeEffect \cup AfterEffect,
         faults < MaxFaults, UNCHANGED <<stock, starting, claimed, published, expired>>
  PROVE  \E T \in SUBSET (claimed \ Unsettled) : Office!Repeat(T)
<1> DEFINE again == {r \in S : msg[r] \in AfterEffect}
<1>1. \A r \in S : msg[r] # "none"
  BY DEF BeforeEffect, AfterEffect
<1>2. \A r \in Requests : msg'[r] = IF r \in S THEN "queued" ELSE msg[r]
  BY <1>1, RequeueMoves
<1>3. S \subseteq claimed
  BY <1>1 DEF BookingInv
<1>4. Unsettled' = Unsettled \cup again
  BY <1>2, <1>3 DEF TypeOK, Unsettled
<1>5. again \in SUBSET (claimed \ Unsettled)
  BY <1>3 DEF Unsettled, BeforeEffect, AfterEffect
<1>6. Office!Mishap
  BY DEF Office!Mishap, Requeue
<1> QED
  BY <1>4, <1>5, <1>6 DEF Office!Repeat, Left

\* A command whose answer is lost supplies, loses or gives back a unit, or does
\* nothing that the office sees.
LEMMA ResendImplements ==
  ASSUME TypeOK, BookingInv, Resend
  PROVE  \/ \E s \in Sales : Office!SupplyToo(s)
         \/ \E r \in Requests : Office!GiveBackToo(r)
         \/ Office!Lose
         \/ Office!Repeat({})
<1>0. /\ UNCHANGED <<starting, claimed, msg, published, expired>> /\ Unsettled' = Unsettled
      /\ Office!Mishap
  BY ResendKeeps DEF Unsettled, Office!Mishap
<1>1. ASSUME NEW s \in Sales, StockAgain(s)
      PROVE  Office!SupplyToo(s)
  <2>1. Left(stock)' = InitialOf[s] /\ s \in Waiting /\ Waiting' = Waiting
    BY <1>0, <1>1, SalesAssumption, NilAssumption DEF StockAgain, PutOnSale, Left, Waiting
  <2> QED
    BY <1>0, <2>1 DEF Office!SupplyToo, Waiting
<1>2. ASSUME NEW r \in Requests, ScriptAgain(r)
      PROVE  Office!Lose
  <2>1. stock # Nil /\ stock > 0 /\ stock' = stock - 1
    BY <1>2 DEF ScriptAgain, GateStock, Claims, HasUnit
  <2>2. Left(stock) > 0 /\ Left(stock)' = Left(stock) - 1
    BY <2>1, NilAssumption DEF Left, TypeOK
  <2> QED
    BY <1>0, <2>2 DEF Office!Lose
<1>3. ASSUME NEW r \in Requests, LockAgain(r)
      PROVE  Office!Repeat({})
  <2>1. stock' = stock
    BY <1>3 DEF LockAgain
  <2> QED
    BY <1>0, <2>1 DEF Office!Repeat, Left
<1>4. ASSUME NEW r \in Requests, RefundAgain(r)
      PROVE  Office!GiveBackToo(r)
  <2>1. msg[r] = "refund" /\ stock' = Returned(stock)
    BY <1>4 DEF RefundAgain
  <2>2. r \in Unsettled /\ Left(stock)' = Left(stock) + 1
    BY <2>1, NilAssumption DEF BookingInv, Unsettled, BeforeEffect, Left, Returned, TypeOK
  <2> QED
    BY <1>0, <2>2 DEF Office!GiveBackToo
<1> QED
  BY <1>1, <1>2, <1>3, <1>4 DEF Resend

\* The sale is a reservation office: each unit it takes for a booking is
\* reserved once or given back once, no customer gets a second reservation while
\* one holds, and no fault does more harm than one mishap.
THEOREM SaleIsOffice == Spec => ImplementsReservations
<1>1. Init => Office!Init
  BY DEF Init, Office!Init, Unsettled, Left
<1>e. {} \in SUBSET (claimed \ Unsettled)
  OBVIOUS
<1>2. TypeOK /\ BookingInv /\ FreshInv /\ LockInv /\ RunInv /\ [Next]_vars
      => [Office!Next]_(Office!vars)
  <2> SUFFICES ASSUME TypeOK, BookingInv, FreshInv, LockInv, RunInv, [Next]_vars
               PROVE  Office!Next \/ UNCHANGED Office!vars
    OBVIOUS
  <2>1. ASSUME NEW s \in Sales, Start(s)
        PROVE  Office!Next \/ UNCHANGED Office!vars
    BY <2>1, <1>e, StartImplements DEF Office!Next
  <2>2. ASSUME NEW r \in Requests, Book(r)
        PROVE  Office!Next \/ UNCHANGED Office!vars
    BY <2>2, <1>e, BookImplements DEF Office!Next
  <2>3. ASSUME NEW r \in Requests, Consume(r)
        PROVE  Office!Next \/ UNCHANGED Office!vars
    <3>1. run[r] \in Office!Names
      BY FaultsAssumption DEF RunInv, TypeOK, Office!Names
    <3> QED
      BY <2>3, <3>1, ConsumeImplements DEF Office!Next
  <2>4. ASSUME NEW r \in Requests, RedisError(r)
        PROVE  Office!Next \/ UNCHANGED Office!vars
    <3>1. /\ Requeue({r}) /\ faults < MaxFaults
          /\ UNCHANGED <<stock, starting, claimed, published, expired>>
          /\ msg[r] \in {"queued"} \cup BeforeEffect \cup AfterEffect
      BY <2>4 DEF RedisError, redisVars, BeforeEffect
    <3> QED
      BY <3>1, RequeueImplements DEF Office!Next
  <2>5. CASE GatewayCrash
    <3>1. /\ UNCHANGED <<stock, starting, claimed, msg, published, expired>>
          /\ faults < MaxFaults /\ faults' = faults + 1
      BY <2>5 DEF GatewayCrash, redisVars, consumerVars, historyVars
    <3>2. Office!Repeat({})
      BY <3>1 DEF Office!Repeat, Office!Mishap, Unsettled, Left
    <3> QED
      BY <3>2, <1>e DEF Office!Next
  <2>6. CASE ProductCrash
    <3>1. /\ Requeue(Unacked) /\ Unacked \in SUBSET Requests /\ faults < MaxFaults
          /\ UNCHANGED <<stock, starting, claimed, published, expired>>
          /\ \A r \in Unacked : msg[r] \in {"queued"} \cup BeforeEffect \cup AfterEffect
      BY <2>6 DEF ProductCrash, Unacked, redisVars
    <3> QED
      BY <3>1, RequeueImplements DEF Office!Next
  <2>7. ASSUME NEW u \in Users, LockExpires(u)
        PROVE  Office!Next \/ UNCHANGED Office!vars
    <3>1. /\ expired' = expired \cup {lock[u].token} /\ lock[u] # Nil
          /\ UNCHANGED <<stock, starting, claimed, msg, published, faults>>
      BY <2>7 DEF LockExpires, consumerVars
    <3>2. lock[u].token \in Requests \X Office!Names
      BY <3>1, FaultsAssumption DEF TypeOK, LockValues, Tokens, RunInv, Office!Names
    <3>3. Office!End(lock[u].token)
      BY <3>1 DEF Office!End, Unsettled, Left
    <3> QED
      BY <3>2, <3>3 DEF Office!Next
  <2>9. CASE Resend
    BY <2>9, <1>e, ResendImplements DEF Office!Next
  <2>8. CASE UNCHANGED vars
    <3>1. UNCHANGED <<stock, starting, claimed, msg, published, expired, faults>>
      BY <2>8 DEF vars, redisVars, consumerVars, historyVars
    <3> QED
      BY <3>1 DEF Office!vars, Unsettled, Left
  <2> QED
    BY <2>1, <2>2, <2>3, <2>4, <2>5, <2>6, <2>7, <2>8, <2>9 DEF Next
<1> QED
  BY <1>1, <1>2, TypeCorrect, BookingInvariant, FreshInvariant, LockInvariant, RunInvariant,
     PTL DEF Spec, ImplementsReservations, Office!Spec
=============================================================================
