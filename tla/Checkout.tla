------------------------------ MODULE Checkout ------------------------------
(***************************************************************************)
(* The way of a customer from a booking to a paid order: FlashSale and     *)
(* OrderSettlement joined where the product service publishes to           *)
(* order_exchange.  The reservation token of the message is the order's    *)
(* unique reservationId, so the orders are named by the tokens.            *)
(*                                                                         *)
(* The services share no step but that one: a crash of one is no crash of  *)
(* the other, and each has faults of its own.                              *)
(***************************************************************************)
EXTENDS Integers, FiniteSets

CONSTANTS
  Users, Requests, Sales, UserOf, InitialOf, BaseOf,  \* as in FlashSale
  Initiates, Verifies, OrderOf,                       \* as in OrderSettlement
  Nil,
  MaxFaults,    \* how many errors and crashes the sale may have
  MaxFailures   \* and how many the settlement of the orders

VARIABLES
  \* of FlashSale
  stock, initialStock, basePrice, currentPrice, live, lock, starting, booking, billed,
  msg, run, local, reply, published, faults, claimed, early, expired, repeated, supplied,
  discarded, leaked,
  \* of OrderSettlement
  message, order, post, pay, intent, initiate, got, verify, key, event, seen, failures,
  charged, bounced

\* The reservation tokens: a run has at most as many runs before it as there
\* were faults.
Slots == Requests \X (0..MaxFaults)

\* Both parts, with the theorems about them.
Sale == INSTANCE FlashSaleProofs
Desk == INSTANCE OrderSettlementProofs WITH
  Orders <- Slots, MaxFaults <- MaxFailures, faults <- failures

ASSUME SaleAssumption ==
  /\ IsFiniteSet(Requests) /\ UserOf \in [Requests -> Users]
  /\ InitialOf \in [Sales -> Nat \ {0}]
  /\ BaseOf \in [Sales -> Nat]
  /\ MaxFaults \in Nat
  /\ Nil \notin Int /\ Nil \notin Sale!LockValues

ASSUME DeskAssumption ==
  /\ OrderOf \in [Initiates \cup Verifies -> Slots]
  /\ MaxFailures \in Nat
  /\ Nil \notin Initiates \cup {"PENDING_PAYMENT", "PAID", "CANCELLED", "PENDING",
                                "SUCCEEDED", "FAILED", "succeeded", "failed"}

saleVars == <<stock, initialStock, basePrice, currentPrice, live, lock, starting, booking,
              billed, msg, run, local, reply, published, faults, claimed, early, expired,
              repeated, supplied, discarded, leaked>>
deskVars == <<message, order, post, pay, intent, initiate, got, verify, key, event, seen,
              failures, charged, bounced>>
vars == <<saleVars, deskVars>>

Init == Sale!Init /\ Desk!Init

\* A step of the sale that publishes no order.
Sell == Sale!Next /\ published' = published /\ UNCHANGED deskVars

\* The order goes through order_exchange to the queue of the order service.
PlaceOrder(r) == Sale!PublishOrder(r) /\ Desk!Arrive(Sale!Token(r))

\* Clients may have payment records created for orders.  Those for other ids meet
\* nothing else, and are left to OrderSettlement.
Settle ==
  /\ Desk!Work \/ \E t \in Slots : order[t] # Nil /\ Desk!CreateDirectly(t)
  /\ UNCHANGED saleVars

Next == Sell \/ (\E r \in Requests : PlaceOrder(r)) \/ Settle

Spec == Init /\ [][Next]_vars

-----------------------------------------------------------------------------
(* Properties.                                                             *)

\* The orders that are stored.
Placed == {t \in Slots : order[t] # Nil}

\* The sale is never oversold, from the script to the last order: the orders and
\* the units still in stock are at most the units that were put on sale, but for
\* what took effect again.
NeverOversold ==
  Sale!Left(stock) + Cardinality(Placed) + discarded + leaked <= supplied + repeated

\* A customer has a second order, and can pay for both, only if the lock of one
\* reservation has expired: neither initiate nor verify looks at that.
OneOpenOrder ==
  \A t, u \in Placed :
    UserOf[t[1]] = UserOf[u[1]] /\ t # u => t \in expired \/ u \in expired

\* No message is under way at either service, and no payment record.
AtRest ==
  /\ \A r \in Requests : msg[r] \in {"none", "acked", "dropped"}
  /\ \A t \in Slots : message[t] \in {"none", "acked"} /\ post[t] \in {"none", "done"}

\* Whatever the reply said, a customer who was told that her order is being
\* processed has an order to pay when the services are at rest, by this booking
\* or by another one of hers; without a fault.
WaitingHasOrder ==
  faults = 0 /\ failures = 0 /\ AtRest =>
    \A r \in Requests :
      booking[r] = "IN_WAITING_ROOM" =>
        \E t \in Placed : UserOf[t[1]] = UserOf[r] /\ pay[t] # Nil
=============================================================================
