--------------------------- MODULE CheckoutProofs ---------------------------
(***************************************************************************)
(* What Checkout promises for every number of customers, requests, calls   *)
(* and faults, proved with TLAPS.  Each part behaves as its own module     *)
(* says, so that what is proved there holds here; one more invariant ties  *)
(* the orders to the reservations.                                         *)
(***************************************************************************)
EXTENDS Checkout, FiniteSetTheorems, TLAPS

\* The instance has its own names for two operators of FiniteSets.
LEMMA SameFinite ==
  ASSUME NEW S
  PROVE  Sale!IsFiniteSet(S) <=> IsFiniteSet(S)
  BY Zenon DEF Sale!IsFiniteSet, IsFiniteSet

LEMMA SameCardinality ==
  ASSUME NEW S
  PROVE  Sale!Cardinality(S) = Cardinality(S)
  BY Zenon DEF Sale!Cardinality, Cardinality

-----------------------------------------------------------------------------
(* The parts.                                                              *)

\* The sale goes its way whatever the orders do.
THEOREM SaleIsUndisturbed == Spec => Sale!Spec
<1>1. Init => Sale!Init
  BY DEF Init
<1>2. [Next]_vars => [Sale!Next]_(Sale!vars)
  <2>1. CASE Sell
    BY <2>1 DEF Sell
  <2>2. ASSUME NEW r \in Requests, PlaceOrder(r)
        PROVE  Sale!Next
    BY <2>2 DEF PlaceOrder, Sale!Next, Sale!Consume
  <2>3. CASE Settle \/ UNCHANGED vars
    BY <2>3 DEF Settle, vars, saleVars, Sale!vars, Sale!redisVars, Sale!gatewayVars,
                Sale!consumerVars, Sale!historyVars
  <2> QED
    BY <2>1, <2>2, <2>3 DEF Next
<1> QED
  BY <1>1, <1>2, PTL DEF Spec, Sale!Spec

\* So everything that is proved of the sale holds.
SaleInv ==
  /\ Sale!TypeOK /\ Sale!BookingInv /\ Sale!FreshInv /\ Sale!RunInv /\ Sale!SuccessInv
  /\ Sale!StockLedger /\ Sale!OneReservationPerUser /\ Sale!RefusedForAnother
  /\ Sale!SupplyInv

LEMMA SaleInvariant == Spec => []SaleInv
<1>1. /\ Sale!Spec => []Sale!TypeOK
      /\ Sale!Spec => []Sale!BookingInv
      /\ Sale!Spec => []Sale!FreshInv
      /\ Sale!Spec => []Sale!RunInv
  BY SaleAssumption, SameFinite, Sale!TypeCorrect, Sale!BookingInvariant,
     Sale!FreshInvariant, Sale!RunInvariant
<1>2. /\ Sale!Spec => []Sale!SuccessInv
      /\ Sale!Spec => []Sale!StockLedger
      /\ Sale!Spec => []Sale!OneReservationPerUser
      /\ Sale!Spec => []Sale!RefusedForAnother
      /\ Sale!Spec => []Sale!SupplyInv
  BY SaleAssumption, SameFinite, Sale!SuccessInvariant, Sale!Ledger, Sale!OneReservation,
     Sale!Refusals, Sale!SupplyInvariant
<1> QED
  BY <1>1, <1>2, SaleIsUndisturbed, PTL DEF SaleInv

\* The tokens are those of the orders.
LEMMA TokenIsSlot ==
  ASSUME SaleInv
  PROVE  /\ \A r \in Requests : Sale!Token(r) \in Slots
         /\ \A t \in published : t \in Requests \X Nat
<1>1. /\ run \in [Requests -> Nat] /\ faults \in 0..MaxFaults
      /\ published \subseteq Requests \X Nat
  BY DEF SaleInv, Sale!TypeOK, Sale!Tokens
<1>2. \A r \in Requests : run[r] <= faults
  BY DEF SaleInv, Sale!RunInv
<1> QED
  BY <1>1, <1>2, SaleAssumption DEF Sale!Token, Slots

\* The settlement is that of orders that arrive in any order and at any time.
THEOREM DeskIsUndisturbed == Spec => Desk!Spec
<1>1. Init => Desk!Init
  BY DEF Init
<1>2. SaleInv /\ [Next]_vars => [Desk!Next]_(Desk!vars)
  <2> SUFFICES ASSUME SaleInv, [Next]_vars
               PROVE  Desk!Next \/ UNCHANGED Desk!vars
    OBVIOUS
  <2>1. CASE Sell \/ UNCHANGED vars
    BY <2>1 DEF Sell, vars, deskVars, Desk!vars, Desk!orderVars, Desk!paymentVars,
                Desk!eventVars
  <2>2. ASSUME NEW r \in Requests, PlaceOrder(r)
        PROVE  Desk!Next
    BY <2>2, TokenIsSlot DEF PlaceOrder, Desk!Next
  <2>3. CASE Settle
    BY <2>3 DEF Settle, Desk!Next
  <2> QED
    BY <2>1, <2>2, <2>3 DEF Next
<1> QED
  BY <1>1, <1>2, SaleInvariant, PTL DEF Spec, Desk!Spec

DeskInv == Desk!IInv /\ Desk!OrderFirst /\ Desk!PostInv

LEMMA DeskInvariant == Spec => []DeskInv
<1>1. /\ Desk!Spec => []Desk!IInv
      /\ Desk!Spec => []Desk!OrderFirst
      /\ Desk!Spec => []Desk!PostInv
  BY DeskAssumption, Desk!Invariant, Desk!OrderFirstInvariant, Desk!PostInvariant
<1> QED
  BY <1>1, DeskIsUndisturbed, PTL DEF DeskInv

-----------------------------------------------------------------------------
(* What ties them.                                                         *)

\* An order message exists for the reservations that were published, and for
\* nothing else.
Link ==
  /\ published \subseteq Slots
  /\ \A t \in Slots : message[t] # "none" <=> t \in published

LEMMA LinkInvariant == Spec => []Link
<1>1. Init => Link
  BY DEF Init, Link, Sale!Init, Desk!Init
<1>2. SaleInv /\ DeskInv /\ Link /\ [Next]_vars => Link'
  <2> SUFFICES ASSUME SaleInv, DeskInv, Link, [Next]_vars
               PROVE  Link'
    OBVIOUS
  <2> USE DEF Link
  <2>1. CASE Sell \/ UNCHANGED vars
    BY <2>1 DEF Sell, vars, saleVars, deskVars
  <2>2. ASSUME NEW r \in Requests, PlaceOrder(r)
        PROVE  Link'
    <3>1. /\ published' = published \cup {Sale!Token(r)}
          /\ message' = [message EXCEPT ![Sale!Token(r)] = "queued"]
      BY <2>2 DEF PlaceOrder, Sale!PublishOrder, Sale!Ordered, Desk!Arrive
    <3>2. Sale!Token(r) \in Slots
      BY TokenIsSlot
    <3>3. DOMAIN message = Slots
      BY DEF DeskInv, Desk!IInv, Desk!TypeOK
    <3> QED
      BY <3>1, <3>2, <3>3
  <2>3. CASE Settle
    <3>1. /\ published' = published /\ Desk!TypeOK
          /\ Desk!Work \/ \E t \in Slots : Desk!CreateDirectly(t)
      BY <2>3 DEF Settle, saleVars, DeskInv, Desk!IInv
    <3>2. \A t \in Slots : message'[t] # "none" <=> message[t] # "none"
      BY <3>1, DeskAssumption, Desk!WorkKeepsMessages
    <3> QED
      BY <3>1, <3>2
  <2> QED
    BY <2>1, <2>2, <2>3 DEF Next
<1> QED
  BY <1>1, <1>2, SaleInvariant, DeskInvariant, PTL DEF Spec

LEMMA PlacedIsPublished ==
  ASSUME DeskInv, Link
  PROVE  Placed \subseteq published
  BY DEF DeskInv, Desk!OrderFirst, Link, Placed

-----------------------------------------------------------------------------

\* The orders never outnumber the units that were sold, whatever fails at which
\* service and however many sales are started.
THEOREM SaleIsNotOversold == Spec => []NeverOversold
<1>1. SaleInv /\ DeskInv /\ Link => NeverOversold
  <2> SUFFICES ASSUME SaleInv, DeskInv, Link
               PROVE  NeverOversold
    OBVIOUS
  <2>1. IsFiniteSet(published)
    BY SameFinite DEF SaleInv, Sale!FreshInv
  <2>2. /\ Cardinality(Placed) \in Nat /\ Cardinality(published) \in Nat
        /\ Cardinality(Placed) <= Cardinality(published)
    BY <2>1, PlacedIsPublished, FS_Subset, FS_CardinalityType
  <2>3. Cardinality(Sale!Unsettled) \in Nat
    <3>1. Sale!Unsettled \subseteq Requests
      BY DEF Sale!Unsettled, SaleInv, Sale!TypeOK
    <3> QED
      BY <3>1, SaleAssumption, FS_Subset, FS_CardinalityType
  <2>4. Sale!Left(stock) + Cardinality(published) + Cardinality(Sale!Unsettled) + discarded
          + leaked = supplied + repeated
    BY SameCardinality DEF SaleInv, Sale!StockLedger
  <2>5. /\ Sale!Left(stock) \in Nat /\ discarded \in Nat /\ leaked \in Nat
        /\ supplied \in Nat /\ repeated \in Nat
    BY DEF SaleInv, Sale!TypeOK, Sale!Left
  <2> QED
    BY <2>2, <2>3, <2>4, <2>5 DEF NeverOversold
<1> QED
  BY <1>1, SaleInvariant, DeskInvariant, LinkInvariant, PTL

\* A sale that is started once, and meets no fault, has no more orders and units in
\* stock than it was started with, whatever fails at the order and payment services.
SoldWithinStock ==
  faults = 0 /\ Sale!OneStart =>
    \A s \in Sales : Sale!Left(stock) + Cardinality(Placed) <= InitialOf[s]

\* The script, the pricing engine and the unique reservationId together keep a sale
\* within the stock that the administrator gave it.
THEOREM OrdersWithinStock == Spec => []SoldWithinStock
<1>1. SaleInv /\ DeskInv /\ Link /\ NeverOversold => SoldWithinStock
  <2> SUFFICES ASSUME SaleInv, DeskInv, Link, NeverOversold, faults = 0, Sale!OneStart,
                      NEW s \in Sales
               PROVE  Sale!Left(stock) + Cardinality(Placed) <= InitialOf[s]
    BY DEF SoldWithinStock
  <2>1. repeated = 0 /\ supplied \in {0, InitialOf[s]}
    BY DEF SaleInv, Sale!SupplyInv
  <2>2. InitialOf[s] \in Nat
    BY SaleAssumption
  <2>3. /\ Sale!Left(stock) \in Nat /\ discarded \in Nat /\ leaked \in Nat
        /\ supplied \in Nat
    BY DEF SaleInv, Sale!TypeOK, Sale!Left
  <2>4. Cardinality(Placed) \in Nat
    <3>1. IsFiniteSet(published)
      BY SameFinite DEF SaleInv, Sale!FreshInv
    <3> QED
      BY <3>1, PlacedIsPublished, FS_Subset, FS_CardinalityType
  <2> QED
    BY <2>1, <2>2, <2>3, <2>4 DEF NeverOversold
<1> QED
  BY <1>1, SaleInvariant, DeskInvariant, LinkInvariant, SaleIsNotOversold, PTL

\* No customer has two orders of reservations that hold.
THEOREM OrdersOfOneReservation == Spec => []OneOpenOrder
<1>1. SaleInv /\ DeskInv /\ Link => OneOpenOrder
  BY PlacedIsPublished DEF SaleInv, Sale!OneReservationPerUser, OneOpenOrder
<1> QED
  BY <1>1, SaleInvariant, DeskInvariant, LinkInvariant, PTL

\* An order that is PAID stands for a reservation that was published, of a booking that
\* got a unit from the script, and for a payment that was stored as SUCCEEDED.
PaidIsBooked ==
  \A t \in Slots :
    order[t] = "PAID" => t \in published /\ t[1] \in claimed /\ t \in charged

\* Across the four services, and whatever fails at any of them, nothing is paid for
\* that was not sold, and nothing is PAID that was not charged.
THEOREM PaidWasBooked == Spec => []PaidIsBooked
<1>1. SaleInv /\ DeskInv /\ Link => PaidIsBooked
  <2> SUFFICES ASSUME SaleInv, DeskInv, Link, NEW t \in Slots, order[t] = "PAID"
               PROVE  t \in published /\ t[1] \in claimed /\ t \in charged
    BY DEF PaidIsBooked
  <2>1. t \in Placed
    BY DeskAssumption DEF Placed
  <2>2. t \in published
    BY <2>1, PlacedIsPublished
  <2>3. t[1] \in claimed
    BY <2>2 DEF SaleInv, Sale!FreshInv
  <2>4. t \in charged
    BY DEF DeskInv, Desk!IInv, Desk!PaidWasCharged
  <2> QED
    BY <2>2, <2>3, <2>4
<1> QED
  BY <1>1, SaleInvariant, DeskInvariant, LinkInvariant, PTL

\* Without a fault no customer waits for an order that never comes.
THEOREM WaitingIsServed == Spec => []WaitingHasOrder
<1>1. SaleInv /\ DeskInv /\ Link => WaitingHasOrder
  <2> SUFFICES ASSUME SaleInv, DeskInv, Link, faults = 0, failures = 0, AtRest,
                      NEW r \in Requests, booking[r] = "IN_WAITING_ROOM"
               PROVE  \E t \in Placed : UserOf[t[1]] = UserOf[r] /\ pay[t] # Nil
    BY DEF WaitingHasOrder
  <2>1. PICK q \in Requests : UserOf[q] = UserOf[r] /\ msg[q] = "acked"
    <3>1. msg[r] \in {"acked", "dropped"}
      BY DEF SaleInv, Sale!BookingInv, AtRest
    <3>2. CASE msg[r] = "acked"
      BY <3>2
    <3>3. CASE msg[r] = "dropped"
      BY <3>3 DEF SaleInv, Sale!RefusedForAnother, AtRest
    <3> QED
      BY <3>1, <3>2, <3>3
  <2>2. PICK t \in published : t[1] = q
    BY <2>1 DEF SaleInv, Sale!SuccessInv, Sale!PublishedFor
  <2>3. t \in Slots /\ message[t] = "acked" /\ post[t] \in {"none", "done"}
    BY DEF Link, AtRest
  <2>4. post[t] = "done" /\ pay[t] # Nil
    BY <2>3 DEF DeskInv, Desk!PostInv
  <2>5. t \in Placed
    BY <2>3, <2>4 DEF DeskInv, Desk!IInv, Desk!RowFirst, Placed
  <2> QED
    BY <2>1, <2>2, <2>4, <2>5
<1> QED
  BY <1>1, SaleInvariant, DeskInvariant, LinkInvariant, PTL
=============================================================================
