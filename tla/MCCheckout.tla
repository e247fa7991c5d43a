----------------------------- MODULE MCCheckout -----------------------------
(***************************************************************************)
(* Checkout on a small instance: two customers and three bookings for two  *)
(* units that the script gives away, while the sale is on.                 *)
(***************************************************************************)
EXTENDS Checkout, TLC

CONSTANTS ann, bob, r1, r2, r3, s1

MCUsers == {ann, bob}
MCRequests == {r1, r2, r3}
MCSales == {s1}
MCUserOf == [r \in Requests |-> IF r = r3 THEN bob ELSE ann]
MCInitialOf == [s \in Sales |-> 3]  \* the third unit is answered SOLD_OUT
MCBaseOf == [s \in Sales |-> 1000]
MCInitiates == {}
MCVerifies == {}
MCOrderOf == [c \in Initiates \cup Verifies |-> Nil]

\* The sale is on: startFlashSale has set every key.
MCInit ==
  /\ stock = InitialOf[s1]
  /\ initialStock = InitialOf[s1]
  /\ basePrice = BaseOf[s1]
  /\ currentPrice = BaseOf[s1] * 100
  /\ live = TRUE
  /\ lock = [u \in Users |-> Nil]
  /\ starting = [s \in Sales |-> "live"]
  /\ booking = [r \in Requests |-> "new"]
  /\ billed = [r \in Requests |-> Nil]
  /\ msg = [r \in Requests |-> "none"]
  /\ run = [r \in Requests |-> 0]
  /\ local = [r \in Requests |-> Sale!NoLocal]
  /\ reply = [r \in Requests |-> "none"]
  /\ published = {}
  /\ faults = 0
  /\ claimed = {}
  /\ early = {}
  /\ expired = {}
  /\ repeated = 0
  /\ supplied = InitialOf[s1]
  /\ discarded = 0
  /\ leaked = 0
  /\ Desk!Init

\* The bookings of one customer are interchangeable.
Symmetry == Permutations({r1, r2})

LiveSpec == MCInit /\ [][Next]_vars
=============================================================================
