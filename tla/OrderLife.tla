------------------------------ MODULE OrderLife ------------------------------
(***************************************************************************)
(* What the order service and the payment service promise together,        *)
(* without messages, requests and intents: an order is placed, then its    *)
(* payment is recorded, and calls decide about it.  A call has one verdict *)
(* and goes one way with it: the payment first, the order after.  Payments *)
(* may be recorded that are no order's, and nothing ever comes of those.   *)
(*                                                                         *)
(* The order is not looked at in the moment it is written: a verdict is    *)
(* taken up while the order is open to it, and may be carried out when it  *)
(* is no longer.  That is the one race of the two services.                *)
(*                                                                         *)
(* A mishap is the one way to a failure, the one way to lose a verdict and *)
(* the one way to take one up twice.  Their number is bounded.             *)
(***************************************************************************)
EXTENDS Naturals

CONSTANTS
  Orders,      \* the ids of orders
  Calls,       \* the calls that decide about a payment
  OrderOf,     \* the order that a call is about
  Nil,         \* no order, or no payment
  MaxMishaps   \* how many mishaps there may be

VARIABLES
  order,     \* the status of an order
  payment,   \* the status of its payment
  stage,     \* how far a call and its verdict are
  good,      \* the calls under way whose verdict is a success
  mishaps    \* the mishaps so far

vars == <<order, payment, stage, good, mishaps>>

Init ==
  /\ order = [o \in Orders |-> Nil]
  /\ payment = [o \in Orders |-> Nil]
  /\ stage = [c \in Calls |-> "open"]
  /\ good = {}
  /\ mishaps = 0

Mishap == mishaps < MaxMishaps /\ mishaps' = mishaps + 1

\* The service that takes a step may be told that it failed.
PerhapsMishap == Mishap \/ UNCHANGED mishaps

-----------------------------------------------------------------------------
(* An order and its payment.                                               *)

Place(o) ==
  /\ order[o] = Nil
  /\ payment[o] = Nil
  /\ order' = [order EXCEPT ![o] = "PENDING_PAYMENT"]
  /\ PerhapsMishap
  /\ UNCHANGED <<payment, stage, good>>

Bill(o) ==
  /\ payment[o] = Nil
  /\ payment' = [payment EXCEPT ![o] = "PENDING"]
  /\ UNCHANGED <<order, stage, good, mishaps>>

-----------------------------------------------------------------------------
(* A call decides.                                                         *)

Advance(c, from, to) == stage[c] = from /\ stage' = [stage EXCEPT ![c] = to]

\* Nothing comes of the calls in S any more.
End(S) ==
  /\ stage' = [c \in Calls |-> IF c \in S THEN "over" ELSE stage[c]]
  /\ good' = good \ S

Decline(c) ==
  /\ stage[c] = "open"
  /\ End({c})
  /\ UNCHANGED <<order, payment, mishaps>>

\* What a verdict is about.
Payable(o) == order[o] # Nil /\ payment[o] # Nil

Charge(o) == payment' = [payment EXCEPT ![o] = "SUCCEEDED"]

Succeed(c) ==
  /\ Payable(OrderOf[c])
  /\ Advance(c, "open", "due")
  /\ Charge(OrderOf[c])
  /\ good' = good \cup {c}
  /\ UNCHANGED <<order, mishaps>>

\* The charge fails, or is said to.
Fail(c) ==
  /\ Mishap
  /\ Payable(OrderOf[c])
  /\ Advance(c, "open", "failing")
  /\ Charge(OrderOf[c]) \/ UNCHANGED payment
  /\ UNCHANGED <<order, good>>

Refuse(c) ==
  /\ Advance(c, "failing", "due")
  /\ payment' = [payment EXCEPT ![OrderOf[c]] = "FAILED"]
  /\ UNCHANGED <<order, good, mishaps>>

-----------------------------------------------------------------------------
(* The verdict reaches the order.                                          *)

\* A success finds any order open that is not PAID, a failure only one that has no
\* outcome yet.
OpenTo(c) ==
  order[OrderOf[c]] \in
    IF c \in good THEN {"PENDING_PAYMENT", "CANCELLED"} ELSE {"PENDING_PAYMENT"}

TakeUp(c) ==
  /\ OpenTo(c)
  /\ Advance(c, "due", "acting")
  /\ UNCHANGED <<order, payment, good, mishaps>>

Skip(c) ==
  /\ order[OrderOf[c]] # Nil
  /\ ~OpenTo(c)
  /\ Advance(c, "due", "done")
  /\ UNCHANGED <<order, payment, good, mishaps>>

\* The order is not looked at again.
CarryOut(c) ==
  /\ stage[c] = "acting"
  /\ order' = [order EXCEPT ![OrderOf[c]] = IF c \in good THEN "PAID" ELSE "CANCELLED"]
  /\ \/ Advance(c, "acting", "done") /\ UNCHANGED <<good, mishaps>>
     \/ Mishap /\ End({c})
  /\ UNCHANGED payment

Close(c) ==
  /\ stage[c] = "done"
  /\ End({c})
  /\ UNCHANGED <<order, payment, mishaps>>

-----------------------------------------------------------------------------
(* The mishaps that change no status.                                      *)

\* Calls that were not carried out end, or nothing does.
Lose(S) ==
  /\ Mishap
  /\ \A c \in S : stage[c] \notin {"done", "over"}
  /\ End(S)
  /\ UNCHANGED <<order, payment>>

\* Whatever was taken up or carried out, and not closed, is due again.
Again ==
  /\ Mishap
  /\ stage' = [c \in Calls |-> IF stage[c] \in {"acting", "done"} THEN "due" ELSE stage[c]]
  /\ UNCHANGED <<order, payment, good>>

Next ==
  \/ \E o \in Orders : Place(o) \/ Bill(o)
  \/ \E c \in Calls : Decline(c) \/ Succeed(c) \/ Fail(c) \/ Refuse(c)
  \/ \E c \in Calls : TakeUp(c) \/ Skip(c) \/ CarryOut(c) \/ Close(c)
  \/ \E S \in SUBSET Calls : Lose(S)
  \/ Again

Spec == Init /\ [][Next]_vars
=============================================================================
