---------------------------- MODULE Reservations ----------------------------
(***************************************************************************)
(* What a flash sale promises, without Redis, queues and prices: an office *)
(* that puts batches of units on sale, takes a unit for a booking, and     *)
(* then either reserves it for the customer or gives it back, once.  A     *)
(* customer never has two reservations that have not ended.                *)
(*                                                                         *)
(* A mishap is the one way out of that: bookings that were decided are     *)
(* decided again, a unit is lost or one too many given back, a batch is    *)
(* put on sale again or withdrawn.  Their number is bounded.               *)
(***************************************************************************)
EXTENDS Naturals

CONSTANTS
  Bookings,     \* the requests for a unit
  CustomerOf,   \* the customer of a booking
  Batches,      \* the calls that put units on sale
  SizeOf,       \* how many units a batch has
  MaxMishaps    \* how many mishaps there may be

VARIABLES
  batches,       \* the batches that may still be put on sale
  units,         \* the units on sale
  holders,       \* the bookings for which a unit was taken
  undecided,     \* those whose unit is neither reserved nor given back
  reservations,  \* the reservations that were made
  ended,         \* the reservations whose time is over
  mishaps        \* the mishaps so far

vars == <<batches, units, holders, undecided, reservations, ended, mishaps>>

\* What tells the reservations of one booking apart: how often it was decided
\* again before.
Names == 0..MaxMishaps

Init ==
  /\ batches \subseteq Batches
  /\ units \in Nat
  /\ holders = {}
  /\ undecided = {}
  /\ reservations = {}
  /\ ended = {}
  /\ mishaps = 0

-----------------------------------------------------------------------------
(* The trade.                                                              *)

\* A batch replaces the units that are left.
Supply(b) ==
  /\ b \in batches
  /\ batches' = batches \ {b}
  /\ units' = SizeOf[b]
  /\ UNCHANGED <<holders, undecided, reservations, ended, mishaps>>

\* A booking gets a unit while there is one, and once.
Take(k) ==
  /\ units > 0
  /\ k \notin holders
  /\ units' = units - 1
  /\ holders' = holders \cup {k}
  /\ undecided' = undecided \cup {k}
  /\ UNCHANGED <<batches, reservations, ended, mishaps>>

\* The unit is reserved.  The customer has no other reservation that still
\* holds, unless the time of this one is over before it is made.
Reserve(k, name) ==
  /\ k \in undecided
  /\ <<k, name>> \notin reservations
  /\ \/ <<k, name>> \in ended
     \/ \A t \in reservations : CustomerOf[t[1]] = CustomerOf[k] => t \in ended
  /\ reservations' = reservations \cup {<<k, name>>}
  /\ undecided' = undecided \ {k}
  /\ UNCHANGED <<batches, units, holders, ended, mishaps>>

GiveBack(k) ==
  /\ k \in undecided
  /\ units' = units + 1
  /\ undecided' = undecided \ {k}
  /\ UNCHANGED <<batches, holders, reservations, ended, mishaps>>

\* The time of a reservation ends, and its unit stays sold.
End(t) ==
  /\ ended' = ended \cup {t}
  /\ UNCHANGED <<batches, units, holders, undecided, reservations, mishaps>>

-----------------------------------------------------------------------------
(* The mishaps.                                                            *)

Mishap == mishaps < MaxMishaps /\ mishaps' = mishaps + 1

\* Bookings that were decided, or none, are decided again.
Repeat(S) ==
  /\ Mishap
  /\ undecided' = undecided \cup S
  /\ UNCHANGED <<batches, units, holders, reservations, ended>>

Lose ==
  /\ Mishap
  /\ units > 0
  /\ units' = units - 1
  /\ UNCHANGED <<batches, holders, undecided, reservations, ended>>

\* Only a unit that is to be given back can be given back twice.
GiveBackToo(k) ==
  /\ Mishap
  /\ k \in undecided
  /\ units' = units + 1
  /\ UNCHANGED <<batches, holders, undecided, reservations, ended>>

SupplyToo(b) ==
  /\ Mishap
  /\ b \in batches
  /\ units' = SizeOf[b]
  /\ UNCHANGED <<batches, holders, undecided, reservations, ended>>

Withdraw(b) ==
  /\ Mishap
  /\ b \in batches
  /\ batches' = batches \ {b}
  /\ UNCHANGED <<units, holders, undecided, reservations, ended>>

Next ==
  \/ \E b \in Batches : Supply(b) \/ SupplyToo(b) \/ Withdraw(b)
  \/ \E k \in Bookings : Take(k) \/ GiveBack(k) \/ GiveBackToo(k)
  \/ \E k \in Bookings, name \in Names : Reserve(k, name)
  \/ \E t \in Bookings \X Names : End(t)
  \/ \E S \in SUBSET (holders \ undecided) : Repeat(S)
  \/ Lose

Spec == Init /\ [][Next]_vars
=============================================================================
