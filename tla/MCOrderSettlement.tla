------------------------- MODULE MCOrderSettlement -------------------------
(***************************************************************************)
(* OrderSettlement on a small instance: one order, for which the customer  *)
(* initiates and verifies twice, so that the calls and their events race.  *)
(* Another order shares nothing with it but the process of the order       *)
(* service, and OrderCrash ends that at any time.                          *)
(***************************************************************************)
EXTENDS OrderSettlement

CONSTANTS o1, i1, i2, v1, v2

MCOrders == {o1}
MCInitiates == {i1, i2}
MCVerifies == {v1, v2}
MCOrderOf == [c \in Initiates \cup Verifies |-> o1]

\* No client creates payment records: the order service alone does.
OwnRecordsSpec ==
  Init /\ [][Work \/ \E o \in Orders : Arrive(o)]_vars /\ Fairness
=============================================================================
