---------------------------- MODULE MCFlashSale ----------------------------
(***************************************************************************)
(* FlashSale on a small instance.  The first two requests are of one       *)
(* customer, who competes with herself for the lock, and the third is of   *)
(* another.  Three units let two requests through, one of each customer    *)
(* or both of one, and the third booking meets the last unit.              *)
(***************************************************************************)
EXTENDS FlashSale, TLC

CONSTANTS ann, bob, r1, r2, r3, s1, s2

MCUsers == {ann, bob}
MCRequests == {r1, r2, r3}
MCSales == {s1}
MCTwoSales == {s1, s2}
MCUserOf == [r \in Requests |-> IF r = r3 THEN bob ELSE ann]
MCInitialOf == [s \in Sales |-> 3]
MCBaseOf == [s \in Sales |-> 1000]

\* Two requests of one customer, where faults make the state space large.
MCOneUser == {ann}
MCTwoRequests == {r1, r2}

\* The two requests of the first customer are interchangeable.
MCSymmetry == Permutations({r1, r2})

\* The run with fairness begins when the sale is live.
LiveInit ==
  /\ stock = InitialOf[s1]
  /\ initialStock = InitialOf[s1]
  /\ basePrice = BaseOf[s1]
  /\ currentPrice = BaseOf[s1] * 100
  /\ live = TRUE
  /\ lock = [u \in Users |-> Nil]
  /\ starting = [s \in Sales |-> IF s = s1 THEN "live" ELSE "idle"]
  /\ booking = [r \in Requests |-> "new"]
  /\ billed = [r \in Requests |-> Nil]
  /\ msg = [r \in Requests |-> "none"]
  /\ run = [r \in Requests |-> 0]
  /\ local = [r \in Requests |-> NoLocal]
  /\ reply = [r \in Requests |-> "none"]
  /\ published = {}
  /\ faults = 0
  /\ claimed = {}
  /\ early = {}
  /\ expired = {}
  /\ repeated = 0
  /\ supplied = InitialOf[s1]
  /\ discarded = 0
  /\ leaked = 0

RestartSpec == LiveInit /\ [][Next]_vars

LiveSpec == LiveInit /\ [][Next]_vars /\ Fairness

\* The only faults are commands that are answered by an error: no process ends, and no
\* command is sent again.  The sale is live at the start.
ErrorsOnly ==
  \/ \E s \in Sales : Start(s)
  \/ \E r \in Requests : Book(r) \/ Consume(r) \/ RedisError(r)
  \/ \E u \in Users : LockExpires(u)

ErrorsSpec == LiveInit /\ [][ErrorsOnly]_vars
=============================================================================
