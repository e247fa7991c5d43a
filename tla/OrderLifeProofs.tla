--------------------------- MODULE OrderLifeProofs ---------------------------
(***************************************************************************)
(* OrderSettlement implements OrderLife, for every number of orders, calls *)
(* and faults.                                                             *)
(***************************************************************************)
EXTENDS OrderSettlementProofs

\* An event is sent in the last step of its call, and everything that a call does
\* after its first query is about a payment that is there.
SentLast ==
  \A v \in Verifies :
    /\ event[v] # "none" => verify[v] \in {"VERIFIED", "ERROR"}
    /\ v \in Verifying \/ event[v] # "none" => pay[OrderOf[v]] # Nil

LEMMA SentLastInvariant == Spec => []SentLast
<1>1. Init => SentLast
  BY DEF Init, SentLast, Verifying
<1>2. IInv /\ SentLast /\ [Next]_vars => SentLast'
  <2> SUFFICES ASSUME IInv, SentLast, [Next]_vars
               PROVE  SentLast'
    OBVIOUS
  <2> USE OrderOfType, NilAssumption DEF IInv, TypeOK, SentLast, Verifying
  <2>1. ASSUME NEW o \in Orders,
               Arrive(o) \/ Consume(o) \/ Record(o) \/ SaveFails(o) \/ CreateDirectly(o)
        PROVE  SentLast'
    BY <2>1 DEF Arrive, Consume, SaveOrder, SaveAgain, SendPost, AckOrder, Record, StorePayment,
                PostAnswered, CreateDirectly, CreateEntry, SaveFails, paymentVars, eventVars
  <2>2. ASSUME NEW failed \in SUBSET Orders, Restart(failed)
        PROVE  SentLast'
    BY <2>2 DEF Restart, paymentVars
  <2>3. ASSUME NEW i \in Initiates, Initiate(i) \/ InitiateFails(i)
        PROVE  SentLast'
    BY <2>3 DEF Initiate, InitiateFails, FetchOrder, LookupPayment, StoreIntent,
                AnswerInitiate, eventVars
  <2>4. ASSUME NEW v \in Verifies, Verify(v) \/ UpdateFails(v) \/ VerifyFails(v)
        PROVE  SentLast'
    <3>1. CASE FetchPayment(v)
      BY <3>1, FirstStepType DEF FetchPayment, eventVars
    <3>2. CASE UpdateSucceeded(v) \/ UpdateFails(v) \/ MarkFailed(v) \/ VerifyFails(v)
      BY <3>2 DEF UpdateSucceeded, UpdateFails, MarkFailed, VerifyFails, Charge, eventVars
    <3>3. CASE PublishSucceeded(v) \/ PublishFailed(v)
      BY <3>3 DEF PublishSucceeded, PublishFailed, Send, eventVars
    <3> QED
      BY <2>4, <3>1, <3>2, <3>3 DEF Verify
  <2>5. ASSUME NEW v \in Verifies, Handle(v) \/ EventFails(v)
        PROVE  SentLast'
    BY <2>5 DEF Handle, ReadOrder, WriteOrder, AckEvent, EventFails, orderVars, paymentVars
  <2>6. CASE PaymentCrash \/ UNCHANGED vars
    BY <2>6 DEF PaymentCrash, vars, orderVars, paymentVars, eventVars
  <2> QED
    BY <2>1, <2>2, <2>3, <2>4, <2>5, <2>6 DEF Next, Work, PostRejected, OrderCrash
<1> QED
  BY <1>1, <1>2, Invariant, PTL DEF Spec

-----------------------------------------------------------------------------
(* The steps of the services and what they are in the life of an order.    *)

\* A step that touches no call and no event leaves every stage as it is.
LEMMA StagesStay ==
  ASSUME UNCHANGED <<verify, key, event>>
  PROVE  Stages' = Stages /\ Good' = Good
  BY DEF Stages, Stage, Good

\* A step of one call, or of its event, moves no other one.
LEMMA OneStageMoves ==
  ASSUME NEW v \in Verifies,
         \A w \in Verifies \ {v} :
           verify'[w] = verify[w] /\ key'[w] = key[w] /\ event'[w] = event[w]
  PROVE  /\ Stages' = [Stages EXCEPT ![v] = Stage(v)']
         /\ v \in Good' => Good' = Good \cup {v}
         /\ v \notin Good' => Good' = Good \ {v}
<1>1. \A w \in Verifies \ {v} : Stage(w)' = Stage(w) /\ (w \in Good' <=> w \in Good)
  BY DEF Stage, Good
<1>2. Stages' = [Stages EXCEPT ![v] = Stage(v)']
  BY <1>1 DEF Stages
<1>3. Good \subseteq Verifies /\ Good' \subseteq Verifies
  BY DEF Good
<1> QED
  BY <1>1, <1>2, <1>3

\* ... and where that stage is what it was, nothing moves.
LEMMA NoStageMoves ==
  ASSUME NEW v \in Verifies,
         \A w \in Verifies \ {v} :
           verify'[w] = verify[w] /\ key'[w] = key[w] /\ event'[w] = event[w],
         Stage(v)' = Stage(v), v \in Good' <=> v \in Good
  PROVE  Stages' = Stages /\ Good' = Good
<1>1. \A w \in Verifies : Stage(w)' = Stage(w) /\ (w \in Good' <=> w \in Good)
  BY DEF Stage, Good
<1>2. Good \subseteq Verifies /\ Good' \subseteq Verifies
  BY DEF Good
<1> QED
  BY <1>1, <1>2 DEF Stages

\* A fault that nothing else comes of.
LEMMA NothingLost ==
  ASSUME Fault, UNCHANGED <<order, pay, verify, key, event>>
  PROVE  Life!Lose({})
<1>1. Stages' = [v \in Verifies |-> Stages[v]] /\ Good' = Good
  BY StagesStay DEF Stages
<1> QED
  BY <1>1 DEF Fault, Life!Lose, Life!Mishap, Life!End

\* The consumer of the order messages places the order, and the payment service
\* records its payment.
LEMMA OrderImplements ==
  ASSUME IInv, NEW o \in Orders,
         Arrive(o) \/ Consume(o) \/ Record(o) \/ SaveFails(o) \/ CreateDirectly(o)
  PROVE  Life!Place(o) \/ Life!Bill(o) \/ Life!Lose({}) \/ UNCHANGED Life!vars
<1>0. UNCHANGED <<verify, key, event>> /\ Stages' = Stages /\ Good' = Good
  BY StagesStay DEF Arrive, Consume, SaveOrder, SaveAgain, SendPost, AckOrder, Record,
                    StorePayment, CreateDirectly, CreateEntry, PostAnswered, SaveFails,
                    paymentVars, eventVars
<1>1. CASE SaveOrder(o)
  <2>1. pay[o] = Nil
    BY <1>1 DEF SaveOrder, IInv, RowFirst
  <2> QED
    BY <1>0, <1>1, <2>1 DEF SaveOrder, paymentVars, Life!Place, Life!PerhapsMishap
<1>2. CASE SaveFails(o)
  <2>1. CASE order' = order
    BY <1>0, <1>2, <2>1, NothingLost DEF SaveFails, paymentVars
  <2>2. CASE order' = [order EXCEPT ![o] = "PENDING_PAYMENT"]
    <3>1. pay[o] = Nil
      BY <1>2 DEF SaveFails, IInv, RowFirst
    <3> QED
      BY <1>0, <1>2, <2>2, <3>1 DEF SaveFails, Fault, paymentVars, Life!Place,
                                    Life!PerhapsMishap, Life!Mishap
  <2> QED
    BY <1>2, <2>1, <2>2 DEF SaveFails
<1>3. CASE StorePayment(o) \/ CreateDirectly(o)
  BY <1>0, <1>3 DEF StorePayment, CreateDirectly, CreateEntry, Life!Bill
<1>4. CASE Arrive(o) \/ SaveAgain(o) \/ SendPost(o) \/ AckOrder(o) \/ PostAnswered(o)
  BY <1>0, <1>4 DEF Arrive, SaveAgain, SendPost, AckOrder, PostAnswered, orderVars, paymentVars,
                    Life!vars
<1> QED
  BY <1>1, <1>2, <1>3, <1>4 DEF Consume, Record

\* initiate does not show.
LEMMA InitiateImplements ==
  ASSUME NEW i \in Initiates, Initiate(i) \/ InitiateFails(i)
  PROVE  Life!Lose({}) \/ UNCHANGED Life!vars
<1>1. UNCHANGED <<order, pay, verify, key, event>>
  BY DEF Initiate, FetchOrder, LookupPayment, StoreIntent, AnswerInitiate, InitiateFails,
         orderVars, eventVars
<1>2. Fault \/ faults' = faults
  BY DEF Initiate, FetchOrder, LookupPayment, StoreIntent, AnswerInitiate, InitiateFails
<1> QED
  BY <1>1, <1>2, NothingLost, StagesStay DEF Life!vars

\* A call of verify decides, declines or is lost.
LEMMA VerifyImplements ==
  ASSUME IInv, SentLast, NEW v \in Verifies, Verify(v) \/ UpdateFails(v) \/ VerifyFails(v)
  PROVE  \/ Life!Decline(v) \/ Life!Succeed(v) \/ Life!Fail(v) \/ Life!Refuse(v)
         \/ Life!Lose({v}) \/ UNCHANGED Life!vars
<1> DEFINE Ended == /\ Stages' = [w \in Verifies |-> IF w \in {v} THEN "over" ELSE Stages[w]]
                    /\ Good' = Good \ {v}
<1>0. /\ order' = order
      /\ \A w \in Verifies \ {v} :
           verify'[w] = verify[w] /\ key'[w] = key[w] /\ event'[w] = event[w]
  BY DEF Verify, FetchPayment, UpdateSucceeded, PublishSucceeded, MarkFailed, PublishFailed,
         UpdateFails, VerifyFails, Send, eventVars, orderVars, IInv, TypeOK
<1>1. ASSUME Stage(v)' = "over", v \notin Good'
      PROVE  Ended
  BY <1>0, <1>1, OneStageMoves DEF Stages
<1>2. /\ Stages[v] = Stage(v)
      /\ verify[v] \in {"idle", "update", "publish", "fail", "publishFailed"}
      /\ event[v] = "none"
  BY DEF Stages, SentLast, Verify, FetchPayment, UpdateSucceeded, PublishSucceeded, MarkFailed,
         PublishFailed, UpdateFails, VerifyFails, IInv, TypeOK
<1>3. CASE FetchPayment(v)
  <2>1. /\ verify[v] = "idle" /\ Stages[v] = "open"
        /\ verify'[v] \in {"REFUSED", "ALREADY", "update"} /\ event'[v] = "none"
        /\ UNCHANGED <<pay, faults>>
    BY <1>2, <1>3, FirstStepType, OrderOfType DEF FetchPayment, eventVars, Stage, IInv, TypeOK
  <2>2. CASE verify'[v] = "update"
    <3>1. Stage(v)' = Stage(v) /\ (v \in Good' <=> v \in Good)
      BY <2>1, <2>2, <1>2 DEF Stage, Good
    <3>2. Stages' = Stages /\ Good' = Good
      BY <1>0, <3>1, NoStageMoves
    <3> QED
      BY <1>0, <2>1, <3>2 DEF Life!vars
  <2>3. CASE verify'[v] # "update"
    <3>1. Stage(v)' = "over" /\ v \notin Good'
      BY <2>1, <2>3 DEF Stage, Good
    <3> QED
      BY <1>0, <1>1, <2>1, <3>1 DEF Life!Decline, Life!End
  <2> QED
    BY <2>2, <2>3
<1>4. CASE UpdateSucceeded(v)
  <2>1. /\ verify[v] = "update" /\ verify'[v] = "publish" /\ event'[v] = "none"
        /\ pay' = [pay EXCEPT ![OrderOf[v]] = "SUCCEEDED"] /\ faults' = faults
    BY <1>2, <1>4 DEF UpdateSucceeded, Charge, eventVars, IInv, TypeOK
  <2>2. Stages[v] = "open"
    BY <1>2, <2>1 DEF Stage
  <2>3. Stage(v)' = "due"
    BY <2>1 DEF Stage
  <2>4. v \in Good'
    BY <2>1 DEF Good
  <2>5. Life!Payable(OrderOf[v])
    BY <2>1 DEF IInv, RecordFound, LookedFirst, Verifying, Life!Payable
  <2> QED
    BY <1>0, <2>1, <2>2, <2>3, <2>4, <2>5, OneStageMoves DEF Life!Succeed, Life!Advance, Life!Charge
<1>5. CASE UpdateFails(v)
  <2>1. /\ verify[v] = "update" /\ verify'[v] = "fail" /\ event'[v] = "none"
        /\ pay' = [pay EXCEPT ![OrderOf[v]] = "SUCCEEDED"] \/ pay' = pay
        /\ Fault
    BY <1>2, <1>5 DEF UpdateFails, Charge, eventVars, IInv, TypeOK
  <2>2. Stages[v] = "open" /\ Stage(v)' = "failing" /\ v \notin Good' /\ v \notin Good
    BY <1>2, <2>1 DEF Stage, Good
  <2>3. Life!Payable(OrderOf[v])
    BY <2>1 DEF IInv, RecordFound, LookedFirst, Verifying, Life!Payable
  <2>4. Stages' = [Stages EXCEPT ![v] = "failing"] /\ Good' = Good
    BY <1>0, <2>2, OneStageMoves
  <2> QED
    BY <1>0, <2>1, <2>2, <2>3, <2>4 DEF Fault, Life!Fail, Life!Mishap, Life!Advance, Life!Charge
<1>6. CASE MarkFailed(v)
  <2>1. /\ verify[v] = "fail" /\ verify'[v] = "publishFailed" /\ event'[v] = "none"
        /\ pay' = [pay EXCEPT ![OrderOf[v]] = "FAILED"] /\ faults' = faults
    BY <1>2, <1>6 DEF MarkFailed, eventVars, IInv, TypeOK
  <2>2. Stages[v] = "failing" /\ Stage(v)' = "due" /\ v \notin Good' /\ v \notin Good
    BY <1>2, <2>1 DEF Stage, Good
  <2>3. Stages' = [Stages EXCEPT ![v] = "due"] /\ Good' = Good
    BY <1>0, <2>2, OneStageMoves
  <2> QED
    BY <1>0, <2>1, <2>2, <2>3 DEF Life!Refuse, Life!Advance
<1>7. CASE PublishSucceeded(v) \/ PublishFailed(v)
  <2>1. /\ Stages[v] = "due" /\ pay' = pay
        /\ v \in Good <=> verify[v] = "publish"
        /\ verify'[v] \in {"VERIFIED", "ERROR"}
    BY <1>2, <1>7 DEF PublishSucceeded, PublishFailed, Stage, Good, IInv, TypeOK
  <2>2. CASE event'[v] = "queued"
    <3>1. faults' = faults /\ (key'[v] = "succeeded" <=> verify[v] = "publish")
      BY <1>2, <1>7, <2>2 DEF PublishSucceeded, PublishFailed, Send, eventVars, IInv, TypeOK
    <3>2. Stage(v)' = "due" /\ (v \in Good' <=> v \in Good)
      BY <2>1, <2>2, <3>1 DEF Stage, Good
    <3>3. Stages' = Stages /\ Good' = Good
      BY <1>0, <1>2, <2>1, <3>2, NoStageMoves
    <3> QED
      BY <1>0, <2>1, <3>1, <3>3 DEF Life!vars
  <2>3. CASE event'[v] # "queued"
    <3>1. Fault /\ event'[v] = "none"
      BY <1>2, <1>7, <2>3 DEF PublishSucceeded, PublishFailed, Send, eventVars, IInv, TypeOK
    <3>2. Stage(v)' = "over" /\ v \notin Good'
      BY <2>1, <3>1 DEF Stage, Good
    <3> QED
      BY <1>0, <1>1, <2>1, <3>1, <3>2 DEF Fault, Life!Lose, Life!Mishap, Life!End
  <2> QED
    BY <2>2, <2>3
<1>8. CASE VerifyFails(v)
  <2>1. /\ Fault /\ verify'[v] = "ERROR" /\ event'[v] = "none" /\ pay' = pay
        /\ verify[v] \in {"idle", "fail"}
    BY <1>2, <1>8 DEF VerifyFails, eventVars, IInv, TypeOK
  <2>2. Stages[v] \in {"open", "failing"}
    BY <1>2, <2>1 DEF Stage
  <2>3. Stage(v)' = "over" /\ v \notin Good'
    BY <2>1 DEF Stage, Good
  <2> QED
    BY <1>0, <1>1, <2>1, <2>2, <2>3 DEF Fault, Life!Lose, Life!Mishap, Life!End
<1> QED
  BY <1>3, <1>4, <1>5, <1>6, <1>7, <1>8 DEF Verify

\* The end of the payment service's process loses the verdicts under way.
LEMMA PaymentCrashImplements ==
  ASSUME IInv, SentLast, PaymentCrash
  PROVE  Life!Lose(Verifying)
<1>1. /\ UNCHANGED <<order, pay, key, event>> /\ Fault
      /\ \A v \in Verifies : verify'[v] = IF v \in Verifying THEN "ERROR" ELSE verify[v]
  BY DEF PaymentCrash, orderVars, eventVars
<1>2. \A v \in Verifying :
       /\ v \in Verifies /\ event[v] = "none"
       /\ verify[v] \in {"update", "publish", "fail", "publishFailed"}
  BY DEF Verifying, SentLast
<1>3. \A v \in Verifying : Stages[v] \notin {"done", "over"}
  BY <1>2 DEF Stages, Stage
<1>4. \A v \in Verifying : Stage(v)' = "over" /\ v \notin Good'
  BY <1>1, <1>2 DEF Stage, Good
<1>5. \A v \in Verifies \ Verifying : Stage(v)' = Stage(v) /\ (v \in Good' <=> v \in Good)
  BY <1>1 DEF Stage, Good
<1>6. Stages' = [v \in Verifies |-> IF v \in Verifying THEN "over" ELSE Stages[v]]
  BY <1>4, <1>5 DEF Stages
<1>7. Good' = Good \ Verifying
  <2>1. Good \subseteq Verifies /\ Good' \subseteq Verifies
    BY DEF Good
  <2> QED
    BY <2>1, <1>4, <1>5
<1> QED
  BY <1>1, <1>3, <1>6, <1>7 DEF Fault, Life!Lose, Life!Mishap, Life!End

\* The end of the order service's process makes every unacknowledged event due again.
LEMMA RestartImplements ==
  ASSUME SentLast, NEW failed, Fault, Restart(failed)
  PROVE  Life!Again
<1>1. /\ UNCHANGED <<order, pay, verify, key>>
      /\ \A v \in Verifies :
           event'[v] = IF event[v] \in {"write", "ack"} THEN "queued" ELSE event[v]
  BY DEF Restart, paymentVars
<1>2. \A v \in Verifies :
        Stage(v)' = IF Stage(v) \in {"acting", "done"} THEN "due" ELSE Stage(v)
  <2> SUFFICES ASSUME NEW v \in Verifies
               PROVE  Stage(v)' = IF Stage(v) \in {"acting", "done"} THEN "due" ELSE Stage(v)
    OBVIOUS
  <2>1. CASE event[v] \in {"write", "ack"}
    <3>1. verify[v] \in {"VERIFIED", "ERROR"}
      BY <2>1 DEF SentLast
    <3> QED
      BY <1>1, <2>1, <3>1 DEF Stage
  <2>2. CASE event[v] \notin {"write", "ack"}
    BY <1>1, <2>2 DEF Stage
  <2> QED
    BY <2>1, <2>2
<1>3. Good' = Good
  BY <1>1 DEF Good
<1>4. Stages' = [v \in Verifies |->
                  IF Stages[v] \in {"acting", "done"} THEN "due" ELSE Stages[v]]
  BY <1>2 DEF Stages
<1> QED
  BY <1>1, <1>3, <1>4 DEF Fault, Life!Again, Life!Mishap

\* The consumer of the payment events takes a verdict up or skips it, carries it out,
\* and closes it.
LEMMA HandleImplements ==
  ASSUME IInv, SentLast, NEW v \in Verifies, Handle(v) \/ EventFails(v)
  PROVE  \/ Life!TakeUp(v) \/ Life!Skip(v) \/ Life!CarryOut(v) \/ Life!Close(v)
         \/ Life!Lose({v})
<1>0. /\ UNCHANGED <<pay, verify, key>>
      /\ \A w \in Verifies \ {v} : event'[w] = event[w]
      /\ event[v] # "none" /\ event'[v] # "none"
  BY DEF Handle, ReadOrder, WriteOrder, AckEvent, EventFails, paymentVars, IInv, TypeOK
<1>1. /\ verify[v] \in {"VERIFIED", "ERROR"} /\ key[v] \in {"succeeded", "failed"}
      /\ OrderOf[v] \in Orders /\ order[OrderOf[v]] \in OrderStatus
  <2>1. key[v] # Nil /\ OrderOf[v] \in Orders
    BY <1>0, OrderOfType DEF IInv, EventInv
  <2> QED
    BY <1>0, <2>1 DEF SentLast, IInv, LookedFirst, TypeOK
<1>2. /\ Stages[v] = Stage(v)
      /\ v \in Good <=> event[v] \in {"queued", "write", "ack"} /\ key[v] = "succeeded"
      /\ v \in Good' <=> event'[v] \in {"queued", "write", "ack"} /\ key[v] = "succeeded"
  BY <1>0, <1>1 DEF Stages, Good
<1>3. /\ Stages' = [Stages EXCEPT ![v] = Stage(v)']
      /\ v \in Good' => Good' = Good \cup {v}
      /\ v \notin Good' => Good' = Good \ {v}
  BY <1>0, OneStageMoves
<1>4. ASSUME event'[v] \in {"acked", "dropped"}
      PROVE  Life!End({v})
  <2>1. Stage(v)' = "over" /\ v \notin Good'
    BY <1>0, <1>1, <1>2, <1>4 DEF Stage
  <2> QED
    BY <1>3, <2>1 DEF Life!End, Stages
<1>5. CASE ReadOrder(v)
  <2>1. /\ event[v] = "queued" /\ UNCHANGED <<order, faults>>
        /\ event'[v] = IF Skips(key[v], order[OrderOf[v]]) THEN "ack" ELSE "write"
    BY <1>5 DEF ReadOrder, orderVars, IInv, TypeOK
  <2>2. Skips(key[v], order[OrderOf[v]]) <=> ~Life!OpenTo(v)
    BY <1>1, <1>2, <2>1, NilAssumption DEF Skips, Life!OpenTo, OrderStatus
  <2>3. Stage(v) = "due" /\ Stage(v)' = IF Life!OpenTo(v) THEN "acting" ELSE "done"
    BY <1>0, <1>1, <2>1, <2>2 DEF Stage
  <2>4. Good' = Good
    BY <1>2, <1>3, <2>1
  <2> QED
    BY <1>0, <1>1, <1>2, <1>3, <2>1, <2>3, <2>4, NilAssumption
       DEF Life!TakeUp, Life!Skip, Life!Advance, OrderStatus
<1>6. CASE WriteOrder(v) \/ (EventFails(v) /\ order' # order)
  <2>1. /\ event[v] = "write"
        /\ order' = [order EXCEPT ![OrderOf[v]] = Outcome(key[v])]
        /\ \/ event'[v] = "ack" /\ faults' = faults
           \/ event'[v] = "dropped" /\ Fault
    BY <1>6 DEF WriteOrder, EventFails, Settle, IInv, TypeOK
  <2>2. Outcome(key[v]) = IF v \in Good THEN "PAID" ELSE "CANCELLED"
    BY <1>1, <1>2, <2>1 DEF Outcome
  <2>3. Stages[v] = "acting"
    BY <1>1, <1>2, <2>1 DEF Stage
  <2>4. CASE event'[v] = "ack"
    <3>1. Stage(v)' = "done" /\ Good' = Good
      BY <1>0, <1>1, <1>2, <1>3, <2>1, <2>4 DEF Stage
    <3> QED
      BY <1>0, <1>3, <2>1, <2>2, <2>3, <2>4, <3>1 DEF Life!CarryOut, Life!Advance
  <2>5. CASE event'[v] = "dropped"
    BY <1>0, <1>4, <2>1, <2>2, <2>3, <2>5 DEF Fault, Life!CarryOut, Life!Mishap
  <2> QED
    BY <2>1, <2>4, <2>5
<1>7. CASE AckEvent(v)
  <2>1. event[v] = "ack" /\ event'[v] = "acked" /\ UNCHANGED <<order, faults>>
    BY <1>7 DEF AckEvent, orderVars, IInv, TypeOK
  <2>2. Stages[v] = "done"
    BY <1>1, <1>2, <2>1 DEF Stage
  <2> QED
    BY <1>0, <1>4, <2>1, <2>2 DEF Life!Close
<1>8. CASE EventFails(v) /\ order' = order
  <2>1. event[v] \in {"queued", "write"} /\ event'[v] = "dropped" /\ Fault
    BY <1>8 DEF EventFails, IInv, TypeOK
  <2>2. Stages[v] \in {"due", "acting"}
    BY <1>1, <1>2, <2>1 DEF Stage
  <2> QED
    BY <1>0, <1>4, <1>8, <2>1, <2>2 DEF Fault, Life!Lose, Life!Mishap
<1> QED
  BY <1>5, <1>6, <1>7, <1>8 DEF Handle

-----------------------------------------------------------------------------

\* The order service and the payment service, with their messages, requests, crashes
\* and redeliveries, do to an order and its payment what OrderLife allows: every step
\* is one of its steps or does not show.
THEOREM SettlementIsOrderLife == Spec => ImplementsOrderLife
<1>1. Init => Life!Init
  BY DEF Init, Life!Init, Stages, Stage, Good
<1>2. IInv /\ SentLast /\ [Next]_vars => [Life!Next]_(Life!vars)
  <2> SUFFICES ASSUME IInv, SentLast, [Next]_vars
               PROVE  Life!Next \/ UNCHANGED Life!vars
    OBVIOUS
  <2>1. ASSUME NEW o \in Orders,
               Arrive(o) \/ Consume(o) \/ Record(o) \/ SaveFails(o) \/ CreateDirectly(o)
        PROVE  Life!Next \/ UNCHANGED Life!vars
    BY <2>1, OrderImplements DEF Life!Next
  <2>2. ASSUME NEW i \in Initiates, Initiate(i) \/ InitiateFails(i)
        PROVE  Life!Next \/ UNCHANGED Life!vars
    BY <2>2, InitiateImplements DEF Life!Next
  <2>3. ASSUME NEW v \in Verifies, Verify(v) \/ UpdateFails(v) \/ VerifyFails(v)
        PROVE  Life!Next \/ UNCHANGED Life!vars
    BY <2>3, VerifyImplements DEF Life!Next
  <2>4. ASSUME NEW v \in Verifies, Handle(v) \/ EventFails(v)
        PROVE  Life!Next
    BY <2>4, HandleImplements DEF Life!Next
  <2>5. ASSUME NEW failed, Fault, Restart(failed)
        PROVE  Life!Next
    BY <2>5, RestartImplements DEF Life!Next
  <2>6. CASE PaymentCrash
    <3>1. Verifying \in SUBSET Verifies
      BY DEF Verifying
    <3> QED
      BY <2>6, <3>1, PaymentCrashImplements DEF Life!Next
  <2>7. CASE UNCHANGED vars
    <3>1. UNCHANGED <<order, pay, faults, verify, key, event>>
      BY <2>7 DEF vars, orderVars, paymentVars, eventVars
    <3> QED
      BY <3>1, StagesStay DEF Life!vars
  <2> QED
    BY <2>1, <2>2, <2>3, <2>4, <2>5, <2>6, <2>7 DEF Next, Work, PostRejected, OrderCrash
<1> QED
  BY <1>1, <1>2, Invariant, SentLastInvariant, PTL DEF Spec, Life!Spec, ImplementsOrderLife
=============================================================================
