----------------------- MODULE OrderSettlementProofs -----------------------
(***************************************************************************)
(* What OrderSettlement promises for every number of orders, calls and     *)
(* faults, proved with TLAPS from one inductive invariant: its parts say   *)
(* what must have been stored before a handler can be where it is.         *)
(***************************************************************************)
EXTENDS OrderSettlement, TLAPS

\* The row of an order comes before its POST, and an id that has a payment record
\* and no order gets none any more.
RowFirst ==
  \A o \in Orders :
    /\ message[o] \in {"created", "posted"} \/ post[o] # "none" => order[o] # Nil
    /\ order[o] = Nil /\ pay[o] # Nil => message[o] = "none"

\* A call of initiate has seen the order before it goes on, and a call of verify
\* goes on only if one of initiate did.
LookedFirst ==
  /\ \A i \in Initiates : initiate[i] \in {"lookup", "generate"} => order[OrderOf[i]] # Nil
  /\ \A v \in Verifies : v \in Verifying \/ key[v] # Nil => order[OrderOf[v]] # Nil

\* A call of verify that updates the payment record has found one.
RecordFound ==
  \A v \in Verifies : verify[v] \in {"update", "fail"} => pay[OrderOf[v]] # Nil

\* The SUCCEEDED status comes before the success event and before the answer.
ChargeFirst ==
  /\ \A o \in Orders : pay[o] = "SUCCEEDED" => o \in charged
  /\ \A v \in Verifies :
       verify[v] \in {"publish", "VERIFIED", "ALREADY"} \/ key[v] = "succeeded"
         => OrderOf[v] \in charged

\* An event has a routing key, that of a failure was sent by a call that ended
\* in an error, and one that is about to be written was not to be skipped.
EventInv ==
  \A v \in Verifies :
    /\ event[v] # "none" => key[v] # Nil
    /\ key[v] = "failed" => verify[v] = "ERROR"
    /\ event[v] = "write" => ~Skips(key[v], seen[v])

IInv ==
  /\ TypeOK
  /\ RowFirst
  /\ LookedFirst
  /\ OutcomeNeedsOrder
  /\ RecordFound
  /\ ChargeFirst
  /\ EventInv
  /\ PaidWasCharged
  /\ CancelledHadFailure

-----------------------------------------------------------------------------

LEMMA OrderOfType ==
  /\ \A i \in Initiates : OrderOf[i] \in Orders
  /\ \A v \in Verifies : OrderOf[v] \in Orders
  BY CallsAssumption

LEMMA FaultType ==
  ASSUME TypeOK, Fault
  PROVE  faults' \in 0..MaxFaults
  BY FaultsAssumption DEF TypeOK, Fault

LEMMA InitInv == Init => IInv
  BY FaultsAssumption, NilAssumption
     DEF Init, IInv, TypeOK, RowFirst, LookedFirst, OutcomeNeedsOrder, Verifying, RecordFound,
         ChargeFirst, EventInv, PaidWasCharged, CancelledHadFailure, OrderStatus,
         PaymentStatus

LEMMA ConsumeInv ==
  ASSUME IInv, NEW o \in Orders, Arrive(o) \/ Consume(o) \/ SaveFails(o)
  PROVE  IInv'
<1> USE OrderOfType, FaultType, NilAssumption
    DEF IInv, TypeOK, RowFirst, LookedFirst, OutcomeNeedsOrder, Verifying, RecordFound,
        ChargeFirst, EventInv, PaidWasCharged, CancelledHadFailure, OrderStatus,
        PaymentStatus, paymentVars, eventVars, orderVars
<1>1. CASE SaveOrder(o)
  BY <1>1 DEF SaveOrder
<1>2. CASE SaveAgain(o)
  BY <1>2 DEF SaveAgain
<1>3. CASE SendPost(o)
  BY <1>3 DEF SendPost
<1>4. CASE AckOrder(o)
  BY <1>4 DEF AckOrder
<1>5. CASE SaveFails(o)
  BY <1>5 DEF SaveFails
<1>6. CASE Arrive(o)
  BY <1>6 DEF Arrive
<1> QED
  BY <1>1, <1>2, <1>3, <1>4, <1>5, <1>6 DEF Consume

LEMMA RecordInv ==
  ASSUME IInv, NEW o \in Orders, Record(o) \/ CreateDirectly(o)
  PROVE  IInv'
<1> USE OrderOfType, NilAssumption
    DEF IInv, TypeOK, RowFirst, LookedFirst, OutcomeNeedsOrder, Verifying, RecordFound,
        ChargeFirst, EventInv, PaidWasCharged, CancelledHadFailure, OrderStatus,
        PaymentStatus, paymentVars, eventVars
<1>1. CASE StorePayment(o)
  BY <1>1 DEF StorePayment, CreateEntry
<1>2. CASE PostAnswered(o)
  BY <1>2 DEF PostAnswered
<1>3. CASE CreateDirectly(o)
  BY <1>3 DEF CreateDirectly, CreateEntry
<1> QED
  BY <1>1, <1>2, <1>3 DEF Record

\* The end of the process takes messages, events and POSTs one step back, and
\* leaves every row as it is.
LEMMA RestartInv ==
  ASSUME IInv, NEW failed \in SUBSET Orders, \A o \in failed : post[o] # "none",
         Fault, Restart(failed)
  PROVE  IInv'
<1>1. /\ \A o \in Orders : post'[o] # "none" => post[o] # "none"
      /\ post' \in [Orders -> {"none", "sent", "orphan", "stored", "done", "lost"}]
  <2>1. PICK lost \in SUBSET {o \in Orders \ failed : post[o] = "sent"} :
          post' = [o \in Orders |->
                    CASE o \in failed \cup lost -> "lost"
                      [] o \notin failed \cup lost /\ post[o] = "sent" -> "orphan"
                      [] o \notin failed \cup lost /\ post[o] = "stored" -> "done"
                      [] OTHER -> post[o]]
    BY DEF Restart
  <2> QED
    BY <2>1 DEF IInv, TypeOK
<1>2. UNCHANGED <<order, pay, intent, initiate, got, verify, key, charged, bounced>>
  BY DEF Restart, paymentVars
<1>3. /\ \A o \in Orders : message'[o] \in {"created", "posted"} => message[o] = message'[o]
      /\ message' \in [Orders -> {"none", "queued", "created", "posted", "acked"}]
  BY DEF Restart, IInv, TypeOK
<1>4. \A o \in Orders : message[o] = "none" => message'[o] = "none"
  BY DEF Restart, IInv, TypeOK
<1>5. /\ \A v \in Verifies : /\ event'[v] # "none" => event[v] # "none"
                             /\ event'[v] # "write"
      /\ event' \in [Verifies -> {"none", "queued", "write", "ack", "acked", "dropped"}]
      /\ seen' \in [Verifies -> OrderStatus \cup {Nil}]
  BY DEF Restart, IInv, TypeOK
<1>6. TypeOK'
  BY <1>1, <1>2, <1>3, <1>5, FaultType DEF IInv, TypeOK
<1>7. RowFirst'
  BY <1>1, <1>2, <1>3, <1>4 DEF IInv, RowFirst
<1>8. EventInv'
  BY <1>2, <1>5 DEF IInv, EventInv
<1> QED
  BY <1>2, <1>6, <1>7, <1>8
     DEF IInv, LookedFirst, OutcomeNeedsOrder, Verifying, RecordFound, ChargeFirst,
         PaidWasCharged, CancelledHadFailure

LEMMA InitiateInv ==
  ASSUME IInv, NEW i \in Initiates, Initiate(i) \/ InitiateFails(i)
  PROVE  IInv'
<1>1. /\ UNCHANGED <<message, order, post, pay, verify, key, event, seen, charged, bounced>>
      /\ faults' \in 0..MaxFaults
  BY FaultType DEF Initiate, InitiateFails, FetchOrder, LookupPayment, StoreIntent,
     AnswerInitiate, orderVars, eventVars, IInv, TypeOK
<1>2. /\ initiate' \in [Initiates ->
                          {"idle", "lookup", "generate", "INTENT", "REFUSED", "ERROR"}]
      /\ intent' \in [Orders -> Initiates \cup {Nil}]
      /\ got' \in [Initiates -> Initiates \cup {Nil}]
  BY OrderOfType DEF Initiate, InitiateFails, FetchOrder, LookupPayment, StoreIntent,
     AnswerInitiate, IInv, TypeOK
<1>3. TypeOK'
  BY <1>1, <1>2 DEF IInv, TypeOK
<1>4. \A j \in Initiates : initiate'[j] \in {"lookup", "generate"} => order[OrderOf[j]] # Nil
  BY NilAssumption, OrderOfType
     DEF Initiate, InitiateFails, FetchOrder, LookupPayment, StoreIntent, AnswerInitiate, IInv,
         TypeOK, LookedFirst
<1>5. \A o \in Orders : intent'[o] # Nil => order[o] # Nil
  BY OrderOfType
     DEF Initiate, InitiateFails, FetchOrder, LookupPayment, StoreIntent, IInv, TypeOK,
         LookedFirst, OutcomeNeedsOrder
<1> QED
  BY <1>1, <1>3, <1>4, <1>5
     DEF IInv, RowFirst, LookedFirst, OutcomeNeedsOrder, Verifying, RecordFound, ChargeFirst,
         EventInv, PaidWasCharged, CancelledHadFailure

LEMMA FirstStepType ==
  ASSUME NEW o \in Orders
  PROVE  \/ FirstStep(o) = "REFUSED"
         \/ FirstStep(o) = "ALREADY" /\ pay[o] = "SUCCEEDED"
         \/ FirstStep(o) = "update" /\ pay[o] # Nil /\ intent[o] # Nil
  BY DEF FirstStep, Verified

LEMMA VerifyInv ==
  ASSUME IInv, NEW v \in Verifies, Verify(v) \/ UpdateFails(v) \/ VerifyFails(v)
  PROVE  IInv'
<1> USE OrderOfType, FaultType, NilAssumption
    DEF IInv, TypeOK, RowFirst, LookedFirst, OutcomeNeedsOrder, Verifying, RecordFound,
        ChargeFirst, EventInv, PaidWasCharged, CancelledHadFailure, OrderStatus,
        PaymentStatus, orderVars, eventVars
<1>1. CASE FetchPayment(v)
  BY <1>1, FirstStepType DEF FetchPayment
<1>2. CASE UpdateSucceeded(v)
  BY <1>2 DEF UpdateSucceeded, Charge
<1>3. CASE UpdateFails(v)
  BY <1>3 DEF UpdateFails, Charge
<1>4. CASE PublishSucceeded(v)
  BY <1>4 DEF PublishSucceeded, Send
<1>5. CASE MarkFailed(v)
  BY <1>5 DEF MarkFailed
<1>6. CASE PublishFailed(v)
  BY <1>6 DEF PublishFailed, Send
<1>7. CASE VerifyFails(v)
  BY <1>7 DEF VerifyFails
<1> QED
  BY <1>1, <1>2, <1>3, <1>4, <1>5, <1>6, <1>7 DEF Verify

LEMMA PaymentCrashInv ==
  ASSUME IInv, PaymentCrash
  PROVE  IInv'
  BY FaultType
     DEF IInv, TypeOK, RowFirst, LookedFirst, OutcomeNeedsOrder, Verifying, RecordFound,
         ChargeFirst, EventInv, PaidWasCharged, CancelledHadFailure, PaymentCrash, Initiating,
         orderVars, eventVars

LEMMA HandleInv ==
  ASSUME IInv, NEW v \in Verifies, Handle(v) \/ EventFails(v)
  PROVE  IInv'
<1> USE OrderOfType, FaultType, NilAssumption
    DEF IInv, TypeOK, RowFirst, LookedFirst, OutcomeNeedsOrder, Verifying, RecordFound,
        ChargeFirst, EventInv, PaidWasCharged, CancelledHadFailure, OrderStatus,
        PaymentStatus, paymentVars
<1>1. CASE ReadOrder(v)
  BY <1>1 DEF ReadOrder, orderVars
<1>2. CASE WriteOrder(v)
  BY <1>2 DEF WriteOrder, Settle, Outcome
<1>3. CASE AckEvent(v)
  BY <1>3 DEF AckEvent, orderVars
<1>4. CASE EventFails(v)
  BY <1>4 DEF EventFails, Settle, Outcome
<1> QED
  BY <1>1, <1>2, <1>3, <1>4 DEF Handle

LEMMA StepInv == IInv /\ [Next]_vars => IInv'
<1> SUFFICES ASSUME IInv, [Next]_vars
             PROVE  IInv'
  OBVIOUS
<1>1. ASSUME NEW o \in Orders, PostRejected(o)
      PROVE  IInv'
  BY <1>1, RestartInv DEF PostRejected
<1>2. CASE OrderCrash
  BY <1>2, RestartInv DEF OrderCrash
<1>3. CASE UNCHANGED vars
  BY <1>3
     DEF vars, orderVars, paymentVars, eventVars, IInv, TypeOK, RowFirst, LookedFirst,
         OutcomeNeedsOrder, Verifying, RecordFound, ChargeFirst, EventInv, PaidWasCharged,
         CancelledHadFailure
<1> QED
  BY <1>1, <1>2, <1>3, ConsumeInv, RecordInv, InitiateInv, VerifyInv, PaymentCrashInv,
     HandleInv DEF Next, Work

LEMMA Invariant == Spec => []IInv
  BY InitInv, StepInv, PTL DEF Spec

\* An order comes from a message, and the status that the handler of an event
\* has read is that of a row.
OrderFirst ==
  /\ \A o \in Orders : order[o] # Nil => message[o] # "none"
  /\ \A v \in Verifies : seen[v] # Nil => order[OrderOf[v]] # Nil

\* No step but Arrive brings a message, and none takes one away.
LEMMA WorkKeepsMessages ==
  ASSUME TypeOK, [Work \/ \E p \in Orders : CreateDirectly(p)]_vars, NEW o \in Orders
  PROVE  message'[o] # "none" <=> message[o] # "none"
  BY DEF TypeOK, Work, Consume, SaveOrder, SaveAgain, SendPost, AckOrder, Record,
         StorePayment, CreateDirectly, CreateEntry, PostAnswered, SaveFails, PostRejected,
         OrderCrash, Restart, Initiate, InitiateFails, FetchOrder, LookupPayment, StoreIntent,
         AnswerInitiate, Verify, FetchPayment, UpdateSucceeded, PublishSucceeded, MarkFailed,
         PublishFailed, UpdateFails, VerifyFails, PaymentCrash, Handle, ReadOrder, WriteOrder,
         AckEvent, EventFails, orderVars, vars

LEMMA OrderFirstInvariant == Spec => []OrderFirst
<1>1. Init => OrderFirst
  BY DEF Init, OrderFirst
<1>2. IInv /\ OrderFirst /\ [Next]_vars => OrderFirst'
  <2> SUFFICES ASSUME IInv, OrderFirst, [Next]_vars
               PROVE  OrderFirst'
    OBVIOUS
  <2> USE OrderOfType, NilAssumption DEF IInv, TypeOK, OrderFirst
  <2>1. ASSUME NEW o \in Orders, Arrive(o) \/ Consume(o) \/ Record(o) \/ SaveFails(o)
                               \/ CreateDirectly(o)
        PROVE  OrderFirst'
    BY <2>1 DEF Arrive, Consume, SaveOrder, SaveAgain, SendPost, AckOrder, Record, StorePayment,
                PostAnswered, CreateDirectly, CreateEntry, SaveFails, orderVars, eventVars
  <2>2. ASSUME NEW failed \in SUBSET Orders, Restart(failed)
        PROVE  OrderFirst'
    BY <2>2 DEF Restart
  <2>3. ASSUME NEW i \in Initiates, Initiate(i) \/ InitiateFails(i)
        PROVE  OrderFirst'
    BY <2>3 DEF Initiate, InitiateFails, FetchOrder, LookupPayment, StoreIntent,
                AnswerInitiate, orderVars, eventVars
  <2>4. ASSUME NEW v \in Verifies, Verify(v) \/ UpdateFails(v) \/ VerifyFails(v)
        PROVE  OrderFirst'
    BY <2>4 DEF Verify, FetchPayment, UpdateSucceeded, UpdateFails, PublishSucceeded, MarkFailed,
                PublishFailed, VerifyFails, Send, orderVars, eventVars
  <2>5. ASSUME NEW v \in Verifies, Handle(v) \/ EventFails(v)
        PROVE  OrderFirst'
    <3>1. event[v] = "write" => order[OrderOf[v]] # Nil
      BY DEF EventInv, Skips
    <3>2. Outcome(key[v]) # Nil
      BY DEF Outcome
    <3> QED
      BY <2>5, <3>1, <3>2 DEF Handle, ReadOrder, WriteOrder, AckEvent, EventFails, Settle,
                              orderVars
  <2>6. CASE PaymentCrash \/ UNCHANGED vars
    BY <2>6 DEF PaymentCrash, vars, orderVars, eventVars
  <2> QED
    BY <2>1, <2>2, <2>3, <2>4, <2>5, <2>6 DEF Next, Work, PostRejected, OrderCrash
<1> QED
  BY <1>1, <1>2, Invariant, PTL DEF Spec

\* Without a fault the POST of an order goes out before its message is
\* acknowledged, and it is answered when the payment record is stored.
PostInv ==
  faults = 0 =>
    \A o \in Orders :
      /\ message[o] \in {"posted", "acked"} => post[o] # "none"
      /\ post[o] \in {"stored", "done"} => pay[o] # Nil
      /\ post[o] \notin {"lost", "orphan"}

LEMMA PostInvariant == Spec => []PostInv
<1>1. Init => PostInv
  BY DEF Init, PostInv
<1>2. TypeOK /\ PostInv /\ [Next]_vars => PostInv'
  <2> SUFFICES ASSUME TypeOK, PostInv, [Next]_vars, faults' = 0
               PROVE  PostInv'
    BY DEF PostInv
  <2> USE OrderOfType, NilAssumption DEF TypeOK, PostInv
  <2>0. faults \in Nat /\ ~Fault
    BY FaultsAssumption DEF Fault
  <2>1. ASSUME NEW o \in Orders, Arrive(o) \/ Consume(o) \/ Record(o) \/ CreateDirectly(o)
        PROVE  PostInv'
    BY <2>0, <2>1 DEF Arrive, Consume, SaveOrder, SaveAgain, SendPost, AckOrder, Record,
                      StorePayment, CreateDirectly, CreateEntry, PostAnswered, orderVars,
                      paymentVars
  <2>2. ASSUME NEW i \in Initiates, Initiate(i)
        PROVE  PostInv'
    BY <2>0, <2>2 DEF Initiate, FetchOrder, LookupPayment, StoreIntent, AnswerInitiate, orderVars
  <2>3. ASSUME NEW v \in Verifies, Verify(v)
        PROVE  PostInv'
    BY <2>0, <2>3 DEF Verify, FetchPayment, UpdateSucceeded, Charge, PublishSucceeded, MarkFailed,
                      PublishFailed, orderVars
  <2>4. ASSUME NEW v \in Verifies, Handle(v)
        PROVE  PostInv'
    BY <2>0, <2>4 DEF Handle, ReadOrder, WriteOrder, AckEvent, orderVars, paymentVars
  <2>5. CASE UNCHANGED vars
    BY <2>5 DEF vars, orderVars, paymentVars
  <2> QED
    BY <2>0, <2>1, <2>2, <2>3, <2>4, <2>5
       DEF Next, Work, SaveFails, PostRejected, InitiateFails, UpdateFails, VerifyFails,
           EventFails, OrderCrash, PaymentCrash
<1> QED
  BY <1>1, <1>2, Invariant, PTL DEF Spec, IInv

-----------------------------------------------------------------------------

\* Every variable keeps its type: the services never store each other's status.
THEOREM TypeCorrect == Spec => []TypeOK
  BY Invariant, PTL DEF IInv

\* An order is PAID only if its payment was stored as SUCCEEDED: no redelivery,
\* crash or race of events makes one up.
THEOREM PaidIsCharged == Spec => []PaidWasCharged
  BY Invariant, PTL DEF IInv

\* An order is CANCELLED only if a call of verify for it failed and said so.
THEOREM CancelledIsFailure == Spec => []CancelledHadFailure
  BY Invariant, PTL DEF IInv

\* Whoever creates payment records, no intent is given and no payment gets an outcome
\* under an id that is no order's.
THEOREM OutcomesNeedOrders == Spec => []OutcomeNeedsOrder
  BY Invariant, PTL DEF IInv

\* A customer is told verified only if the payment was stored as SUCCEEDED.
THEOREM VerifiedIsCharged == Spec => []VerifiedWasCharged
<1>1. IInv => VerifiedWasCharged
  BY DEF IInv, ChargeFirst, VerifiedWasCharged
<1> QED
  BY <1>1, Invariant, PTL

\* Only a failure whose handler read the order before it was PAID cancels it.
THEOREM RespectsPaid == Spec => FailureRespectsPaid
<1> DEFINE Step == \A o \in Orders :
                     order[o] = "PAID" /\ order'[o] # "PAID" =>
                       \E v \in Verifies :
                         OrderOf[v] = o /\ event[v] = "write" /\ seen[v] # "PAID"
<1>1. IInv /\ [Next]_vars => [Step]_vars
  <2> SUFFICES ASSUME IInv, Next,
                      NEW o \in Orders, order[o] = "PAID", order'[o] # "PAID"
               PROVE  \E v \in Verifies :
                        OrderOf[v] = o /\ event[v] = "write" /\ seen[v] # "PAID"
    OBVIOUS
  <2> USE NilAssumption DEF orderVars, paymentVars, eventVars
  <2>1. ASSUME NEW v \in Verifies, Handle(v) \/ EventFails(v)
        PROVE  OrderOf[v] = o /\ event[v] = "write" /\ seen[v] # "PAID"
    <3>1. event[v] = "write" /\ order' = [order EXCEPT ![OrderOf[v]] = Outcome(key[v])]
      BY <2>1 DEF Handle, ReadOrder, WriteOrder, AckEvent, EventFails, Settle
    <3>2. OrderOf[v] = o
      BY <3>1 DEF IInv, TypeOK
    <3>3. seen[v] # "PAID"
      BY <3>1 DEF IInv, EventInv, Skips
    <3> QED
      BY <3>1, <3>2, <3>3
  <2>2. \A p \in Orders :
          ~(\/ Arrive(p) \/ Consume(p) \/ Record(p) \/ SaveFails(p) \/ PostRejected(p)
            \/ CreateDirectly(p))
    BY DEF Arrive, Consume, SaveOrder, SaveAgain, SendPost, AckOrder, SaveFails, Record,
           StorePayment, CreateDirectly, CreateEntry, PostAnswered, PostRejected, Restart, IInv,
           TypeOK
  <2>3. \A i \in Initiates : ~(Initiate(i) \/ InitiateFails(i))
    BY DEF Initiate, InitiateFails, FetchOrder, LookupPayment, StoreIntent, AnswerInitiate
  <2>4. \A v \in Verifies : ~(Verify(v) \/ UpdateFails(v) \/ VerifyFails(v))
    BY DEF Verify, FetchPayment, UpdateSucceeded, UpdateFails, PublishSucceeded, MarkFailed,
           PublishFailed, VerifyFails
  <2>5. ~OrderCrash /\ ~PaymentCrash
    BY DEF OrderCrash, Restart, PaymentCrash
  <2> QED
    BY <2>1, <2>2, <2>3, <2>4, <2>5 DEF Next, Work
<1> QED
  BY <1>1, Invariant, PTL DEF Spec, FailureRespectsPaid

\* Once the intent of an order is stored and none is being generated, no call
\* replaces it.
THEOREM IntentIsFinal == Spec => IntentStays
<1> DEFINE Step == \A o \in Orders :
                     IntentFinal(o) => IntentFinal(o)' /\ intent'[o] = intent[o]
<1>1. TypeOK /\ [Next]_vars => [Step]_vars
  <2> SUFFICES ASSUME TypeOK, Next, NEW o \in Orders, IntentFinal(o)
               PROVE  IntentFinal(o)' /\ intent'[o] = intent[o]
    OBVIOUS
  <2> USE DEF IntentFinal, TypeOK
  <2>1. ASSUME NEW i \in Initiates, Initiate(i) \/ InitiateFails(i)
        PROVE  IntentFinal(o)' /\ intent'[o] = intent[o]
    <3>1. CASE FetchOrder(i)
      BY <3>1 DEF FetchOrder, AnswerInitiate
    <3>2. CASE LookupPayment(i)
      BY <3>2 DEF LookupPayment, AnswerInitiate
    <3>3. CASE StoreIntent(i)
      BY <3>3 DEF StoreIntent, AnswerInitiate
    <3>4. CASE InitiateFails(i)
      BY <3>4 DEF InitiateFails
    <3> QED
      BY <2>1, <3>1, <3>2, <3>3, <3>4 DEF Initiate
  <2>2. CASE PaymentCrash
    BY <2>2 DEF PaymentCrash, Initiating
  <2>3. ASSUME \/ OrderCrash
               \/ \E p \in Orders : Arrive(p) \/ Consume(p) \/ Record(p) \/ SaveFails(p)
                                     \/ PostRejected(p) \/ CreateDirectly(p)
               \/ \E v \in Verifies : Verify(v) \/ UpdateFails(v) \/ VerifyFails(v)
                                       \/ Handle(v) \/ EventFails(v)
        PROVE  UNCHANGED <<intent, initiate>>
    BY <2>3 DEF Arrive, Consume, SaveOrder, SaveAgain, SendPost, AckOrder, Record,
                StorePayment, CreateDirectly, CreateEntry, PostAnswered, SaveFails,
                PostRejected, OrderCrash, Restart, Verify, FetchPayment, UpdateSucceeded,
                PublishSucceeded, MarkFailed, PublishFailed, UpdateFails, VerifyFails, Handle,
                ReadOrder, WriteOrder, AckEvent, EventFails, paymentVars
  <2> QED
    BY <2>1, <2>2, <2>3 DEF Next, Work
<1> QED
  BY <1>1, TypeCorrect, PTL DEF Spec, IntentStays

\* Without a fault there are no failures, a payment stays SUCCEEDED, the call
\* that stored it publishes its event, and the event pays the order.
AgreeInv ==
  faults = 0 =>
    /\ \A v \in Verifies :
         /\ verify[v] \notin {"fail", "publishFailed"}
         /\ key[v] # "failed"
         /\ verify[v] = "VERIFIED" => event[v] # "none"
         /\ event[v] # "dropped"
         /\ event[v] \in {"ack", "acked"} => order[OrderOf[v]] = "PAID"
    /\ \A o \in charged :
         /\ pay[o] = "SUCCEEDED"
         /\ \E v \in Verifies : OrderOf[v] = o /\ verify[v] \in {"publish", "VERIFIED"}

\* Concurrent calls of verify and their events end in one outcome, the same at
\* both services, for any number of orders and calls.
THEOREM ServicesAgree == Spec => []Agreement
<1>1. Init => AgreeInv
  BY NilAssumption DEF Init, AgreeInv
<1>2. IInv /\ AgreeInv /\ [Next]_vars => AgreeInv'
  <2> SUFFICES ASSUME IInv, AgreeInv, [Next]_vars, faults' = 0
               PROVE  AgreeInv'
    BY DEF AgreeInv
  <2> USE OrderOfType, NilAssumption DEF IInv, TypeOK, AgreeInv
  <2>0. faults \in Nat /\ ~Fault
    BY FaultsAssumption DEF Fault
  <2>1. ASSUME NEW o \in Orders,
               \/ Arrive(o) \/ Consume(o) \/ Record(o) \/ SaveFails(o) \/ PostRejected(o)
               \/ CreateDirectly(o)
        PROVE  AgreeInv'
    <3>1. CASE CreateEntry(o)
      <4>1. o \notin charged
        BY <3>1, <2>0 DEF CreateEntry
      <4> QED
        BY <3>1, <4>1 DEF CreateEntry, eventVars
    <3>2. CASE ~CreateEntry(o)
      BY <2>0, <2>1, <3>2
         DEF Arrive, Consume, SaveOrder, SaveAgain, SendPost, AckOrder, Record, StorePayment,
             CreateDirectly, PostAnswered, SaveFails, PostRejected, paymentVars, eventVars,
             orderVars
    <3> QED
      BY <3>1, <3>2
  <2>2. ASSUME NEW i \in Initiates, Initiate(i) \/ InitiateFails(i)
        PROVE  AgreeInv'
    BY <2>0, <2>2 DEF Initiate, FetchOrder, LookupPayment, StoreIntent, AnswerInitiate,
                      InitiateFails, eventVars, orderVars
  <2>3. ASSUME NEW v \in Verifies, Verify(v) \/ UpdateFails(v) \/ VerifyFails(v)
        PROVE  AgreeInv'
    <3>1. CASE FetchPayment(v)
      BY <3>1 DEF FetchPayment, FirstStep, eventVars, orderVars
    <3>2. CASE UpdateSucceeded(v)
      BY <3>2 DEF UpdateSucceeded, Charge, eventVars, orderVars
    <3>3. CASE PublishSucceeded(v)
      BY <3>3, <2>0 DEF PublishSucceeded, Send, orderVars
    <3>4. CASE ~FetchPayment(v) /\ ~UpdateSucceeded(v) /\ ~PublishSucceeded(v)
      BY <2>3, <3>4, <2>0 DEF Verify, MarkFailed, PublishFailed, UpdateFails, VerifyFails
    <3> QED
      BY <3>1, <3>2, <3>3, <3>4
  <2>4. ASSUME NEW v \in Verifies, Handle(v) \/ EventFails(v)
        PROVE  AgreeInv'
    <3>1. CASE ReadOrder(v)
      <4>1. order[OrderOf[v]] # Nil /\ key[v] = "succeeded"
        BY <3>1, <2>0 DEF ReadOrder, EventInv, LookedFirst
      <4>2. event'[v] \in {"ack", "write"} /\ (event'[v] = "ack" => order[OrderOf[v]] = "PAID")
        BY <3>1, <4>1 DEF ReadOrder, Skips
      <4> QED
        BY <3>1, <4>2 DEF ReadOrder, orderVars, paymentVars
    <3>2. CASE WriteOrder(v)
      <4>1. key[v] = "succeeded"
        BY <3>2, <2>0 DEF WriteOrder, EventInv
      <4> QED
        BY <3>2, <4>1 DEF WriteOrder, Settle, Outcome, paymentVars
    <3>3. CASE AckEvent(v)
      BY <3>3 DEF AckEvent, orderVars, paymentVars
    <3> QED
      BY <2>4, <2>0, <3>1, <3>2, <3>3 DEF Handle, EventFails
  <2>5. CASE OrderCrash \/ PaymentCrash
    BY <2>5, <2>0 DEF OrderCrash, PaymentCrash
  <2>6. CASE UNCHANGED vars
    BY <2>6 DEF vars, orderVars, paymentVars, eventVars
  <2> QED
    BY <2>1, <2>2, <2>3, <2>4, <2>5, <2>6 DEF Next, Work
<1>3. IInv /\ AgreeInv => Agreement
  <2> SUFFICES ASSUME IInv, AgreeInv, NEW o \in Orders, faults = 0, UnderWay(o) = {}
               PROVE  pay[o] = "SUCCEEDED" <=> order[o] = "PAID"
    BY DEF Agreement
  <2>1. ASSUME order[o] = "PAID"
        PROVE  pay[o] = "SUCCEEDED"
    BY <2>1 DEF IInv, PaidWasCharged, AgreeInv
  <2>2. ASSUME pay[o] = "SUCCEEDED"
        PROVE  order[o] = "PAID"
    <3>1. PICK v \in Verifies : OrderOf[v] = o /\ verify[v] \in {"publish", "VERIFIED"}
      BY <2>2 DEF IInv, ChargeFirst, AgreeInv
    <3>2. verify[v] = "VERIFIED" /\ event[v] \notin {"queued", "write", "ack"}
      BY <3>1 DEF UnderWay, Verifying
    <3>3. event[v] = "acked"
      BY <3>2 DEF IInv, TypeOK, AgreeInv
    <3> QED
      BY <3>1, <3>3 DEF AgreeInv
  <2> QED
    BY <2>1, <2>2
<1> QED
  BY <1>1, <1>2, <1>3, Invariant, PTL DEF Spec
=============================================================================
