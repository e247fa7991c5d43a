CONSTANTS
  o1 = o1
  i1 = i1
  i2 = i2
  v1 = v1
  v2 = v2
  Nil = Nil
  Orders <- MCOrders
  Initiates <- MCInitiates
  Verifies <- MCVerifies
  OrderOf <- MCOrderOf
  MaxFaults = 2
SPECIFICATION FairSpec
CHECK_DEADLOCK FALSE
INVARIANTS TypeOK PaidWasCharged CancelledHadFailure OutcomeNeedsOrder VerifiedWasCharged Agreement
PROPERTIES ImplementsOrderLife FailureRespectsPaid IntentStays EventSettled OrderGetsPayment VerifiedGetsPaid
