CONSTANTS
  q1 = q1
  q2 = q2
  v1 = v1
  v2 = v2
  a = a
  b = b
  Nil = Nil
  Requests <- MCRequests
  Verifies <- MCVerifies
  Codes <- MCCodes
  OtpOf <- MCOtpOf
  SendLimit = 1
  AttemptLimit = 1
  MaxFaults = 1
SPECIFICATION MCSpec
CHECK_DEADLOCK FALSE
INVARIANTS TypeOK SendsLimited AttemptsLimited SecondUseNeedsOverlap SentCodeStays CountersEnd
PROPERTIES LimitsLift
