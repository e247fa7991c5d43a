CONSTANTS
  ann = ann
  bob = bob
  r1 = r1
  r2 = r2
  r3 = r3
  s1 = s1
  Nil = Nil
  Users <- MCUsers
  Requests <- MCRequests
  Sales <- MCSales
  UserOf <- MCUserOf
  InitialOf <- MCInitialOf
  BaseOf <- MCBaseOf
  Initiates <- MCInitiates
  Verifies <- MCVerifies
  OrderOf <- MCOrderOf
  MaxFaults = 0
  MaxFailures = 0
SPECIFICATION LiveSpec
SYMMETRY Symmetry
CHECK_DEADLOCK FALSE
INVARIANTS NeverOversold OneOpenOrder WaitingHasOrder
