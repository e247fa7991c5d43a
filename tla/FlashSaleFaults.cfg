CONSTANTS
  ann = ann
  bob = bob
  r1 = r1
  r2 = r2
  r3 = r3
  s1 = s1
  s2 = s2
  Nil = Nil
  Users <- MCOneUser
  Requests <- MCTwoRequests
  Sales <- MCTwoSales
  UserOf <- MCUserOf
  InitialOf <- MCInitialOf
  BaseOf <- MCBaseOf
  MaxFaults = 1
SPECIFICATION RestartSpec
SYMMETRY MCSymmetry
CHECK_DEADLOCK FALSE
PROPERTY ImplementsReservations
INVARIANTS StockLedger OneReservationPerUser SuccessIsPublished
