CONSTANTS
  ann = ann
  bob = bob
  r1 = r1
  r2 = r2
  r3 = r3
  s1 = s1
  s2 = s2
  Nil = Nil
  Users <- MCUsers
  Requests <- MCRequests
  Sales <- MCSales
  UserOf <- MCUserOf
  InitialOf <- MCInitialOf
  BaseOf <- MCBaseOf
  MaxFaults = 0
SPECIFICATION Spec
CHECK_DEADLOCK FALSE
INVARIANT SoldOutTookNothing
