CONSTANTS
  o1 = o1
  i1 = i1
  i2 = i2
  v1 = v1
  v2 = v2
  Nil = Nil
  Orders <- MCOrders
  Initiates <- MCInitiates
  Verifies <- MCVerifies
  OrderOf <- MCOrderOf
  MaxFaults = 1
SPECIFICATION OwnRecordsSpec
CHECK_DEADLOCK FALSE
PROPERTY PaidStaysPaid
