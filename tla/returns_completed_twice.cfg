SPECIFICATION ReturnsSpec
CONSTANTS
  ReturnIds = {t1}
  UnitsSold = 2
  Clerks = {c1}
  RefundRows = {f1, f2}
  MaxReturnCrashes = 0
INVARIANT RefundedOnce
CHECK_DEADLOCK FALSE
