SPECIFICATION MoneySpec
CONSTANTS
  Baskets <- AwkwardBaskets
  MaxRefundRows = 2
  MaxAwaiting = 2
INVARIANT LineRefundedOnce
CHECK_DEADLOCK FALSE
