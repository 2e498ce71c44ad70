SPECIFICATION RefundsSpec
CONSTANTS
  r1 = r1
  r2 = r2
  r3 = r3
  Refunds <- TwoRefunds
  Amount <- FiveEach
  Paid = 9
  Transferred <- NoTransfer
  Executors = {e1}
  Approvers = {e1}
  Reconcilers = {k1, k2}
  MortalSteps <- SafeToDie
  MaxRefundCrashes = 0
  LocksOutliveCalls = TRUE
  ProviderMayFail = FALSE
INVARIANT NeverOverRefunded
CHECK_DEADLOCK FALSE
