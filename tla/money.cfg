SPECIFICATION AllMoneySpec
CONSTANTS
  r1 = r1
  r2 = r2
  r3 = r3
  Refunds <- ThreeRefunds
  Amount <- FourEach
  Paid = 10
  Transferred <- OneTransfer
  Executors = {e1, e2}
  Approvers = {e1}
  Reconcilers = {k1}
  MortalSteps <- SafeToDie
  MaxRefundCrashes = 1
  LocksOutliveCalls = TRUE
  ProviderMayFail = FALSE
  Orders = {o1, o2}
  Sessions = {s1, s2}
  Variants = {v1}
  Workers = {w1, w2}
  Qty <- OneOfEach
  Opening <- ForTwo
  Backorder = {}
  CouponSessions = {s1, s2}
  CouponLimit = 1
  AdminTargets = {"PROCESSING"}
  Handlers = {"place", "placeCod"}
  MaxCrashes = 1
  None = None
  Baskets <- AwkwardBaskets
  MaxRefundRows = 3
  MaxAwaiting = 1
  Sales <- MCSales
  Retriers = {a1}
  LostAnswers = FALSE
  MortalPayers = {"payer"}
  MaxPayoutCrashes = 1
INVARIANTS
  NeverOverRefunded BooksBalance OneWorkerActs
  CouponSlotsAccounted
  OrderMoneyAddsUp
  PartnersPaidOnce
PROPERTIES
  OnlyReconciliationResolves
SYMMETRY AlikeRefunds
CHECK_DEADLOCK FALSE
