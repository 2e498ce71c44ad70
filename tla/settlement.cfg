SPECIFICATION SettlementSpec
CONSTANTS
  r1 = r1
  r2 = r2
  r3 = r3
  Refunds <- TwoRefunds
  Amount <- FourEach
  Paid = 10
  Transferred <- OneTransfer
  Executors = {e1, e2}
  Approvers = {e1}
  Reconcilers = {k1}
  MortalSteps <- SafeToDie
  MaxRefundCrashes = 1
  LocksOutliveCalls = TRUE
  ProviderMayFail = FALSE
  InboxEvents = {v1, v2}
  HandledEvents = {v1}
  InboxWorkers = {w1, w2}
  MaxReplays = 1
  MaxInboxCrashes = 1
INVARIANTS PartnersGiveOnce SettlementTypeOK HandledOncePerReplay
PROPERTIES LimboEnds InboxSettles
CHECK_DEADLOCK FALSE
