SPECIFICATION ServicesSpec
CONSTANTS
  q1 = q1
  q2 = q2
  q3 = q3
  t1 = t1
  t2 = t2
  t3 = t3
  t4 = t4
  n1 = n1
  n2 = n2
  n3 = n3
  n4 = n4
  p1 = p1
  p2 = p2
  \* Inventory
  Variants = {v1}
  MadeToOrder = {}
  Admins = {a1, a2}
  Deltas <- MCDeltas
  Targets <- MCTargets
  Quantities <- MCQuantities
  LowStock = 1
  Unchecked = Unchecked
  MaxMoves = 2
  MaxQty = 2
  MaxVersion = 2
  \* Shipments
  Lines = {l1, l2}
  Ordered <- OneOfEachLine
  MaxParcels = 2
  Desks = {d1}
  CourierFailures = {"TIMEOUT"}
  ByHand = {"PICKED_UP", "IN_TRANSIT", "CANCELLATION_REQUESTED"}
  Says = {"PICKED_UP", "DELIVERED", "RTO_INITIATED", "unknown"}
  CashOnDelivery = TRUE
  MaxShipmentCrashes = 1
  \* Returns
  ReturnIds = {r1, r2}
  UnitsSold = 2
  Clerks = {c1}
  RefundRows = {f1}
  MaxReturnCrashes = 1
  \* Idempotency
  Requests = {q1, q2, q3}
  Payload <- TwoAlike
  MaxExpiries = 1
  MaxRequestCrashes = 1
  \* TokenRotation
  Tokens = {t1, t2, t3}
  Root = t1
  Rotations = {w1, w2, w3}
  \* ListingReconciler
  Products = {p1, p2}
  Windows = {"ends", "begins"}
  CrossesAt <- CrossingTimes
  Reach <- Reaches
  WideWindows = {"begins"}
  Processes = {w1, w2}
  EndOfTime = 3
  MaxWrites = 1
  \* DocumentNumbers
  Takers = {n1, n2, n3, n4}
  Series = {"orders", "invoices"}
  SeriesOf <- ThreeShare
  MaxAttempts = 2
  \* AdminRoster
  Accounts = {a1, a2}
  Founder = a1
  Managers = {m1, m2}
  \* CategoryTree
  Categories = {c1, c2, c3}
  Editors = {e1}
  DepthCap = 3
  Renamable = {c1, c2}
  Stocked = {c2}
  Strategies = {"BLOCK", "REASSIGN_CHILDREN", "CASCADE_SOFT"}
  MayRestore = FALSE
  \* Cart
  Configurations = {k1}
  CeilingOf <- OnePiece
  AvailableOf <- SoldOut
  MaxLines = 1
  Tabs = {b1, b2}
  CartTasks = {"add", "set", "remove", "fix", "merge"}
  Additions = {1}
  MaxClicks = 2
  MaxCarts = 2
  MaxCartCrashes = 0
  \* SharedCache
  CacheWorkers = {w1, w2}
  SweepSlots = {1, 2}
  SweepsFail = "alone"
  MaxVersions = 2
  MaxEpochs = 2
INVARIANTS
  ServicesTypeOK
  LedgerIsRunningTotal
  NeverOverShipped OrderFollowsParcels OneOrderAtCourier
  NeverOverReturned WaitsForGoods
  OneRequestPerKey
  OneLiveToken RevokedStaysDead
  WatermarkCovers RebuildHonoured
  GaplessSeries
  SuperAdminRemains
  PathsFollowParents
  LinesWithinCeiling
  NoStaleEntry
PROPERTIES
  MovesKeepFloor
VIEW MovingState
SYMMETRY AlikeReturns
CHECK_DEADLOCK FALSE
