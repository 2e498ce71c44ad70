SPECIFICATION FairSpec
CONSTANTS
    Orders = {o1}
    Sessions = {s1}
    Variants = {v1}
    Workers = {w1, w2}
    Qty <- OneOfEach
    Opening <- ForOne
    Backorder = {}
    CouponSessions = {s1}
    CouponLimit = 1
    AdminTargets = {"PROCESSING"}
    Handlers = {"place", "placeCod", "confirm", "authorize", "fail", "expire", "reconcile", "cancel", "admin"}
    MaxCrashes = 0
    None = None
CHECK_DEADLOCK FALSE
INVARIANTS
    TypeOK
    HoldsAccounted
    SoldAtMostOnce
    NoHoldAfterRelease
    NoSlotLost
PROPERTY
    LegalMoves
    LapsedHoldsComeBack
    KeepsContract
