SPECIFICATION Spec
CONSTANTS
    Orders = {o1}
    Sessions = {s1}
    Variants = {v1}
    Workers = {w1}
    Qty <- OneOfEach
    Opening <- ForOne
    Backorder = {}
    CouponSessions = {s1}
    CouponLimit = 1
    AdminTargets = {"PROCESSING"}
    Handlers = {"place", "reconcile"}
    MaxCrashes = 0
    None = None
SYMMETRY Interchangeable
CHECK_DEADLOCK FALSE
PROPERTY
    PaidAtProviderNeverExpires
