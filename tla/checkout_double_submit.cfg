SPECIFICATION Spec
CONSTANTS
    Orders = {o1, o2}
    Sessions = {s1}
    Variants = {v1}
    Workers = {w1, w2}
    Qty <- OneOfEach
    Opening <- ForTwo
    Backorder = {}
    CouponSessions = {s1}
    CouponLimit = 1
    AdminTargets = {"PROCESSING"}
    Handlers = {"place"}
    MaxCrashes = 0
    None = None
SYMMETRY Interchangeable
CHECK_DEADLOCK FALSE
INVARIANT
    OneOrderPerSession
