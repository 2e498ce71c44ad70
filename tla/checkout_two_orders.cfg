SPECIFICATION Spec
CONSTANTS
    Orders = {o1, o2}
    Sessions = {s1, s2}
    Variants = {v1, v2}
    Workers = {w1, w2}
    Qty <- OneOfEach
    Opening <- SecondScarce
    Backorder = {}
    CouponSessions = {s1, s2}
    CouponLimit = 1
    AdminTargets = {"CONFIRMED"}
    Handlers = {"place", "placeCod", "confirm", "admin"}
    MaxCrashes = 1
    None = None
SYMMETRY Interchangeable
CHECK_DEADLOCK FALSE
INVARIANTS
    StockFloor
    CommittedMeansPaid
