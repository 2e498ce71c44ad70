----------------------------- MODULE CheckoutProofs -----------------------------
(***************************************************************************)
(* Type correctness of Checkout, the stock floor and the legality of every *)
(* status change, for all carts, stocks, workers and handlers. After it,   *)
(* as long as administrators only move orders that are committed already:  *)
(* no order is decided while it holds stock, and Checkout implements       *)
(* OrderContract; and without that condition: only paid orders and cash    *)
(* orders are committed.                                                   *)
(***************************************************************************)
EXTENDS CheckoutInvariant, TLAPS

\* What a step of one worker leaves alone.
OnlyJobOf(w) ==
    \A x \in Workers : x # w =>
       /\ pc'[x] = pc[x] /\ task'[x] = task[x] /\ cur'[x] = cur[x]
       /\ todo'[x] = todo[x] /\ seen'[x] = seen[x]

OrdersStay == \A o \in Orders : status[o] # "NONE" => status'[o] # "NONE"

\* A step of a worker keeps the shape if it keeps the types, its own job and the
\* existence of the orders.
LEMMA ShapeFromParts ==
    ASSUME Shape, NEW w \in Workers, RecordType', OutsideType', JobType',
           Placed', ControlOf(w)', OnlyJobOf(w), OrdersStay
    PROVE  Shape'
BY DEF Shape, ControlOf, TaskOK, OnlyJobOf, OrdersStay

LEMMA NoTaskType == NoTask \in Task
BY DEF NoTask, Task, Ops

LEMMA JobIsTask ==
    ASSUME NEW op \in Ops, NEW o \in Orders
    PROVE  Job(op, o) \in Task
BY DEF Job, Task

LEMMA NoSnapshotType == NoSnapshot \in Snapshots
BY DEF NoSnapshot, Snapshots, OrderStatuses, PaymentStatuses

LEMMA SnapshotType ==
    ASSUME RecordType, NEW o \in Orders, status[o] # "NONE"
    PROVE  Snapshot(o) \in Snapshots
<1>1. status[o] \in OrderStatuses /\ payStatus[o] \in PaymentStatuses /\ paid[o] \in BOOLEAN
  BY DEF RecordType
<1> QED
  BY <1>1 DEF Snapshot, Snapshots

\* The end of a job.
LEMMA FinishKeeps ==
    ASSUME JobType, NEW w \in Workers, Finish(w)
    PROVE  JobType' /\ OnlyJobOf(w) /\ pc'[w] = "idle" /\ task'[w] = NoTask
BY NoTaskType, NoSnapshotType DEF Finish, Goto, JobType, OnlyJobOf, Steps

\* A job that ends without having written anything.
LEMMA FinishWithoutWriting ==
    ASSUME Shape, NEW w \in Workers, Finish(w), UNCHANGED <<database, others>>
    PROVE  Shape'
<1>1. JobType' /\ OnlyJobOf(w) /\ pc'[w] = "idle" /\ task'[w] = NoTask
  BY FinishKeeps DEF Shape
<1>2. ControlOf(w)'
  BY <1>1 DEF ControlOf, OpAt, TaskOK, PlacingOps, NoTask
<1>3. RecordType' /\ OutsideType' /\ Placed' /\ OrdersStay
  BY DEF Shape, RecordType, OutsideType, Placed, OrdersStay, database, stockVars, orderVars, couponVars,
     paymentVars, sessionVars, others
<1> QED
  BY <1>1, <1>2, <1>3, ShapeFromParts

LEMMA CreateKeeps ==
    ASSUME Shape, NEW w \in Workers, Create(w)
    PROVE  Shape'
<1> USE CheckoutAssumption DEF At, Goto, Ord, stockVars, couponVars, paymentVars, sessionVars,
        others, Lines
<1>1. ControlOf(w) /\ Ord(w) \in Orders
  BY DEF Create, Shape, ControlOf, OpAt, TaskOK, PlacingOps, HoldOps
<1>2. RecordType' /\ OutsideType'
  BY <1>1 DEF Create, Shape, RecordType, OutsideType, JobType, Task, Ops, ControlOf, OpAt, TaskOK,
     OrderStatuses, PaymentStatuses, HoldStatuses, RedemptionStatuses
<1>3. JobType'
  BY <1>1, NoSnapshotType DEF Create, Shape, JobType, Steps
<1>4. Placed' /\ OrdersStay
  BY <1>1, <1>2 DEF Create, Shape, RecordType, JobType, Placed, OrdersStay, ControlOf, OpAt,
     TaskOK, PlacingOps, HoldOps
<1>5. ControlOf(w)'
  BY <1>1, <1>2, <1>4 DEF Create, Shape, JobType, RecordType, ControlOf, OpAt, TaskOK, PlacingOps,
     HoldOps, OrdersStay
<1>6. OnlyJobOf(w)
  BY DEF Create, OnlyJobOf, Shape, JobType
<1> QED
  BY <1>2, <1>3, <1>4, <1>5, <1>6, ShapeFromParts

LEMMA ReserveItemKeeps ==
    ASSUME Shape, NEW w \in Workers, ReserveItem(w)
    PROVE  Shape'
<1> USE CheckoutAssumption DEF At, Goto, Ord, orderVars, couponVars, paymentVars, sessionVars,
        others, Active
<1>1. ControlOf(w) /\ Ord(w) \in Orders
  BY DEF ReserveItem, Shape, ControlOf, OpAt, TaskOK, PlacingOps, HoldOps
<1>2. RecordType' /\ OutsideType'
  BY <1>1 DEF ReserveItem, Shape, RecordType, OutsideType, JobType, Task, Ops, ControlOf, OpAt,
     TaskOK, OrderStatuses, PaymentStatuses, HoldStatuses, RedemptionStatuses
<1>3. JobType'
  <2>1. pc' \in [Workers -> Steps]
    BY <1>1 DEF ReserveItem, Shape, JobType, Steps
  <2>2. task' \in [Workers -> Task]
    BY <1>1 DEF ReserveItem, Shape, JobType, Task, Ops
  <2>3. todo' \in [Workers -> SUBSET Variants]
    BY <1>1 DEF ReserveItem, Shape, JobType
  <2>4. cur' \in [Workers -> Variants \cup {None}]
    BY <1>1 DEF ReserveItem, Shape, JobType
  <2>5. seen' \in [Workers -> Snapshots]
    BY <1>1 DEF ReserveItem, Shape, JobType, RecordType, OrderStatuses, PaymentStatuses,
       HoldStatuses, RedemptionStatuses
  <2> QED
    BY <2>1, <2>2, <2>3, <2>4, <2>5 DEF JobType
<1>4. Placed' /\ OrdersStay
  BY <1>1, <1>2 DEF ReserveItem, Shape, RecordType, JobType, Placed, OrdersStay, ControlOf, OpAt,
     TaskOK, PlacingOps, HoldOps
<1>5. ControlOf(w)'
  BY <1>1, <1>4 DEF ReserveItem, Shape, JobType, ControlOf, OpAt, TaskOK, PlacingOps, HoldOps,
     OrdersStay
<1>6. OnlyJobOf(w)
  BY DEF ReserveItem, OnlyJobOf, Shape, JobType
<1> QED
  BY <1>2, <1>3, <1>4, <1>5, <1>6, ShapeFromParts

LEMMA WriteReservationKeeps ==
    ASSUME Shape, NEW w \in Workers, WriteReservation(w)
    PROVE  Shape'
<1> USE CheckoutAssumption DEF At, Goto, Ord, stockVars, orderVars, couponVars, paymentVars,
        sessionVars, others
<1>1. ControlOf(w) /\ Ord(w) \in Orders
  BY DEF WriteReservation, Shape, ControlOf, OpAt, TaskOK, PlacingOps, HoldOps
<1>2. RecordType' /\ OutsideType'
  BY <1>1 DEF WriteReservation, Shape, RecordType, OutsideType, JobType, Task, Ops, ControlOf,
     OpAt, TaskOK, OrderStatuses, PaymentStatuses, HoldStatuses, RedemptionStatuses
<1>3. JobType'
  BY <1>1 DEF WriteReservation, Shape, JobType, Steps, Task, Ops, RecordType, OrderStatuses,
     PaymentStatuses, HoldStatuses, RedemptionStatuses
<1>4. Placed' /\ OrdersStay
  BY <1>1, <1>2 DEF WriteReservation, Shape, RecordType, JobType, Placed, OrdersStay, ControlOf,
     OpAt, TaskOK, PlacingOps, HoldOps
<1>5. ControlOf(w)'
  BY <1>1, <1>4 DEF WriteReservation, Shape, JobType, ControlOf, OpAt, TaskOK, PlacingOps,
     HoldOps, OrdersStay
<1>6. OnlyJobOf(w)
  BY DEF WriteReservation, OnlyJobOf, Shape, JobType
<1> QED
  BY <1>2, <1>3, <1>4, <1>5, <1>6, ShapeFromParts

LEMMA ReserveCouponKeeps ==
    ASSUME Shape, NEW w \in Workers, ReserveCoupon(w)
    PROVE  Shape'
<1> USE CheckoutAssumption DEF At, Goto, Ord, stockVars, orderVars, couponVars, paymentVars,
        sessionVars, others, Active
<1>1. ControlOf(w) /\ Ord(w) \in Orders
  BY DEF ReserveCoupon, Shape, ControlOf, OpAt, TaskOK, PlacingOps, HoldOps
<1>2. RecordType' /\ OutsideType'
  <2>1. usedCount' \in Nat
    BY <1>1 DEF ReserveCoupon, Shape, RecordType, JobType, HoldStatuses, RedemptionStatuses
  <2>2. redemption' \in [Orders -> RedemptionStatuses]
    BY <1>1 DEF ReserveCoupon, Shape, RecordType, JobType, HoldStatuses, RedemptionStatuses
  <2> QED
    BY <2>1, <2>2 DEF ReserveCoupon, Shape, RecordType, OutsideType
<1>3. JobType'
  <2>1. pc' \in [Workers -> Steps]
    BY <1>1 DEF ReserveCoupon, Shape, JobType, Steps
  <2>2. task' \in [Workers -> Task]
    BY <1>1 DEF ReserveCoupon, Shape, JobType, Task, Ops
  <2>3. todo' \in [Workers -> SUBSET Variants]
    BY <1>1 DEF ReserveCoupon, Shape, JobType
  <2>4. cur' \in [Workers -> Variants \cup {None}]
    BY <1>1 DEF ReserveCoupon, Shape, JobType
  <2>5. seen' \in [Workers -> Snapshots]
    BY <1>1 DEF ReserveCoupon, Shape, JobType, RecordType, OrderStatuses, PaymentStatuses,
       HoldStatuses, RedemptionStatuses
  <2> QED
    BY <2>1, <2>2, <2>3, <2>4, <2>5 DEF JobType
<1>4. Placed' /\ OrdersStay
  BY <1>1, <1>2 DEF ReserveCoupon, Shape, RecordType, JobType, Placed, OrdersStay, ControlOf,
     OpAt, TaskOK, PlacingOps, HoldOps
<1>5. ControlOf(w)'
  BY <1>1, <1>4 DEF ReserveCoupon, Shape, JobType, ControlOf, OpAt, TaskOK, PlacingOps, HoldOps,
     OrdersStay
<1>6. OnlyJobOf(w)
  BY DEF ReserveCoupon, OnlyJobOf, Shape, JobType
<1> QED
  BY <1>2, <1>3, <1>4, <1>5, <1>6, ShapeFromParts

LEMMA UndoReserveKeeps ==
    ASSUME Shape, NEW w \in Workers, UndoReserve(w)
    PROVE  Shape'
<1> USE CheckoutAssumption DEF At, Goto, Ord, orderVars, couponVars, paymentVars, sessionVars,
        others
<1>1. ControlOf(w) /\ Ord(w) \in Orders
  BY DEF UndoReserve, Shape, ControlOf, OpAt, TaskOK, PlacingOps, HoldOps
<1>2. RecordType' /\ OutsideType'
  BY <1>1 DEF UndoReserve, Shape, RecordType, OutsideType, JobType, Task, Ops, ControlOf, OpAt,
     TaskOK, OrderStatuses, PaymentStatuses, HoldStatuses, RedemptionStatuses
<1>3. JobType'
  BY <1>1 DEF UndoReserve, Shape, JobType, Steps, Task, Ops, RecordType, OrderStatuses,
     PaymentStatuses, HoldStatuses, RedemptionStatuses
<1>4. Placed' /\ OrdersStay
  BY <1>1, <1>2 DEF UndoReserve, Shape, RecordType, JobType, Placed, OrdersStay, ControlOf, OpAt,
     TaskOK, PlacingOps, HoldOps
<1>5. ControlOf(w)'
  BY <1>1, <1>4 DEF UndoReserve, Shape, JobType, ControlOf, OpAt, TaskOK, PlacingOps, HoldOps,
     OrdersStay
<1>6. OnlyJobOf(w)
  BY DEF UndoReserve, OnlyJobOf, Shape, JobType
<1> QED
  BY <1>2, <1>3, <1>4, <1>5, <1>6, ShapeFromParts

LEMMA UndoRowsKeeps ==
    ASSUME Shape, NEW w \in Workers, UndoRows(w)
    PROVE  Shape'
<1> USE CheckoutAssumption DEF At, Ord, stockVars, orderVars, couponVars, paymentVars,
        sessionVars, others
<1>1. ControlOf(w) /\ Ord(w) \in Orders
  BY DEF UndoRows, Shape, ControlOf, OpAt, TaskOK, PlacingOps, HoldOps
<1>2. RecordType' /\ OutsideType'
  BY <1>1 DEF UndoRows, Shape, RecordType, OutsideType, JobType, Task, Ops, ControlOf, OpAt,
     TaskOK, OrderStatuses, PaymentStatuses, HoldStatuses, RedemptionStatuses
<1>3. JobType' /\ OnlyJobOf(w) /\ pc'[w] = "idle" /\ task'[w] = NoTask
  BY FinishKeeps DEF UndoRows, Shape
<1>4. Placed' /\ OrdersStay
  BY <1>1, <1>2 DEF UndoRows, Shape, RecordType, JobType, Placed, OrdersStay, ControlOf, OpAt,
     TaskOK, PlacingOps, HoldOps
<1>5. ControlOf(w)'
  BY <1>3 DEF ControlOf, OpAt, TaskOK, PlacingOps, NoTask
<1> QED
  BY <1>2, <1>3, <1>4, <1>5, ShapeFromParts

LEMMA AttachSessionKeeps ==
    ASSUME Shape, NEW w \in Workers, AttachSession(w)
    PROVE  Shape'
<1> USE CheckoutAssumption DEF At, Goto, Ord, stockVars, orderVars, couponVars, paymentVars,
        others
<1>1. ControlOf(w) /\ Ord(w) \in Orders
  BY DEF AttachSession, Shape, ControlOf, OpAt, TaskOK, PlacingOps, HoldOps
<1>2. RecordType' /\ OutsideType'
  BY <1>1 DEF AttachSession, Shape, RecordType, OutsideType, JobType, Task, Ops, ControlOf, OpAt,
     TaskOK, OrderStatuses, PaymentStatuses, HoldStatuses, RedemptionStatuses
<1>3. JobType'
  BY <1>1 DEF AttachSession, Shape, JobType, Steps, Task, Ops, RecordType, OrderStatuses,
     PaymentStatuses, HoldStatuses, RedemptionStatuses
<1>4. Placed' /\ OrdersStay
  BY <1>1, <1>2 DEF AttachSession, Shape, RecordType, JobType, Placed, OrdersStay, ControlOf,
     OpAt, TaskOK, PlacingOps, HoldOps
<1>5. ControlOf(w)'
  BY <1>1, <1>4 DEF AttachSession, Shape, JobType, ControlOf, OpAt, TaskOK, PlacingOps, HoldOps,
     OrdersStay
<1>6. OnlyJobOf(w)
  BY DEF AttachSession, OnlyJobOf, Shape, JobType
<1> QED
  BY <1>2, <1>3, <1>4, <1>5, <1>6, ShapeFromParts

LEMMA ProviderAcceptsKeeps ==
    ASSUME Shape, NEW w \in Workers, ProviderAccepts(w)
    PROVE  Shape'
<1> USE CheckoutAssumption DEF At, Goto, Ord, database, stockVars, orderVars, couponVars,
        paymentVars, sessionVars
<1>1. ControlOf(w) /\ Ord(w) \in Orders
  BY DEF ProviderAccepts, Shape, ControlOf, OpAt, TaskOK, PlacingOps, HoldOps
<1>2. RecordType' /\ OutsideType'
  BY <1>1 DEF ProviderAccepts, Shape, RecordType, OutsideType, JobType, Task, Ops, ControlOf,
     OpAt, TaskOK, OrderStatuses, PaymentStatuses, HoldStatuses, RedemptionStatuses
<1>3. JobType'
  BY <1>1 DEF ProviderAccepts, Shape, JobType, Steps, Task, Ops, RecordType, OrderStatuses,
     PaymentStatuses, HoldStatuses, RedemptionStatuses
<1>4. Placed' /\ OrdersStay
  BY <1>1, <1>2 DEF ProviderAccepts, Shape, RecordType, JobType, Placed, OrdersStay, ControlOf,
     OpAt, TaskOK, PlacingOps, HoldOps
<1>5. ControlOf(w)'
  BY <1>1, <1>4 DEF ProviderAccepts, Shape, JobType, ControlOf, OpAt, TaskOK, PlacingOps, HoldOps,
     OrdersStay
<1>6. OnlyJobOf(w)
  BY DEF ProviderAccepts, OnlyJobOf, Shape, JobType
<1> QED
  BY <1>2, <1>3, <1>4, <1>5, <1>6, ShapeFromParts

LEMMA ProviderRefusesKeeps ==
    ASSUME Shape, NEW w \in Workers, ProviderRefuses(w)
    PROVE  Shape'
<1> USE CheckoutAssumption DEF At, Goto, Ord, database, stockVars, orderVars, couponVars,
        paymentVars, sessionVars, others
<1>1. ControlOf(w) /\ Ord(w) \in Orders
  BY DEF ProviderRefuses, Shape, ControlOf, OpAt, TaskOK, PlacingOps, HoldOps
<1>2. RecordType' /\ OutsideType'
  BY <1>1 DEF ProviderRefuses, Shape, RecordType, OutsideType, JobType, Task, Ops, ControlOf,
     OpAt, TaskOK, OrderStatuses, PaymentStatuses, HoldStatuses, RedemptionStatuses
<1>3. JobType'
  BY <1>1, JobIsTask DEF ProviderRefuses, Shape, JobType, Steps, Ops
<1>4. Placed' /\ OrdersStay
  BY <1>1, <1>2 DEF ProviderRefuses, Shape, RecordType, JobType, Placed, OrdersStay, ControlOf,
     OpAt, TaskOK, PlacingOps, HoldOps
<1>5. ControlOf(w)'
  BY <1>1, <1>4 DEF ProviderRefuses, Shape, JobType, ControlOf, OpAt, TaskOK, PlacingOps, HoldOps, OrdersStay, Job
<1>6. OnlyJobOf(w)
  BY DEF ProviderRefuses, OnlyJobOf, Shape, JobType
<1> QED
  BY <1>2, <1>3, <1>4, <1>5, <1>6, ShapeFromParts

LEMMA WritePaymentKeeps ==
    ASSUME Shape, NEW w \in Workers, WritePayment(w)
    PROVE  Shape'
<1> USE CheckoutAssumption DEF At, Ord, stockVars, orderVars, couponVars, sessionVars, others
<1>1. ControlOf(w) /\ Ord(w) \in Orders
  BY DEF WritePayment, Shape, ControlOf, OpAt, TaskOK, PlacingOps, HoldOps
<1>2. RecordType' /\ OutsideType'
  BY <1>1 DEF WritePayment, Shape, RecordType, OutsideType, JobType, Task, Ops, ControlOf, OpAt,
     TaskOK, OrderStatuses, PaymentStatuses, HoldStatuses, RedemptionStatuses
<1>3. JobType' /\ OnlyJobOf(w) /\ pc'[w] = "idle" /\ task'[w] = NoTask
  BY FinishKeeps DEF WritePayment, Shape
<1>4. Placed' /\ OrdersStay
  BY <1>1, <1>2 DEF WritePayment, Shape, RecordType, JobType, Placed, OrdersStay, ControlOf, OpAt,
     TaskOK, PlacingOps, HoldOps
<1>5. ControlOf(w)'
  BY <1>3 DEF ControlOf, OpAt, TaskOK, PlacingOps, NoTask
<1> QED
  BY <1>2, <1>3, <1>4, <1>5, ShapeFromParts

LEMMA WriteCodPaymentKeeps ==
    ASSUME Shape, NEW w \in Workers, WriteCodPayment(w)
    PROVE  Shape'
<1> USE CheckoutAssumption DEF At, Goto, Ord, stockVars, orderVars, couponVars, sessionVars,
        others
<1>1. ControlOf(w) /\ Ord(w) \in Orders
  BY DEF WriteCodPayment, Shape, ControlOf, OpAt, TaskOK, PlacingOps, HoldOps
<1>2. RecordType' /\ OutsideType'
  BY <1>1 DEF WriteCodPayment, Shape, RecordType, OutsideType, JobType, Task, Ops, ControlOf,
     OpAt, TaskOK, OrderStatuses, PaymentStatuses, HoldStatuses, RedemptionStatuses
<1>3. JobType'
  BY <1>1 DEF WriteCodPayment, Shape, JobType, Steps, Task, Ops, RecordType, OrderStatuses,
     PaymentStatuses, HoldStatuses, RedemptionStatuses
<1>4. Placed' /\ OrdersStay
  BY <1>1, <1>2 DEF WriteCodPayment, Shape, RecordType, JobType, Placed, OrdersStay, ControlOf,
     OpAt, TaskOK, PlacingOps, HoldOps
<1>5. ControlOf(w)'
  BY <1>1, <1>4 DEF WriteCodPayment, Shape, JobType, ControlOf, OpAt, TaskOK, PlacingOps, HoldOps,
     OrdersStay
<1>6. OnlyJobOf(w)
  BY DEF WriteCodPayment, OnlyJobOf, Shape, JobType
<1> QED
  BY <1>2, <1>3, <1>4, <1>5, <1>6, ShapeFromParts

LEMMA ListHoldsKeeps ==
    ASSUME Shape, NEW w \in Workers, ListHolds(w)
    PROVE  Shape'
<1> USE CheckoutAssumption DEF At, Goto, Ord, database, stockVars, orderVars, couponVars,
        paymentVars, sessionVars, others, Active
<1>1. ControlOf(w) /\ Ord(w) \in Orders
  BY DEF ListHolds, Shape, ControlOf, OpAt, TaskOK, PlacingOps, HoldOps
<1>2. RecordType' /\ OutsideType'
  BY <1>1 DEF ListHolds, Shape, RecordType, OutsideType, JobType, Task, Ops, ControlOf, OpAt,
     TaskOK, OrderStatuses, PaymentStatuses, HoldStatuses, RedemptionStatuses
<1>3. JobType'
  BY <1>1 DEF ListHolds, Shape, JobType, Steps, Task, Ops, RecordType, OrderStatuses,
     PaymentStatuses, HoldStatuses, RedemptionStatuses
<1>4. Placed' /\ OrdersStay
  BY <1>1, <1>2 DEF ListHolds, Shape, RecordType, JobType, Placed, OrdersStay, ControlOf, OpAt,
     TaskOK, PlacingOps, HoldOps
<1>5. ControlOf(w)'
  BY <1>1, <1>4 DEF ListHolds, Shape, JobType, ControlOf, OpAt, TaskOK, PlacingOps, HoldOps,
     OrdersStay
<1>6. OnlyJobOf(w)
  BY DEF ListHolds, OnlyJobOf, Shape, JobType
<1> QED
  BY <1>2, <1>3, <1>4, <1>5, <1>6, ShapeFromParts

LEMMA SettleHoldKeeps ==
    ASSUME Shape, NEW w \in Workers, SettleHold(w)
    PROVE  Shape'
<1> USE CheckoutAssumption DEF At, Goto, Ord, stockVars, orderVars, couponVars, paymentVars,
        sessionVars, others, NextHold
<1>1. ControlOf(w) /\ Ord(w) \in Orders
  BY DEF SettleHold, Shape, ControlOf, OpAt, TaskOK, PlacingOps, HoldOps
<1>2. RecordType' /\ OutsideType'
  <2>1. hold' \in [Orders -> [Variants -> HoldStatuses]]
    <3>1. hold' = hold \/ \E v \in Variants : hold' = [hold EXCEPT ![Ord(w)][v] = SettledAs(w)]
      BY <1>1 DEF SettleHold, Shape, JobType
    <3>2. SettledAs(w) \in HoldStatuses
      BY DEF SettledAs, HoldStatuses
    <3>3. ASSUME NEW v \in Variants, hold' = [hold EXCEPT ![Ord(w)][v] = SettledAs(w)]
          PROVE  hold' \in [Orders -> [Variants -> HoldStatuses]]
      BY <1>1, <3>2, <3>3 DEF Shape, RecordType
    <3> QED
      BY <3>1, <3>3 DEF Shape, RecordType
  <2> QED
    BY <2>1 DEF SettleHold, Shape, RecordType, OutsideType
<1>3. JobType'
  <2>1. pc' \in [Workers -> Steps]
    BY <1>1 DEF SettleHold, Shape, JobType, Steps
  <2>2. task' \in [Workers -> Task]
    BY <1>1 DEF SettleHold, Shape, JobType, Task, Ops
  <2>3. todo' \in [Workers -> SUBSET Variants]
    BY <1>1 DEF SettleHold, Shape, JobType
  <2>4. cur' \in [Workers -> Variants \cup {None}]
    BY <1>1 DEF SettleHold, Shape, JobType
  <2>5. seen' \in [Workers -> Snapshots]
    BY <1>1 DEF SettleHold, Shape, JobType, RecordType, OrderStatuses, PaymentStatuses,
       HoldStatuses, RedemptionStatuses
  <2> QED
    BY <2>1, <2>2, <2>3, <2>4, <2>5 DEF JobType
<1>4. Placed' /\ OrdersStay
  BY <1>1, <1>2 DEF SettleHold, Shape, RecordType, JobType, Placed, OrdersStay, ControlOf, OpAt,
     TaskOK, PlacingOps, HoldOps
<1>5. ControlOf(w)'
  BY <1>1, <1>4 DEF SettleHold, Shape, JobType, ControlOf, OpAt, TaskOK, PlacingOps, HoldOps,
     OrdersStay
<1>6. OnlyJobOf(w)
  BY DEF SettleHold, OnlyJobOf, Shape, JobType
<1> QED
  BY <1>2, <1>3, <1>4, <1>5, <1>6, ShapeFromParts

LEMMA GiveBackKeeps ==
    ASSUME Shape, NEW w \in Workers, GiveBack(w)
    PROVE  Shape'
<1> USE CheckoutAssumption DEF At, Goto, Ord, orderVars, couponVars, paymentVars, sessionVars,
        others, NextHold, Commits
<1>1. ControlOf(w) /\ Ord(w) \in Orders
  BY DEF GiveBack, Shape, ControlOf, OpAt, TaskOK, PlacingOps, HoldOps
<1>2. RecordType' /\ OutsideType'
  BY <1>1 DEF GiveBack, Shape, RecordType, OutsideType, JobType, Task, Ops, ControlOf, OpAt,
     TaskOK, OrderStatuses, PaymentStatuses, HoldStatuses, RedemptionStatuses
<1>3. JobType'
  <2>1. pc' \in [Workers -> Steps]
    BY SMTT(30), <1>1 DEF GiveBack, Shape, JobType, Steps
  <2>2. task' \in [Workers -> Task]
    BY <1>1 DEF GiveBack, Shape, JobType, Task, Ops
  <2>3. todo' \in [Workers -> SUBSET Variants]
    BY <1>1 DEF GiveBack, Shape, JobType
  <2>4. cur' \in [Workers -> Variants \cup {None}]
    BY <1>1 DEF GiveBack, Shape, JobType
  <2>5. seen' \in [Workers -> Snapshots]
    BY <1>1 DEF GiveBack, Shape, JobType, RecordType, OrderStatuses, PaymentStatuses,
       HoldStatuses, RedemptionStatuses
  <2> QED
    BY <2>1, <2>2, <2>3, <2>4, <2>5 DEF JobType
<1>4. Placed' /\ OrdersStay
  BY <1>1, <1>2 DEF GiveBack, Shape, RecordType, JobType, Placed, OrdersStay, ControlOf, OpAt,
     TaskOK, PlacingOps, HoldOps
<1>5. ControlOf(w)'
  BY <1>1, <1>4 DEF GiveBack, Shape, JobType, ControlOf, OpAt, TaskOK, PlacingOps, HoldOps,
     OrdersStay
<1>6. OnlyJobOf(w)
  BY DEF GiveBack, OnlyJobOf, Shape, JobType
<1> QED
  BY <1>2, <1>3, <1>4, <1>5, <1>6, ShapeFromParts

LEMMA DeductKeeps ==
    ASSUME Shape, NEW w \in Workers, Deduct(w)
    PROVE  Shape'
<1> USE CheckoutAssumption DEF At, Goto, Ord, orderVars, couponVars, paymentVars, sessionVars,
        others, NextHold
<1>1. ControlOf(w) /\ Ord(w) \in Orders
  BY DEF Deduct, Shape, ControlOf, OpAt, TaskOK, PlacingOps, HoldOps
<1>2. RecordType' /\ OutsideType'
  BY <1>1 DEF Deduct, Shape, RecordType, OutsideType, JobType, Task, Ops, ControlOf, OpAt, TaskOK,
     OrderStatuses, PaymentStatuses, HoldStatuses, RedemptionStatuses
<1>3. JobType'
  BY <1>1 DEF Deduct, Shape, JobType, Steps, Task, Ops, RecordType, OrderStatuses,
     PaymentStatuses, HoldStatuses, RedemptionStatuses
<1>4. Placed' /\ OrdersStay
  BY <1>1, <1>2 DEF Deduct, Shape, RecordType, JobType, Placed, OrdersStay, ControlOf, OpAt,
     TaskOK, PlacingOps, HoldOps
<1>5. ControlOf(w)'
  BY <1>1, <1>4 DEF Deduct, Shape, JobType, ControlOf, OpAt, TaskOK, PlacingOps, HoldOps,
     OrdersStay
<1>6. OnlyJobOf(w)
  BY DEF Deduct, OnlyJobOf, Shape, JobType
<1> QED
  BY <1>2, <1>3, <1>4, <1>5, <1>6, ShapeFromParts

LEMMA ReadRedemptionKeeps ==
    ASSUME Shape, NEW w \in Workers, ReadRedemption(w)
    PROVE  Shape'
<1> USE CheckoutAssumption DEF At, Goto, Ord, database, stockVars, orderVars, couponVars,
        paymentVars, sessionVars, others, AfterCoupon, Commits
<1>1. ControlOf(w) /\ Ord(w) \in Orders
  BY DEF ReadRedemption, Shape, ControlOf, OpAt, TaskOK, PlacingOps, HoldOps
<1>2. RecordType' /\ OutsideType'
  BY <1>1 DEF ReadRedemption, Shape, RecordType, OutsideType, JobType, Task, Ops, ControlOf, OpAt,
     TaskOK, OrderStatuses, PaymentStatuses, HoldStatuses, RedemptionStatuses
<1>3. JobType'
  BY <1>1 DEF ReadRedemption, Shape, JobType, Steps, Task, Ops, RecordType, OrderStatuses,
     PaymentStatuses, HoldStatuses, RedemptionStatuses
<1>4. Placed' /\ OrdersStay
  BY <1>1, <1>2 DEF ReadRedemption, Shape, RecordType, JobType, Placed, OrdersStay, ControlOf,
     OpAt, TaskOK, PlacingOps, HoldOps
<1>5. ControlOf(w)'
  BY <1>1, <1>4 DEF ReadRedemption, Shape, JobType, ControlOf, OpAt, TaskOK, PlacingOps, HoldOps,
     OrdersStay
<1>6. OnlyJobOf(w)
  BY DEF ReadRedemption, OnlyJobOf, Shape, JobType
<1> QED
  BY <1>2, <1>3, <1>4, <1>5, <1>6, ShapeFromParts

LEMMA WriteRedemptionKeeps ==
    ASSUME Shape, NEW w \in Workers, WriteRedemption(w)
    PROVE  Shape'
<1> USE CheckoutAssumption DEF At, Goto, Ord, stockVars, orderVars, paymentVars, sessionVars,
        others, SlotReturned, AfterCoupon, Commits
<1>1. ControlOf(w) /\ Ord(w) \in Orders
  BY DEF WriteRedemption, Shape, ControlOf, OpAt, TaskOK, PlacingOps, HoldOps
<1>2. RecordType' /\ OutsideType'
  <2>1. usedCount' \in Nat
    BY <1>1 DEF WriteRedemption, Shape, RecordType, JobType, HoldStatuses, RedemptionStatuses
  <2>2. redemption' \in [Orders -> RedemptionStatuses]
    BY <1>1 DEF WriteRedemption, Shape, RecordType, JobType, HoldStatuses, RedemptionStatuses
  <2> QED
    BY <2>1, <2>2 DEF WriteRedemption, Shape, RecordType, OutsideType
<1>3. JobType'
  BY <1>1 DEF WriteRedemption, Shape, JobType, Steps, Task, Ops, RecordType, OrderStatuses,
     PaymentStatuses, HoldStatuses, RedemptionStatuses
<1>4. Placed' /\ OrdersStay
  BY <1>1, <1>2 DEF WriteRedemption, Shape, RecordType, JobType, Placed, OrdersStay, ControlOf,
     OpAt, TaskOK, PlacingOps, HoldOps
<1>5. ControlOf(w)'
  BY <1>1, <1>4 DEF WriteRedemption, Shape, JobType, ControlOf, OpAt, TaskOK, PlacingOps, HoldOps,
     OrdersStay
<1>6. OnlyJobOf(w)
  BY DEF WriteRedemption, OnlyJobOf, Shape, JobType
<1> QED
  BY <1>2, <1>3, <1>4, <1>5, <1>6, ShapeFromParts

LEMMA ConvertCartKeeps ==
    ASSUME Shape, NEW w \in Workers, ConvertCart(w)
    PROVE  Shape'
<1> USE CheckoutAssumption DEF At, Goto, Ord, stockVars, orderVars, couponVars, paymentVars,
        others
<1>1. ControlOf(w) /\ Ord(w) \in Orders
  BY DEF ConvertCart, Shape, ControlOf, OpAt, TaskOK, PlacingOps, HoldOps
<1>2. RecordType' /\ OutsideType'
  BY <1>1 DEF ConvertCart, Shape, RecordType, OutsideType, JobType, Task, Ops, ControlOf, OpAt,
     TaskOK, OrderStatuses, PaymentStatuses, HoldStatuses, RedemptionStatuses
<1>3. JobType'
  BY <1>1 DEF ConvertCart, Shape, JobType, Steps, Task, Ops, RecordType, OrderStatuses,
     PaymentStatuses, HoldStatuses, RedemptionStatuses
<1>4. Placed' /\ OrdersStay
  BY <1>1, <1>2 DEF ConvertCart, Shape, RecordType, JobType, Placed, OrdersStay, ControlOf, OpAt,
     TaskOK, PlacingOps, HoldOps
<1>5. ControlOf(w)'
  BY <1>1, <1>4 DEF ConvertCart, Shape, JobType, ControlOf, OpAt, TaskOK, PlacingOps, HoldOps,
     OrdersStay
<1>6. OnlyJobOf(w)
  BY DEF ConvertCart, OnlyJobOf, Shape, JobType
<1> QED
  BY <1>2, <1>3, <1>4, <1>5, <1>6, ShapeFromParts

LEMMA MarkPaymentKeeps ==
    ASSUME Shape, NEW w \in Workers, MarkPayment(w)
    PROVE  Shape'
<1> USE CheckoutAssumption DEF At, Goto, Ord, stockVars, couponVars, paymentVars, sessionVars,
        others
<1>1. ControlOf(w) /\ Ord(w) \in Orders
  BY DEF MarkPayment, Shape, ControlOf, OpAt, TaskOK, PlacingOps, HoldOps
<1>2. RecordType' /\ OutsideType'
  BY <1>1 DEF MarkPayment, Shape, RecordType, OutsideType, JobType, Task, Ops, ControlOf, OpAt,
     TaskOK, OrderStatuses, PaymentStatuses, HoldStatuses, RedemptionStatuses
<1>3. JobType'
  BY <1>1 DEF MarkPayment, Shape, JobType, Steps, Task, Ops, RecordType, OrderStatuses,
     PaymentStatuses, HoldStatuses, RedemptionStatuses
<1>4. Placed' /\ OrdersStay
  BY <1>1, <1>2 DEF MarkPayment, Shape, RecordType, JobType, Placed, OrdersStay, ControlOf, OpAt,
     TaskOK, PlacingOps, HoldOps
<1>5. ControlOf(w)'
  BY <1>1, <1>4 DEF MarkPayment, Shape, JobType, ControlOf, OpAt, TaskOK, PlacingOps, HoldOps,
     OrdersStay
<1>6. OnlyJobOf(w)
  BY DEF MarkPayment, OnlyJobOf, Shape, JobType
<1> QED
  BY <1>2, <1>3, <1>4, <1>5, <1>6, ShapeFromParts

LEMMA WriteAuthorizedKeeps ==
    ASSUME Shape, NEW w \in Workers, WriteAuthorized(w)
    PROVE  Shape'
<1> USE CheckoutAssumption DEF At, Ord, stockVars, orderVars, couponVars, sessionVars, others
<1>1. ControlOf(w) /\ Ord(w) \in Orders
  BY DEF WriteAuthorized, Shape, ControlOf, OpAt, TaskOK, PlacingOps, HoldOps
<1>2. RecordType' /\ OutsideType'
  BY <1>1 DEF WriteAuthorized, Shape, RecordType, OutsideType, JobType, Task, Ops, ControlOf,
     OpAt, TaskOK, OrderStatuses, PaymentStatuses, HoldStatuses, RedemptionStatuses
<1>3. JobType' /\ OnlyJobOf(w) /\ pc'[w] = "idle" /\ task'[w] = NoTask
  BY FinishKeeps DEF WriteAuthorized, Shape
<1>4. Placed' /\ OrdersStay
  BY <1>1, <1>2 DEF WriteAuthorized, Shape, RecordType, JobType, Placed, OrdersStay, ControlOf,
     OpAt, TaskOK, PlacingOps, HoldOps
<1>5. ControlOf(w)'
  BY <1>3 DEF ControlOf, OpAt, TaskOK, PlacingOps, NoTask
<1> QED
  BY <1>2, <1>3, <1>4, <1>5, ShapeFromParts

LEMMA WriteFailedKeeps ==
    ASSUME Shape, NEW w \in Workers, WriteFailed(w)
    PROVE  Shape'
<1> USE CheckoutAssumption DEF At, Goto, Ord, stockVars, orderVars, couponVars, sessionVars,
        others
<1>1. ControlOf(w) /\ Ord(w) \in Orders
  BY DEF WriteFailed, Shape, ControlOf, OpAt, TaskOK, PlacingOps, HoldOps
<1>2. RecordType' /\ OutsideType'
  BY <1>1 DEF WriteFailed, Shape, RecordType, OutsideType, JobType, Task, Ops, ControlOf, OpAt,
     TaskOK, OrderStatuses, PaymentStatuses, HoldStatuses, RedemptionStatuses
<1>3. JobType'
  BY <1>1 DEF WriteFailed, Shape, JobType, Steps, Task, Ops, RecordType, OrderStatuses,
     PaymentStatuses, HoldStatuses, RedemptionStatuses
<1>4. Placed' /\ OrdersStay
  BY <1>1, <1>2 DEF WriteFailed, Shape, RecordType, JobType, Placed, OrdersStay, ControlOf, OpAt,
     TaskOK, PlacingOps, HoldOps
<1>5. ControlOf(w)'
  BY <1>1, <1>4 DEF WriteFailed, Shape, JobType, ControlOf, OpAt, TaskOK, PlacingOps, HoldOps,
     OrdersStay
<1>6. OnlyJobOf(w)
  BY DEF WriteFailed, OnlyJobOf, Shape, JobType
<1> QED
  BY <1>2, <1>3, <1>4, <1>5, <1>6, ShapeFromParts

LEMMA RecordPaidKeeps ==
    ASSUME Shape, NEW w \in Workers, RecordPaid(w)
    PROVE  Shape'
<1> USE CheckoutAssumption DEF At, Goto, Ord, stockVars, couponVars, paymentVars, sessionVars,
        others
<1>1. ControlOf(w) /\ Ord(w) \in Orders
  BY DEF RecordPaid, Shape, ControlOf, OpAt, TaskOK, PlacingOps, HoldOps
<1>2. RecordType' /\ OutsideType'
  BY <1>1 DEF RecordPaid, Shape, RecordType, OutsideType, JobType, Task, Ops, ControlOf, OpAt,
     TaskOK, OrderStatuses, PaymentStatuses, HoldStatuses, RedemptionStatuses
<1>3. JobType'
  BY <1>1 DEF RecordPaid, Shape, JobType, Steps, Task, Ops, RecordType, OrderStatuses,
     PaymentStatuses, HoldStatuses, RedemptionStatuses
<1>4. Placed' /\ OrdersStay
  BY <1>1, <1>2 DEF RecordPaid, Shape, RecordType, JobType, Placed, OrdersStay, ControlOf, OpAt,
     TaskOK, PlacingOps, HoldOps
<1>5. ControlOf(w)'
  BY <1>1, <1>4 DEF RecordPaid, Shape, JobType, ControlOf, OpAt, TaskOK, PlacingOps, HoldOps,
     OrdersStay
<1>6. OnlyJobOf(w)
  BY DEF RecordPaid, OnlyJobOf, Shape, JobType
<1> QED
  BY <1>2, <1>3, <1>4, <1>5, <1>6, ShapeFromParts

LEMMA LookUpPaymentKeeps ==
    ASSUME Shape, NEW w \in Workers, LookUpPayment(w)
    PROVE  Shape'
<1> USE CheckoutAssumption DEF At, Goto, Ord, database, stockVars, orderVars, couponVars,
        paymentVars, sessionVars, others
<1>1. ControlOf(w) /\ Ord(w) \in Orders
  BY DEF LookUpPayment, Shape, ControlOf, OpAt, TaskOK, PlacingOps, HoldOps
<1>2. RecordType' /\ OutsideType'
  BY <1>1 DEF LookUpPayment, Shape, RecordType, OutsideType, JobType, Task, Ops, ControlOf, OpAt,
     TaskOK, OrderStatuses, PaymentStatuses, HoldStatuses, RedemptionStatuses
<1>3. JobType'
  BY <1>1 DEF LookUpPayment, Shape, JobType, Steps, Task, Ops, RecordType, OrderStatuses,
     PaymentStatuses, HoldStatuses, RedemptionStatuses
<1>4. Placed' /\ OrdersStay
  BY <1>1, <1>2 DEF LookUpPayment, Shape, RecordType, JobType, Placed, OrdersStay, ControlOf,
     OpAt, TaskOK, PlacingOps, HoldOps
<1>5. ControlOf(w)'
  BY <1>1, <1>4 DEF LookUpPayment, Shape, JobType, ControlOf, OpAt, TaskOK, PlacingOps, HoldOps,
     OrdersStay
<1>6. OnlyJobOf(w)
  BY DEF LookUpPayment, OnlyJobOf, Shape, JobType
<1> QED
  BY <1>2, <1>3, <1>4, <1>5, <1>6, ShapeFromParts

LEMMA RequestRefundKeeps ==
    ASSUME Shape, NEW w \in Workers, RequestRefund(w)
    PROVE  Shape'
<1> USE CheckoutAssumption DEF At, Ord, database, stockVars, orderVars, couponVars, paymentVars,
        sessionVars
<1>1. ControlOf(w) /\ Ord(w) \in Orders
  BY DEF RequestRefund, Shape, ControlOf, OpAt, TaskOK, PlacingOps, HoldOps
<1>2. RecordType' /\ OutsideType'
  BY <1>1 DEF RequestRefund, Shape, RecordType, OutsideType, JobType, Task, Ops, ControlOf, OpAt,
     TaskOK, OrderStatuses, PaymentStatuses, HoldStatuses, RedemptionStatuses
<1>3. JobType' /\ OnlyJobOf(w) /\ pc'[w] = "idle" /\ task'[w] = NoTask
  BY FinishKeeps DEF RequestRefund, Shape
<1>4. Placed' /\ OrdersStay
  BY <1>1, <1>2 DEF RequestRefund, Shape, RecordType, JobType, Placed, OrdersStay, ControlOf,
     OpAt, TaskOK, PlacingOps, HoldOps
<1>5. ControlOf(w)'
  BY <1>3 DEF ControlOf, OpAt, TaskOK, PlacingOps, NoTask
<1> QED
  BY <1>2, <1>3, <1>4, <1>5, ShapeFromParts

LEMMA ReloadKeeps ==
    ASSUME Shape, NEW w \in Workers, Reload(w)
    PROVE  Shape'
<1> USE CheckoutAssumption DEF At, Goto, Ord, database, stockVars, orderVars, couponVars, paymentVars,
        sessionVars, others
<1>1. ControlOf(w) /\ Ord(w) \in Orders /\ status[Ord(w)] # "NONE"
  BY DEF Reload, Shape, ControlOf, OpAt, TaskOK, PlacingOps, HoldOps
<1>2. RecordType' /\ OutsideType'
  BY DEF Reload, Shape, RecordType, OutsideType
<1>3. JobType'
  <2>1. Snapshot(Ord(w)) \in Snapshots
    BY <1>1, SnapshotType DEF Shape
  <2> QED
    BY <1>1, <2>1 DEF Reload, Shape, JobType, Steps
<1>4. Placed' /\ OrdersStay
  BY DEF Reload, Shape, Placed, OrdersStay
<1>5. ControlOf(w)'
  BY <1>1 DEF Reload, Shape, JobType, ControlOf, OpAt, TaskOK, PlacingOps, HoldOps
<1>6. OnlyJobOf(w)
  BY DEF Reload, OnlyJobOf, Shape, JobType
<1> QED
  BY <1>2, <1>3, <1>4, <1>5, <1>6, ShapeFromParts

\* A job that moves its order moves it to a status.
LEMMA TargetType ==
    ASSUME Shape, NEW w \in Workers, pc[w] = "move"
    PROVE  Target(w) \in OrderStatuses
<1>1. task[w].op \in PlacingOps \cup HoldOps \cup {"admin"}
      /\ (task[w].op = "admin" => task[w].to \in AdminTargets)
  BY DEF Shape, ControlOf, OpAt, TaskOK
<1> QED
  BY <1>1, CheckoutAssumption DEF Target, PlacingOps, HoldOps, OrderStatuses

\* What follows a transition.
LEMMA AfterMoveKeeps ==
    ASSUME Shape, NEW w \in Workers, pc[w] = "move", AfterMove(w),
           status'[Ord(w)] # "NONE"
    PROVE  JobType' /\ ControlOf(w)' /\ OnlyJobOf(w)
<1>1. /\ Ord(w) \in Orders /\ status[Ord(w)] # "NONE"
      /\ task[w].op \in PlacingOps \cup HoldOps \cup {"admin"}
      /\ TaskOK(task[w])
  BY DEF Shape, ControlOf, OpAt, TaskOK, PlacingOps, HoldOps, Ord
<1>2. CASE task[w].op = "place"
  BY <1>1, <1>2 DEF AfterMove, Goto, Shape, JobType, Steps, ControlOf, OpAt, TaskOK, PlacingOps, OnlyJobOf, Ord
<1>3. CASE task[w].op = "placeCod"
  <2>1. /\ task' = [task EXCEPT ![w] = Job("cod", Ord(w))]
        /\ pc' = [pc EXCEPT ![w] = "reload"]
        /\ UNCHANGED <<todo, cur, seen>>
    BY <1>3 DEF AfterMove, Goto
  <2>2. Job("cod", Ord(w)) \in Task
    BY <1>1, JobIsTask DEF Ops
  <2>3. JobType' /\ OnlyJobOf(w)
    BY <2>1, <2>2 DEF Shape, JobType, Steps, OnlyJobOf
  <2>4. task'[w].op = "cod" /\ task'[w].order = Ord(w) /\ pc'[w] = "reload"
    BY <2>1 DEF Shape, JobType, Job
  <2> QED
    BY <1>1, <2>3, <2>4 DEF ControlOf, OpAt, TaskOK, PlacingOps
<1>4. CASE task[w].op = "cancel"
  BY <1>1, <1>4 DEF AfterMove, Goto, Shape, JobType, Steps, ControlOf, OpAt, TaskOK, PlacingOps, OnlyJobOf, Ord
<1>5. CASE task[w].op \notin {"place", "placeCod", "cancel"}
  <2>1. Finish(w)
    BY <1>5 DEF AfterMove
  <2> QED
    BY <2>1, FinishKeeps DEF Shape, ControlOf, OpAt, TaskOK, PlacingOps, NoTask
<1> QED
  BY <1>2, <1>3, <1>4, <1>5

LEMMA MoveKeeps ==
    ASSUME Shape, NEW w \in Workers, Move(w)
    PROVE  Shape'
<1>1. pc[w] = "move" /\ Ord(w) \in Orders /\ AfterMove(w)
  BY DEF Move, At, Shape, ControlOf, OpAt, TaskOK, PlacingOps, HoldOps, Ord
<1>2. /\ Target(w) \in OrderStatuses /\ "NONE" \notin OrderStatuses
      /\ status' = [status EXCEPT ![Ord(w)] = Target(w)]
  BY <1>1, TargetType DEF Move, OrderStatuses
<1>3. RecordType' /\ OutsideType' /\ OrdersStay
  BY <1>1, <1>2 DEF Move, Shape, RecordType, OutsideType, OrdersStay, stockVars, couponVars, paymentVars,
     sessionVars, others
<1>4. Placed'
  BY <1>1, <1>2, <1>3 DEF Move, Shape, RecordType, Placed, OrdersStay, paymentVars, ControlOf, Ord
<1>5. status'[Ord(w)] # "NONE"
  BY <1>1, <1>2 DEF Shape, RecordType
<1>6. JobType' /\ ControlOf(w)' /\ OnlyJobOf(w)
  BY <1>1, <1>5, AfterMoveKeeps
<1> QED
  BY <1>3, <1>4, <1>6, ShapeFromParts

LEMMA MoveAlreadyMadeKeeps ==
    ASSUME Shape, NEW w \in Workers, MoveAlreadyMade(w)
    PROVE  Shape'
<1>1. /\ pc[w] = "move" /\ AfterMove(w)
      /\ UNCHANGED <<database, others>>
  BY DEF MoveAlreadyMade, At
<1>2. RecordType' /\ OutsideType' /\ Placed' /\ OrdersStay
  BY <1>1 DEF Shape, RecordType, OutsideType, Placed, OrdersStay, database, stockVars, orderVars,
     couponVars, paymentVars, sessionVars, others
<1>3. status'[Ord(w)] # "NONE"
  BY <1>1 DEF Shape, ControlOf, Ord, database, orderVars
<1>4. JobType' /\ ControlOf(w)' /\ OnlyJobOf(w)
  BY <1>1, <1>3, AfterMoveKeeps
<1> QED
  BY <1>2, <1>4, ShapeFromParts

LEMMA MoveRefusedKeeps ==
    ASSUME Shape, NEW w \in Workers, MoveRefused(w)
    PROVE  Shape'
<1>1. Finish(w) /\ UNCHANGED <<database, others>>
  BY DEF MoveRefused
<1> QED
  BY <1>1, FinishWithoutWriting

LEMMA CaptureKeeps ==
    ASSUME Shape, NEW w \in Workers, Capture(w)
    PROVE  Shape'
<1>1. pc[w] = "capture" /\ ControlOf(w) /\ Ord(w) \in Orders
  BY DEF Capture, At, Shape, ControlOf, OpAt, TaskOK, PlacingOps, HoldOps, Ord
<1>2. CASE payment[Ord(w)] \in {"PENDING", "AUTHORIZED"}
  <2>1. /\ payment' = [payment EXCEPT ![Ord(w)] = "CAPTURED"]
        /\ payId' = [payId EXCEPT ![Ord(w)] = TRUE]
        /\ pc' = [pc EXCEPT ![w] = "paid"]
        /\ UNCHANGED <<task, todo, cur, seen, stockVars, orderVars, hold, couponVars, sessionVars, others>>
    BY <1>2 DEF Capture, Goto
  <2>2. RecordType' /\ OutsideType' /\ JobType' /\ Placed' /\ OrdersStay
    BY <1>1, <1>2, <2>1 DEF Shape, RecordType, OutsideType, JobType, Placed, OrdersStay, Steps,
       stockVars, orderVars, couponVars, sessionVars, others
  <2>3. ControlOf(w)' /\ OnlyJobOf(w)
    BY <1>1, <2>1 DEF Shape, JobType, ControlOf, OpAt, TaskOK, PlacingOps, HoldOps, OnlyJobOf, orderVars
  <2> QED
    BY <2>2, <2>3, ShapeFromParts
<1>3. CASE payment[Ord(w)] \notin {"PENDING", "AUTHORIZED"}
  <2>1. Finish(w) /\ UNCHANGED <<database, others>>
    BY <1>3 DEF Capture, database
  <2> QED
    BY <2>1, FinishWithoutWriting
<1> QED
  BY <1>2, <1>3

LEMMA AskProviderKeeps ==
    ASSUME Shape, NEW w \in Workers, AskProvider(w)
    PROVE  Shape'
<1>1. /\ pc[w] \in {"fetch", "fetchById"} /\ UNCHANGED <<database, others>>
      /\ task[w].op = "reconcile" /\ Ord(w) \in Orders
  BY DEF AskProvider, Shape, ControlOf, OpAt, TaskOK, Ord
<1>2. CASE Finish(w)
  BY <1>1, <1>2, FinishWithoutWriting
<1>3. CASE ~Finish(w)
  <2>1. /\ \/ pc' = [pc EXCEPT ![w] = "capture"] /\ task' = [task EXCEPT ![w] = Job("confirm", Ord(w))]
           \/ pc' = [pc EXCEPT ![w] = "list"] /\ UNCHANGED task
        /\ UNCHANGED <<todo, cur, seen>>
    BY <1>3 DEF AskProvider, Goto
  <2>2. Job("confirm", Ord(w)) \in Task
    BY <1>1, JobIsTask DEF Ops
  <2>3. JobType' /\ OnlyJobOf(w)
    BY <2>1, <2>2 DEF Shape, JobType, Steps, OnlyJobOf
  <2>4. /\ \/ pc'[w] = "capture" /\ task'[w] = Job("confirm", Ord(w))
           \/ pc'[w] = "list" /\ task'[w] = task[w]
        /\ cur'[w] = cur[w]
    BY <2>1 DEF Shape, JobType
  <2>5. status'[Ord(w)] # "NONE"
    BY <1>1 DEF Shape, ControlOf, Ord, database, orderVars
  <2>6. ControlOf(w)'
    BY <1>1, <2>4, <2>5 DEF Shape, ControlOf, OpAt, TaskOK, PlacingOps, HoldOps, Job, Ord
  <2>7. RecordType' /\ OutsideType' /\ Placed' /\ OrdersStay
    BY <1>1 DEF Shape, RecordType, OutsideType, Placed, OrdersStay, database, stockVars, orderVars,
       couponVars, paymentVars, sessionVars, others
  <2> QED
    BY <2>3, <2>6, <2>7, ShapeFromParts
<1> QED
  BY <1>2, <1>3

-------------------------------------------------------------------------------
(* Handlers that begin, and the environment *)

\* A handler that begins has read something, and has not written anything.
LEMMA BeginKeeps ==
    ASSUME Shape, NEW w \in Workers, NEW t \in Task, NEW step \in Steps \ {"idle"},
           Begin(w, t, step), UNCHANGED <<todo, cur, database, others>>,
           seen' \in [Workers -> Snapshots], \A x \in Workers : x # w => seen'[x] = seen[x],
           t.op # "idle", TaskOK(t), OpAt(step, t.op), step \notin {"row", "giveback", "deduct"},
           step # "create" => status[t.order] # "NONE"
    PROVE  Shape'
<1>1. pc' = [pc EXCEPT ![w] = step] /\ task' = [task EXCEPT ![w] = t]
  BY DEF Begin, Goto
<1>2. JobType' /\ OnlyJobOf(w)
  BY <1>1 DEF Shape, JobType, OnlyJobOf
<1>3. ControlOf(w)'
  <2>1. pc'[w] = step /\ task'[w] = t /\ status' = status
    BY <1>1 DEF Shape, JobType, database, orderVars
  <2> QED
    BY <2>1 DEF ControlOf
<1>4. RecordType' /\ OutsideType' /\ Placed' /\ OrdersStay
  BY DEF Shape, RecordType, OutsideType, Placed, OrdersStay, database, stockVars, orderVars,
     couponVars, paymentVars, sessionVars, others
<1> QED
  BY <1>2, <1>3, <1>4, ShapeFromParts

LEMMA StartKeeps ==
    ASSUME Shape, NEW w \in Workers, Start(w)
    PROVE  Shape'
<1>1. ASSUME NEW s \in Sessions, NEW o \in Orders, NEW op \in PlacingOps, StartPlace(w, s, o, op)
      PROVE  Shape'
  <2>1. [op |-> op, order |-> o, session |-> s, to |-> None] \in Task
    BY DEF Task, Ops, PlacingOps
  <2> QED
    BY <1>1, <2>1, BeginKeeps DEF StartPlace, Shape, JobType, Steps, TaskOK, OpAt, PlacingOps
<1>2. ASSUME NEW op \in HoldOps \cup {"authorize"}, NEW o \in Orders, NEW step \in Steps \ {"idle"},
             OpAt(step, op), step \notin {"row", "giveback", "deduct", "create"},
             Begin(w, Job(op, o), step), status[o] # "NONE",
             UNCHANGED <<todo, cur, database, others>>,
             seen' = seen \/ seen' = [seen EXCEPT ![w] = Snapshot(o)]
      PROVE  Shape'
  <2>1. Job(op, o) \in Task
    BY JobIsTask DEF Ops, HoldOps
  <2>2. Snapshot(o) \in Snapshots
    BY <1>2, SnapshotType DEF Shape
  <2>3. seen' \in [Workers -> Snapshots] /\ \A x \in Workers : x # w => seen'[x] = seen[x]
    BY <1>2, <2>2 DEF Shape, JobType
  <2>4. Job(op, o).op = op /\ Job(op, o).order = o /\ TaskOK(Job(op, o))
    BY DEF Job, TaskOK, PlacingOps, HoldOps
  <2> QED
    BY <1>2, <2>1, <2>3, <2>4, BeginKeeps DEF HoldOps
<1>3. ASSUME NEW s \in Sessions, Abandon(w, s)
      PROVE  Shape'
  <2>1. sessionOrder[s] \in Orders
    BY <1>3 DEF Abandon, Shape, RecordType
  <2> QED
    BY <1>2, <1>3, <2>1 DEF Abandon, OpAt, HoldOps, Steps
<1>4. ASSUME NEW o \in Orders,
             \/ StartVerify(w, o) \/ DeliverCaptured(w, o) \/ DeliverAuthorized(w, o) \/ DeliverFailed(w, o)
      PROVE  Shape'
  <2>1. status[o] # "NONE"
    BY <1>4 DEF StartVerify, DeliverCaptured, DeliverAuthorized, DeliverFailed, Shape, Placed
  <2> QED
    BY <1>2, <1>4, <2>1 DEF StartVerify, DeliverCaptured, DeliverAuthorized, DeliverFailed, OpAt, HoldOps, Steps
<1>5. ASSUME NEW o \in Orders, Expire(w, o) \/ Reconcile(w, o)
      PROVE  Shape'
  BY <1>2, <1>5 DEF Expire, Reconcile, Stale, OpAt, HoldOps, Steps
<1>6. ASSUME NEW o \in Orders, Cancel(w, o)
      PROVE  Shape'
  BY <1>2, <1>6 DEF Cancel, OpAt, HoldOps, Steps
<1>7. ASSUME NEW o \in Orders, NEW to \in AdminTargets, AdminSetStatus(w, o, to)
      PROVE  Shape'
  <2> DEFINE t == [op |-> "admin", order |-> o, session |-> None, to |-> to]
  <2>1. t \in Task /\ TaskOK(t) /\ OpAt("move", t.op) /\ t.op = "admin" /\ t.order = o
    BY CheckoutAssumption DEF Task, Ops, TaskOK, OpAt, PlacingOps
  <2>2. Snapshot(o) \in Snapshots
    BY <1>7, SnapshotType DEF Shape, AdminSetStatus
  <2>3. seen' \in [Workers -> Snapshots] /\ \A x \in Workers : x # w => seen'[x] = seen[x]
    BY <1>7, <2>2 DEF AdminSetStatus, Shape, JobType
  <2> QED
    BY <1>7, <2>1, <2>3, BeginKeeps DEF AdminSetStatus, Steps
<1> QED
  BY <1>1, <1>3, <1>4, <1>5, <1>6, <1>7 DEF Start, PlacingOps

LEMMA CrashKeeps ==
    ASSUME Shape, NEW w \in Workers, Crash(w)
    PROVE  Shape'
<1>1. JobType' /\ OnlyJobOf(w) /\ pc'[w] = "idle" /\ task'[w] = NoTask
  BY FinishKeeps DEF Crash, Shape
<1>2. ControlOf(w)'
  BY <1>1 DEF ControlOf, OpAt, TaskOK, PlacingOps, NoTask
<1>3. RecordType' /\ OutsideType' /\ Placed' /\ OrdersStay
  BY DEF Crash, Shape, RecordType, OutsideType, Placed, OrdersStay, database, stockVars, orderVars,
     couponVars, paymentVars, sessionVars
<1> QED
  BY <1>1, <1>2, <1>3, ShapeFromParts

LEMMA EnvironmentKeeps ==
    ASSUME Shape, NEW o \in Orders,
           Lapse(o) \/ \E event \in {"failed", "authorized", "captured"} : ProviderEvent(o, event)
    PROVE  Shape'
<1>1. CASE Lapse(o)
  BY <1>1 DEF Lapse, Shape, RecordType, OutsideType, JobType, Placed, ControlOf, stockVars, couponVars,
     paymentVars, sessionVars, jobVars, others
<1>2. ASSUME NEW event \in {"failed", "authorized", "captured"}, ProviderEvent(o, event)
      PROVE  Shape'
  BY <1>2 DEF ProviderEvent, Shape, RecordType, OutsideType, JobType, Placed, ControlOf, database,
     stockVars, orderVars, couponVars, paymentVars, sessionVars, jobVars
<1> QED
  BY <1>1, <1>2

LEMMA StutterKeeps == Shape /\ UNCHANGED vars => Shape'
BY DEF vars, Shape, RecordType, OutsideType, JobType, Placed, ControlOf, database, stockVars, orderVars,
   couponVars, paymentVars, sessionVars, jobVars, others

\* Every state of every execution has the shape.
LEMMA ShapeInvariant == Spec => []Shape
<1>1. Init => Shape
  <2> SUFFICES ASSUME Init PROVE Shape
    OBVIOUS
  <2>1. RecordType /\ OutsideType
    BY DEF Init, RecordType, OutsideType, OrderStatuses, PaymentStatuses, HoldStatuses, RedemptionStatuses
  <2>2. JobType
    BY NoTaskType, NoSnapshotType DEF Init, JobType, Steps
  <2>3. Placed /\ \A w \in Workers : ControlOf(w)
    BY DEF Init, Placed, ControlOf, OpAt, TaskOK, PlacingOps, NoTask
  <2> QED
    BY <2>1, <2>2, <2>3 DEF Shape
<1>2. Shape /\ [Next]_vars => Shape'
  <2> SUFFICES ASSUME Shape, [Next]_vars PROVE Shape'
    OBVIOUS
  <2>1. ASSUME NEW w \in Workers, PlacementStep(w) PROVE Shape'
    BY <2>1, CreateKeeps, ReserveItemKeeps, WriteReservationKeeps, ReserveCouponKeeps, UndoReserveKeeps,
       UndoRowsKeeps, AttachSessionKeeps, ProviderAcceptsKeeps, ProviderRefusesKeeps, WritePaymentKeeps,
       WriteCodPaymentKeeps DEF PlacementStep
  <2>2. ASSUME NEW w \in Workers, SettlementStep(w) PROVE Shape'
    BY <2>2, ListHoldsKeeps, SettleHoldKeeps, GiveBackKeeps, DeductKeeps, ReadRedemptionKeeps,
       WriteRedemptionKeeps, ConvertCartKeeps, MarkPaymentKeeps, ReloadKeeps, MoveKeeps,
       MoveAlreadyMadeKeeps, MoveRefusedKeeps DEF SettlementStep
  <2>3. ASSUME NEW w \in Workers, PaymentStep(w) PROVE Shape'
    BY <2>3, WriteAuthorizedKeeps, WriteFailedKeeps, CaptureKeeps, RecordPaidKeeps, LookUpPaymentKeeps,
       AskProviderKeeps, RequestRefundKeeps DEF PaymentStep
  <2> QED
    BY <2>1, <2>2, <2>3, StartKeeps, CrashKeeps, EnvironmentKeeps, StutterKeeps DEF Next, JobStep
<1> QED
  BY <1>1, <1>2, PTL DEF Spec

-------------------------------------------------------------------------------
(* Stock *)

Stocked == StockType /\ StockFloor

\* A job in the middle of an order knows the quantities of its items.
LEMMA QuantityType ==
    ASSUME Shape, NEW w \in Workers, pc[w] \notin {"idle", "create"}, NEW v \in Variants
    PROVE  Ord(w) \in Orders /\ QtyOf(Ord(w), v) \in Nat
<1>1. Ord(w) \in Orders /\ status[Ord(w)] # "NONE"
  BY DEF Shape, ControlOf, TaskOK, Ord
<1>2. placedBy[Ord(w)] \in Sessions
  BY <1>1 DEF Shape, Placed
<1> QED
  BY <1>1, <1>2, CheckoutAssumption DEF QtyOf

\* The rules of inventory.service.ts keep a row within its floor.
LEMMA RowRules ==
    ASSUME NEW row, row.stockQty \in Int, row.reservedQty \in Nat, NEW qty \in Nat
    PROVE  /\ ReservedAfter(row, qty) \in Nat
           /\ CanReserve(row, qty) => row.allowBackorder \/ ReservedAfter(row, qty) <= row.stockQty
           /\ ReleasedAfter(row, qty) \in Nat /\ ReleasedAfter(row, qty) <= row.reservedQty
           /\ AdjustedQty(row, -qty) \in Int
           /\ CanAdjust(row, -qty) => row.allowBackorder \/ row.reservedQty <= AdjustedQty(row, -qty)
BY DEF ReservedAfter, CanReserve, ReleasedAfter, Releasable, AdjustedQty, CanAdjust

LEMMA RowFields ==
    ASSUME NEW v \in Variants
    PROVE  /\ Row(v).stockQty = stockQty[v] /\ Row(v).reservedQty = reservedQty[v]
           /\ Row(v).allowBackorder = (v \in Backorder)
BY DEF Row

\* Reserving, giving back and deducting, whoever does it.
LEMMA ReserveKeepsStock ==
    ASSUME Stocked, NEW v \in Variants, NEW qty \in Nat, CanReserve(Row(v), qty),
           reservedQty' = [reservedQty EXCEPT ![v] = ReservedAfter(Row(v), qty)], stockQty' = stockQty
    PROVE  Stocked'
<1>1. stockQty[v] \in Int /\ reservedQty[v] \in Nat
  BY DEF Stocked, StockType
<1>2. /\ ReservedAfter(Row(v), qty) \in Nat
      /\ v \in Backorder \/ ReservedAfter(Row(v), qty) <= stockQty[v]
  BY <1>1, RowRules, RowFields
<1> QED
  BY <1>1, <1>2 DEF Stocked, StockType, StockFloor

LEMMA GiveBackKeepsStock ==
    ASSUME Stocked, NEW v \in Variants, NEW qty \in Nat,
           reservedQty' = [reservedQty EXCEPT ![v] = ReleasedAfter(Row(v), qty)], stockQty' = stockQty
    PROVE  Stocked'
<1>1. stockQty[v] \in Int /\ reservedQty[v] \in Nat
  BY DEF Stocked, StockType
<1>2. ReleasedAfter(Row(v), qty) \in Nat /\ ReleasedAfter(Row(v), qty) <= reservedQty[v]
  BY <1>1, RowRules, RowFields
<1> QED
  BY <1>1, <1>2 DEF Stocked, StockType, StockFloor

LEMMA DeductKeepsStock ==
    ASSUME Stocked, NEW v \in Variants, NEW qty \in Nat, CanAdjust(Row(v), -qty),
           stockQty' = [stockQty EXCEPT ![v] = AdjustedQty(Row(v), -qty)], reservedQty' = reservedQty
    PROVE  Stocked'
<1>1. stockQty[v] \in Int /\ reservedQty[v] \in Nat
  BY DEF Stocked, StockType
<1>2. /\ AdjustedQty(Row(v), -qty) \in Int
      /\ v \in Backorder \/ reservedQty[v] <= AdjustedQty(Row(v), -qty)
  BY <1>1, RowRules, RowFields
<1> QED
  BY <1>1, <1>2 DEF Stocked, StockType, StockFloor

LEMMA SameStock == Stocked /\ UNCHANGED stockVars => Stocked'
BY DEF Stocked, StockType, StockFloor, stockVars

LEMMA StockedInvariant == Spec => []Stocked
<1>1. Init => Stocked
  BY CheckoutAssumption DEF Init, Stocked, StockType, StockFloor
<1>2. Shape /\ Stocked /\ [Next]_vars => Stocked'
  <2> SUFFICES ASSUME Shape, Stocked, [Next]_vars PROVE Stocked'
    OBVIOUS
  <2>1. ASSUME NEW w \in Workers, ReserveItem(w) PROVE Stocked'
    <3>1. PICK v \in todo[w] :
             \/ /\ CanReserve(Row(v), QtyOf(Ord(w), v))
                /\ reservedQty' = [reservedQty EXCEPT ![v] = ReservedAfter(Row(v), QtyOf(Ord(w), v))]
             \/ UNCHANGED reservedQty
      BY <2>1 DEF ReserveItem
    <3>2. v \in Variants /\ QtyOf(Ord(w), v) \in Nat /\ stockQty' = stockQty
      BY <2>1, QuantityType DEF ReserveItem, At, Shape, JobType
    <3> QED
      BY <3>1, <3>2, ReserveKeepsStock, SameStock DEF stockVars
  <2>2. ASSUME NEW w \in Workers, UndoReserve(w) PROVE Stocked'
    <3>1. PICK v \in todo[w] :
             reservedQty' = [reservedQty EXCEPT ![v] = ReleasedAfter(Row(v), QtyOf(Ord(w), v))]
      BY <2>2 DEF UndoReserve
    <3>2. v \in Variants /\ QtyOf(Ord(w), v) \in Nat /\ stockQty' = stockQty
      BY <2>2, QuantityType DEF UndoReserve, At, Shape, JobType
    <3> QED
      BY <3>1, <3>2, GiveBackKeepsStock
  <2>3. ASSUME NEW w \in Workers, GiveBack(w) PROVE Stocked'
    <3>1. cur[w] \in Variants /\ QtyOf(Ord(w), cur[w]) \in Nat
      BY <2>3, QuantityType DEF GiveBack, At, Shape, ControlOf
    <3> QED
      BY <2>3, <3>1, GiveBackKeepsStock DEF GiveBack
  <2>4. ASSUME NEW w \in Workers, Deduct(w) PROVE Stocked'
    <3>1. cur[w] \in Variants /\ QtyOf(Ord(w), cur[w]) \in Nat /\ reservedQty' = reservedQty
      BY <2>4, QuantityType DEF Deduct, At, Shape, ControlOf
    <3>2. \/ /\ CanAdjust(Row(cur[w]), -QtyOf(Ord(w), cur[w]))
             /\ stockQty' = [stockQty EXCEPT ![cur[w]] = AdjustedQty(Row(cur[w]), -QtyOf(Ord(w), cur[w]))]
          \/ stockQty' = stockQty
      BY <2>4 DEF Deduct
    <3> QED
      BY <3>1, <3>2, DeductKeepsStock, SameStock DEF stockVars
  <2>5. ASSUME UNCHANGED vars PROVE Stocked'
    BY <2>5, SameStock DEF vars, database
  <2>6. ASSUME NEW w \in Workers,
               \/ PlacementStep(w) /\ ~ReserveItem(w) /\ ~UndoReserve(w)
               \/ PaymentStep(w)
        PROVE  Stocked'
    <3>1. UNCHANGED stockVars
      BY <2>6 DEF PlacementStep, PaymentStep, Create, WriteReservation, ReserveCoupon, UndoRows,
         AttachSession, ProviderAccepts, ProviderRefuses, WritePayment, WriteCodPayment, WriteAuthorized,
         WriteFailed, Capture, RecordPaid, LookUpPayment, AskProvider, RequestRefund, database
    <3> QED
      BY <3>1, SameStock
  <2>7. ASSUME NEW w \in Workers, SettlementStep(w) /\ ~GiveBack(w) /\ ~Deduct(w)
        PROVE  Stocked'
    <3>1. UNCHANGED stockVars
      BY <2>7 DEF SettlementStep, ListHolds, SettleHold, ReadRedemption, WriteRedemption, ConvertCart,
         MarkPayment, Reload, Move, MoveAlreadyMade, MoveRefused, database
    <3> QED
      BY <3>1, SameStock
  <2>8. ASSUME NEW w \in Workers, Start(w) \/ Crash(w) PROVE Stocked'
    <3>1. UNCHANGED stockVars
      BY <2>8 DEF Start, StartPlace, Abandon, StartVerify, DeliverCaptured, DeliverAuthorized, DeliverFailed,
         Expire, Reconcile, Cancel, AdminSetStatus, Crash, database
    <3> QED
      BY <3>1, SameStock
  <2>9. ASSUME NEW o \in Orders,
               Lapse(o) \/ \E event \in {"failed", "authorized", "captured"} : ProviderEvent(o, event)
        PROVE  Stocked'
    BY <2>9, SameStock DEF Lapse, ProviderEvent, database
  <2> QED
    BY <2>1, <2>2, <2>3, <2>4, <2>5, <2>6, <2>7, <2>8, <2>9 DEF Next, JobStep
<1> QED
  BY <1>1, <1>2, ShapeInvariant, PTL DEF Spec

-------------------------------------------------------------------------------
\* Type correctness of the whole module.
THEOREM TypeCorrect == Spec => []TypeOK
<1>1. Shape /\ Stocked => TypeOK
  BY DEF Shape, Stocked, TypeOK
<1> QED
  BY <1>1, ShapeInvariant, StockedInvariant, PTL

\* For every assortment, cart, stock and number of workers, and wherever they are
\* killed: a variant that takes no backorders never has more reserved than stock.
THEOREM FloorIsKept == Spec => []StockFloor
<1>1. Stocked => StockFloor
  BY DEF Stocked
<1> QED
  BY <1>1, StockedInvariant, PTL

-------------------------------------------------------------------------------
(* Status changes *)

\* An order that is about to be created does not exist, and is created once.
Creating ==
    /\ \A w \in Workers : pc[w] = "create" => status[Ord(w)] = "NONE"
    /\ \A w, x \in Workers : pc[w] = "create" /\ pc[x] = "create" /\ Ord(w) = Ord(x) => w = x

\* The step of a handler that goes on with its job and leaves every status alone.
GoesOn(w) ==
    /\ OnlyJobOf(w)
    /\ pc'[w] # "create"
    /\ status' = status

LEMMA PlacementStepGoesOn ==
    ASSUME Shape, NEW w \in Workers, PlacementStep(w), ~Create(w)
    PROVE  GoesOn(w)
<1> USE DEF At, Goto, GoesOn, OnlyJobOf, database, orderVars, Shape, JobType
<1>1. CASE ReserveItem(w)
  BY <1>1 DEF ReserveItem
<1>2. CASE WriteReservation(w)
  BY <1>2 DEF WriteReservation
<1>3. CASE ReserveCoupon(w)
  BY <1>3 DEF ReserveCoupon
<1>4. CASE UndoReserve(w)
  BY <1>4 DEF UndoReserve
<1>5. CASE UndoRows(w)
  BY <1>5, FinishKeeps DEF UndoRows
<1>6. CASE AttachSession(w)
  BY <1>6 DEF AttachSession
<1>7. CASE ProviderAccepts(w)
  BY <1>7 DEF ProviderAccepts
<1>8. CASE ProviderRefuses(w)
  BY <1>8 DEF ProviderRefuses
<1>9. CASE WritePayment(w)
  BY <1>9, FinishKeeps DEF WritePayment
<1>10. CASE WriteCodPayment(w)
  BY <1>10 DEF WriteCodPayment
<1> QED
  BY <1>1, <1>2, <1>3, <1>4, <1>5, <1>6, <1>7, <1>8, <1>9, <1>10 DEF PlacementStep

LEMMA SettlementStepGoesOn ==
    ASSUME Shape, NEW w \in Workers, SettlementStep(w), ~Move(w)
    PROVE  GoesOn(w)
<1> USE DEF At, Goto, GoesOn, OnlyJobOf, database, orderVars, Shape, JobType
<1>1. CASE ListHolds(w)
  BY <1>1 DEF ListHolds
<1>2. CASE SettleHold(w)
  BY <1>2 DEF SettleHold, NextHold
<1>3. CASE GiveBack(w)
  BY <1>3 DEF GiveBack, NextHold
<1>4. CASE Deduct(w)
  BY <1>4 DEF Deduct, NextHold
<1>5. CASE ReadRedemption(w)
  BY <1>5 DEF ReadRedemption, AfterCoupon
<1>6. CASE WriteRedemption(w)
  BY <1>6 DEF WriteRedemption, AfterCoupon
<1>7. CASE ConvertCart(w)
  BY <1>7 DEF ConvertCart
<1>8. CASE MarkPayment(w)
  BY <1>8 DEF MarkPayment
<1>9. CASE Reload(w)
  BY <1>9 DEF Reload
<1>10. CASE MoveAlreadyMade(w)
  BY <1>10, FinishKeeps DEF MoveAlreadyMade, AfterMove
<1>11. CASE MoveRefused(w)
  BY <1>11, FinishKeeps DEF MoveRefused
<1> QED
  BY <1>1, <1>2, <1>3, <1>4, <1>5, <1>6, <1>7, <1>8, <1>9, <1>10, <1>11 DEF SettlementStep

LEMMA PaymentStepGoesOn ==
    ASSUME Shape, NEW w \in Workers, PaymentStep(w)
    PROVE  GoesOn(w)
<1> USE DEF At, Goto, GoesOn, OnlyJobOf, database, orderVars, Shape, JobType
<1>1. CASE WriteAuthorized(w)
  BY <1>1, FinishKeeps DEF WriteAuthorized
<1>2. CASE WriteFailed(w)
  BY <1>2 DEF WriteFailed
<1>3. CASE Capture(w)
  BY <1>3, FinishKeeps DEF Capture
<1>4. CASE RecordPaid(w)
  BY <1>4 DEF RecordPaid
<1>5. CASE LookUpPayment(w)
  BY <1>5 DEF LookUpPayment
<1>6. CASE AskProvider(w)
  BY <1>6, FinishKeeps DEF AskProvider
<1>7. CASE RequestRefund(w)
  BY <1>7, FinishKeeps DEF RequestRefund
<1> QED
  BY <1>1, <1>2, <1>3, <1>4, <1>5, <1>6, <1>7 DEF PaymentStep

\* Only a placement starts by creating an order, and then one that is not there and
\* that no job is about.
LEMMA StartAlone ==
    ASSUME Shape, NEW w \in Workers, Start(w)
    PROVE  /\ OnlyJobOf(w) /\ status' = status
           /\ pc'[w] = "create" =>
                 /\ status[task'[w].order] = "NONE"
                 /\ \A x \in Workers : task[x].order # task'[w].order
<1> USE DEF Begin, Goto, Job, OnlyJobOf, Shape, JobType, database, orderVars
<1>1. ASSUME NEW s \in Sessions, NEW o \in Orders, NEW op \in {"place", "placeCod"},
             StartPlace(w, s, o, op)
      PROVE  /\ OnlyJobOf(w) /\ status' = status
             /\ task'[w].order = o /\ status[o] = "NONE" /\ \A x \in Workers : task[x].order # o
  BY <1>1 DEF StartPlace
<1>2. ASSUME \/ \E s \in Sessions : Abandon(w, s)
             \/ \E o \in Orders :
                   \/ StartVerify(w, o) \/ DeliverCaptured(w, o) \/ DeliverAuthorized(w, o)
                   \/ DeliverFailed(w, o) \/ Expire(w, o) \/ Reconcile(w, o)
      PROVE  OnlyJobOf(w) /\ status' = status /\ pc'[w] # "create"
  BY <1>2 DEF Abandon, StartVerify, DeliverCaptured, DeliverAuthorized, DeliverFailed, Expire, Reconcile
<1>3. ASSUME \E o \in Orders : Cancel(w, o) \/ \E to \in AdminTargets : AdminSetStatus(w, o, to)
      PROVE  OnlyJobOf(w) /\ status' = status /\ pc'[w] # "create"
  BY <1>3 DEF Cancel, AdminSetStatus
<1> QED
  BY <1>1, <1>2, <1>3 DEF Start

LEMMA CreatingInvariant == Spec => []Creating
<1>1. Init => Creating
  BY DEF Init, Creating
<1>2. Shape /\ Creating /\ [Next]_vars => Creating'
  <2> SUFFICES ASSUME Shape, Creating, [Next]_vars PROVE Creating'
    OBVIOUS
  <2>1. ASSUME NEW w \in Workers, GoesOn(w) PROVE Creating'
    BY <2>1 DEF GoesOn, OnlyJobOf, Creating, Ord
  <2>2. ASSUME NEW w \in Workers, Create(w) PROVE Creating'
    <3>1. OnlyJobOf(w) /\ pc'[w] # "create" /\ pc[w] = "create"
      BY <2>2 DEF Create, At, Goto, OnlyJobOf, Shape, JobType
    <3>2. \A o \in Orders : o # Ord(w) => status'[o] = status[o]
      BY <2>2 DEF Create, Shape, RecordType
    <3>3. \A x \in Workers : pc[x] = "create" => Ord(x) \in Orders
      BY DEF Shape, ControlOf, TaskOK, Ord
    <3> QED
      BY <3>1, <3>2, <3>3 DEF OnlyJobOf, Creating, Ord
  <2>3. ASSUME NEW w \in Workers, Move(w) PROVE Creating'
    <3>1. OnlyJobOf(w) /\ pc'[w] # "create"
      <4> USE DEF Goto, OnlyJobOf, Shape, JobType
      <4> QED
        BY <2>3, FinishKeeps DEF Move, AfterMove
    <3>2. status[Ord(w)] # "NONE" /\ \A o \in Orders : o # Ord(w) => status'[o] = status[o]
      BY <2>3 DEF Move, At, Shape, RecordType, ControlOf, Ord
    <3>3. \A x \in Workers : pc[x] = "create" => Ord(x) \in Orders
      BY DEF Shape, ControlOf, TaskOK, Ord
    <3> QED
      BY <3>1, <3>2, <3>3 DEF OnlyJobOf, Creating, Ord
  <2>4. ASSUME NEW w \in Workers, Start(w) PROVE Creating'
    BY <2>4, StartAlone DEF OnlyJobOf, Creating, Ord
  <2>5. ASSUME NEW w \in Workers, Crash(w) PROVE Creating'
    <3>1. OnlyJobOf(w) /\ pc'[w] # "create" /\ status' = status
      BY <2>5, FinishKeeps DEF Crash, Shape, database, orderVars
    <3> QED
      BY <3>1 DEF OnlyJobOf, Creating, Ord
  <2>6. ASSUME UNCHANGED <<pc, task, status>> PROVE Creating'
    BY <2>6 DEF Creating, Ord
  <2>7. ASSUME NEW o \in Orders,
               Lapse(o) \/ \E event \in {"failed", "authorized", "captured"} : ProviderEvent(o, event)
        PROVE  Creating'
    BY <2>6, <2>7 DEF Lapse, ProviderEvent, database, orderVars, jobVars
  <2> QED
    BY <2>1, <2>2, <2>3, <2>4, <2>5, <2>6, <2>7, PlacementStepGoesOn, SettlementStepGoesOn,
       PaymentStepGoesOn DEF Next, JobStep, vars, database, orderVars, jobVars
<1> QED
  BY <1>1, <1>2, ShapeInvariant, PTL DEF Spec

\* The compare-and-set of orderStateMachine.transition() lets an order move only
\* along ORDER_TRANSITIONS, however stale the order was that a handler read.
THEOREM MovesAreLegal == Spec => LegalMoves
<1>1. Shape /\ Creating /\ [Next]_vars =>
         [\A o \in Orders : status'[o] # status[o] =>
             \/ status[o] = "NONE" /\ status'[o] = "DRAFT"
             \/ status[o] # "NONE" /\ CanTransition(status[o], status'[o])]_vars
  <2> SUFFICES ASSUME Shape, Creating, [Next]_vars, NEW o \in Orders, status'[o] # status[o]
               PROVE  \/ status[o] = "NONE" /\ status'[o] = "DRAFT"
                      \/ status[o] # "NONE" /\ CanTransition(status[o], status'[o])
    OBVIOUS
  <2>1. \E w \in Workers : Create(w) \/ Move(w)
    <3>1. ~UNCHANGED status
      OBVIOUS
    <3>2. ASSUME NEW w \in Workers, Start(w) \/ Crash(w) PROVE UNCHANGED status
      BY <3>2, StartAlone DEF Crash, database, orderVars
    <3>3. ASSUME \/ UNCHANGED vars
                 \/ \E p \in Orders :
                       \/ Lapse(p)
                       \/ \E event \in {"failed", "authorized", "captured"} : ProviderEvent(p, event)
          PROVE  UNCHANGED status
      BY <3>3 DEF Lapse, ProviderEvent, database, orderVars, vars
    <3> QED
      BY <3>1, <3>2, <3>3, PlacementStepGoesOn, SettlementStepGoesOn, PaymentStepGoesOn
         DEF Next, JobStep, GoesOn
  <2>2. ASSUME NEW w \in Workers, Create(w)
        PROVE  status[o] = "NONE" /\ status'[o] = "DRAFT"
    <3>1. status' = [status EXCEPT ![Ord(w)] = "DRAFT"] /\ status[Ord(w)] = "NONE"
      BY <2>2 DEF Create, At, Creating
    <3> QED
      BY <3>1 DEF Shape, RecordType
  <2>3. ASSUME NEW w \in Workers, Move(w)
        PROVE  status[o] # "NONE" /\ CanTransition(status[o], status'[o])
    <3>1. status' = [status EXCEPT ![Ord(w)] = Target(w)]
      BY <2>3 DEF Move
    <3>2. o = Ord(w) /\ status'[o] = Target(w)
      BY <3>1 DEF Shape, RecordType
    <3>3. CanTransition(status[o], Target(w))
      BY <2>3, <3>2 DEF Move, SwapsStatus, LegalFrom
    <3>4. status[o] # "NONE"
      BY <2>3, <3>2 DEF Move, At, Shape, ControlOf, Ord
    <3> QED
      BY <3>2, <3>3, <3>4
  <2> QED
    BY <2>1, <2>2, <2>3
<1> QED
  BY <1>1, ShapeInvariant, CreatingInvariant, PTL DEF Spec, LegalMoves

-------------------------------------------------------------------------------
(***************************************************************************)
(* What the order promises (OrderContract)                                 *)
(***************************************************************************)
\* No two jobs place the same order after a step of w.
Alone(w) ==
    \A x \in Workers : x # w /\ task'[w].op \in PlacingOps /\ task[x].op \in PlacingOps
                          => task[x].order # task'[w].order

\* What a step of w establishes about its own job.
Works(w) == OnlyJobOf(w) /\ Alone(w) /\ StageOf(w)' /\ HoldsOf(w)'

\* A hold that changes has ended.
HoldsOnlyEnd ==
    \A o \in Orders, v \in Variants :
       hold'[o][v] # hold[o][v] => hold[o][v] = "RESERVED" /\ hold'[o][v] \notin {"NONE", "RESERVED"}

PaymentsFollow ==
    \A o \in Orders :
       payment'[o] # "NONE" => payment[o] # "NONE" \/ status[o] \notin {"NONE", "DRAFT"}

\* What most steps leave to the other jobs.
Calm == status' = status /\ HoldsOnlyEnd /\ PaymentsFollow

\* A step keeps the invariant if it keeps the other jobs' parts of it, its own, and
\* the orders'.
LEMMA ReleaseFromParts ==
    ASSUME Shape, ReleaseInvariant, NEW w \in Workers, Works(w),
           \A x \in Workers \ {w} : StageOf(x)' /\ HoldsOf(x)',
           PaidAfterPlacement', HeldWhileUndecided'
    PROVE  ReleaseInvariant'
<1>1. OnePlacement'
  BY DEF Works, Alone, OnlyJobOf, OnePlacement, ReleaseInvariant, Stages, Ord
<1> QED
  BY <1>1 DEF Works, ReleaseInvariant, Stages, Holding

\* A step that changes no status and only ends holds does not disturb other jobs.
LEMMA CalmKeepsOthers ==
    ASSUME Shape, ReleaseInvariant, NEW w \in Workers, OnlyJobOf(w), Calm, NEW x \in Workers \ {w}
    PROVE  StageOf(x)' /\ HoldsOf(x)'
<1>1. StageOf(x) /\ HoldsOf(x)
  BY DEF ReleaseInvariant, Stages, Holding
<1>2. /\ pc'[x] = pc[x] /\ task'[x] = task[x] /\ cur'[x] = cur[x]
      /\ todo'[x] = todo[x] /\ seen'[x] = seen[x] /\ status' = status
  BY DEF OnlyJobOf, Calm
<1>3. StageOf(x)'
  BY <1>1, <1>2 DEF StageOf, Ord
<1>4. pc[x] # "idle" => Ord(x) \in Orders
  BY DEF Shape, ControlOf, TaskOK, Ord
<1>5. Ord(x)' = Ord(x)
  BY <1>2 DEF Ord
<1>6. \A o \in Orders, v \in Variants :
         /\ hold[o][v] = "NONE" => hold'[o][v] = "NONE"
         /\ hold'[o][v] = "RESERVED" => hold[o][v] = "RESERVED"
  BY DEF Calm, HoldsOnlyEnd
<1>7. todo[x] \subseteq Variants
  BY DEF Shape, JobType
<1>8. HoldsOf(x)'
  BY <1>1, <1>2, <1>4, <1>5, <1>6, <1>7 DEF HoldsOf, Active, HoldOps
<1> QED
  BY <1>3, <1>8

LEMMA CalmStep ==
    ASSUME Shape, ReleaseInvariant, NEW w \in Workers, Works(w), Calm
    PROVE  ReleaseInvariant'
<1>1. \A x \in Workers \ {w} : StageOf(x)' /\ HoldsOf(x)'
  BY CalmKeepsOthers DEF Works
<1>2. PaidAfterPlacement'
  BY DEF Calm, PaymentsFollow, PaidAfterPlacement, ReleaseInvariant, Stages
<1>3. HeldWhileUndecided'
  <2>1. \A o \in Orders, v \in Variants :
           /\ hold[o][v] = "NONE" => hold'[o][v] = "NONE"
           /\ hold'[o][v] = "RESERVED" => hold[o][v] = "RESERVED"
    BY DEF Calm, HoldsOnlyEnd
  <2> QED
    BY <2>1 DEF Calm, HeldWhileUndecided, ReleaseInvariant, Holding, Active
<1> QED
  BY <1>1, <1>2, <1>3, ReleaseFromParts

\* The end of a job, and a job that goes on with the same task.
LEMMA FinishWorks ==
    ASSUME Shape, NEW w \in Workers, Finish(w)
    PROVE  Works(w)
<1>1. OnlyJobOf(w) /\ pc'[w] = "idle" /\ task'[w] = NoTask
  BY FinishKeeps DEF Shape
<1> QED
  BY <1>1 DEF Works, Alone, StageOf, HoldsOf, NoTask, PlacingOps, HoldOps

LEMMA SameTaskAlone ==
    ASSUME ReleaseInvariant, NEW w \in Workers,
           task'[w].op \in PlacingOps => task[w].op \in PlacingOps /\ task'[w].order = task[w].order
    PROVE  Alone(w)
BY DEF Alone, ReleaseInvariant, Stages, OnePlacement, Ord

LEMMA OwnParts ==
    ASSUME ReleaseInvariant, NEW w \in Workers
    PROVE  StageOf(w) /\ HoldsOf(w)
BY DEF ReleaseInvariant, Stages, Holding

LEMMA StepPlacementCalm ==
    ASSUME Shape, ReleaseInvariant, NEW w \in Workers, PlacementStep(w),
           ~Create(w), ~WriteReservation(w)
    PROVE  Works(w) /\ Calm
<1> USE OwnParts DEF At, Goto, Works, OnlyJobOf, StageOf, HoldsOf, Calm, HoldsOnlyEnd,
        PaymentsFollow, Ord, Shape, JobType, ControlOf, OpAt, PlacingOps, HoldOps, orderVars, paymentVars, database
<1>1. CASE ReserveItem(w)
  BY <1>1, SameTaskAlone DEF ReserveItem
<1>2. CASE ReserveCoupon(w)
  BY <1>2, SameTaskAlone DEF ReserveCoupon
<1>3. CASE UndoReserve(w)
  BY <1>3, SameTaskAlone DEF UndoReserve
<1>4. CASE UndoRows(w)
  <2>1. Works(w)
    <3> HIDE DEF Works
    <3> QED
      BY <1>4, FinishWorks DEF UndoRows
  <2>2. hold' = [hold EXCEPT ![Ord(w)] =
                   [v \in Variants |-> IF @[v] = "RESERVED" THEN "RELEASED" ELSE @[v]]]
    BY <1>4 DEF UndoRows
  <2>3. hold \in [Orders -> [Variants -> HoldStatuses]]
    BY DEF RecordType
  <2>4. HoldsOnlyEnd
    BY <2>2, <2>3
  <2>5. status' = status /\ payment' = payment
    BY <1>4 DEF UndoRows
  <2> QED
    BY <2>1, <2>4, <2>5
<1>5. CASE AttachSession(w)
  BY <1>5, SameTaskAlone DEF AttachSession
<1>6. CASE ProviderAccepts(w)
  BY <1>6, SameTaskAlone DEF ProviderAccepts
<1>7. CASE ProviderRefuses(w)
  BY <1>7, SameTaskAlone DEF ProviderRefuses, Job
<1>8. CASE WritePayment(w)
  <2>1. Works(w)
    <3> HIDE DEF Works
    <3> QED
      BY <1>8, FinishWorks DEF WritePayment
  <2>2. status' = status /\ hold' = hold /\ payment' = [payment EXCEPT ![Ord(w)] = "PENDING"]
    BY <1>8 DEF WritePayment
  <2>3. status[Ord(w)] \notin {"NONE", "DRAFT"}
    BY <1>8 DEF WritePayment
  <2>4. PaymentsFollow
    BY <2>2, <2>3 DEF RecordType
  <2> QED
    BY <2>1, <2>2, <2>4
<1>9. CASE WriteCodPayment(w)
  BY <1>9, SameTaskAlone DEF WriteCodPayment, RecordType
<1> QED
  BY <1>1, <1>2, <1>3, <1>4, <1>5, <1>6, <1>7, <1>8, <1>9 DEF PlacementStep

LEMMA StepSettlementCalm ==
    ASSUME Shape, ReleaseInvariant, NEW w \in Workers, SettlementStep(w), ~Move(w)
    PROVE  Works(w) /\ Calm
<1> USE OwnParts DEF At, Goto, Works, OnlyJobOf, StageOf, HoldsOf, Calm, HoldsOnlyEnd, Commits,
        PaymentsFollow, Ord, Shape, JobType, ControlOf, OpAt, PlacingOps, HoldOps, orderVars,
        paymentVars, database
<1>1. CASE ListHolds(w)
  BY <1>1, SameTaskAlone DEF ListHolds, Active
<1>2. CASE SettleHold(w)
  <2>1. OnlyJobOf(w) /\ Alone(w) /\ StageOf(w)' /\ status' = status /\ PaymentsFollow
    BY <1>2, SameTaskAlone DEF SettleHold, NextHold
  <2>2. task'[w] = task[w] /\ Ord(w) \in Orders /\ hold \in [Orders -> [Variants -> HoldStatuses]]
    BY <1>2, <2>1 DEF SettleHold, RecordType, TaskOK
  <2>0. PICK v \in todo[w] :
           IF StillReserved(Ord(w), v)
           THEN /\ hold' = [hold EXCEPT ![Ord(w)][v] = SettledAs(w)]
                /\ cur' = [cur EXCEPT ![w] = v]
                /\ Goto(w, "giveback")
                /\ UNCHANGED todo
           ELSE NextHold(w, v) /\ UNCHANGED <<hold, cur>>
    <3> HIDE DEF Works, OnlyJobOf, StageOf, HoldsOf, Calm, HoldsOnlyEnd, PaymentsFollow, Shape, JobType,
             ControlOf, OpAt, Goto
    <3> QED
      BY <1>2 DEF SettleHold
  <2>3. IF hold[Ord(w)][v] = "RESERVED"
        THEN /\ hold' = [hold EXCEPT ![Ord(w)][v] = SettledAs(w)]
             /\ cur'[w] = v /\ pc'[w] = "giveback" /\ todo'[w] = todo[w]
        ELSE /\ hold' = hold /\ todo'[w] = todo[w] \ {v}
             /\ pc'[w] = IF todo[w] = {v} THEN "redeem" ELSE "settle"
    BY <2>0 DEF NextHold, StillReserved
  <2>4. v \in Variants /\ SettledAs(w) \notin {"NONE", "RESERVED"} /\ Active(Ord(w)) \subseteq todo[w]
    BY <1>2, <2>3 DEF SettleHold, SettledAs
  <2>5. HoldsOnlyEnd
    BY <2>2, <2>3, <2>4
  <2>6. HoldsOf(w)'
    BY <2>2, <2>3, <2>4 DEF Active
  <2> QED
    BY <2>1, <2>5, <2>6
<1>3. CASE GiveBack(w)
  BY <1>3, SameTaskAlone DEF GiveBack, NextHold, Active
<1>4. CASE Deduct(w)
  BY <1>4, SameTaskAlone DEF Deduct, NextHold, Active
<1>5. CASE ReadRedemption(w)
  BY <1>5, SameTaskAlone DEF ReadRedemption, AfterCoupon, Active
<1>6. CASE WriteRedemption(w)
  BY <1>6, SameTaskAlone DEF WriteRedemption, AfterCoupon, Active
<1>7. CASE ConvertCart(w)
  BY <1>7, SameTaskAlone DEF ConvertCart, Active
<1>8. CASE MarkPayment(w)
  BY <1>8, SameTaskAlone DEF MarkPayment, Active
<1>9. CASE Reload(w)
  BY <1>9, SameTaskAlone DEF Reload, Active
<1>10. CASE MoveAlreadyMade(w)
  <2>1. Calm /\ ~(task[w].op \in PlacingOps)
    BY <1>10 DEF MoveAlreadyMade, AlreadyThere, Target
  <2>2. CASE task[w].op = "cancel"
    BY <1>10, <2>1, <2>2, SameTaskAlone DEF MoveAlreadyMade, AfterMove
  <2>3. CASE task[w].op # "cancel"
    <3>1. Finish(w)
      BY <1>10, <2>1, <2>3 DEF MoveAlreadyMade, AfterMove
    <3> HIDE DEF Works, Calm
    <3> QED
      BY <2>1, <3>1, FinishWorks
  <2> QED
    BY <2>2, <2>3
<1>11. CASE MoveRefused(w)
  BY <1>11, FinishWorks DEF MoveRefused
<1> QED
  BY <1>1, <1>2, <1>3, <1>4, <1>5, <1>6, <1>7, <1>8, <1>9, <1>10, <1>11 DEF SettlementStep

LEMMA StepPaymentCalm ==
    ASSUME Shape, ReleaseInvariant, NEW w \in Workers, PaymentStep(w)
    PROVE  Works(w) /\ Calm
<1> USE OwnParts DEF At, Goto, Works, OnlyJobOf, StageOf, HoldsOf, Calm, HoldsOnlyEnd, Commits,
        PaymentsFollow, Ord, Shape, JobType, ControlOf, OpAt, PlacingOps, HoldOps, orderVars,
        paymentVars, database
<1>1. CASE WriteAuthorized(w)
  <2>1. Calm
    BY <1>1 DEF WriteAuthorized, RecordType
  <2> HIDE DEF Works, Calm
  <2> QED
    BY <1>1, <2>1, FinishWorks DEF WriteAuthorized
<1>2. CASE WriteFailed(w)
  BY <1>2, SameTaskAlone DEF WriteFailed, RecordType
<1>3. CASE Capture(w)
  <2>1. Calm
    BY <1>3 DEF Capture, RecordType
  <2>2. CASE payment[Ord(w)] \in {"PENDING", "AUTHORIZED"}
    BY <1>3, <2>1, <2>2, SameTaskAlone DEF Capture
  <2>3. CASE payment[Ord(w)] \notin {"PENDING", "AUTHORIZED"}
    <3> HIDE DEF Works, Calm
    <3> QED
      BY <1>3, <2>1, <2>3, FinishWorks DEF Capture
  <2> QED
    BY <2>2, <2>3
<1>4. CASE RecordPaid(w)
  BY <1>4, SameTaskAlone DEF RecordPaid
<1>5. CASE LookUpPayment(w)
  BY <1>5, SameTaskAlone DEF LookUpPayment
<1>6. CASE AskProvider(w)
  <2>1. Calm
    BY <1>6 DEF AskProvider
  <2>2. CASE Finish(w)
    <3> HIDE DEF Works, Calm
    <3> QED
      BY <2>1, <2>2, FinishWorks
  <2>3. CASE ~Finish(w)
    BY <1>6, <2>1, <2>3, SameTaskAlone DEF AskProvider, Job
  <2> QED
    BY <2>2, <2>3
<1>7. CASE RequestRefund(w)
  BY <1>7, FinishWorks DEF RequestRefund
<1> QED
  BY <1>1, <1>2, <1>3, <1>4, <1>5, <1>6, <1>7 DEF PaymentStep

\* A handler starts on an order that is at its stage.
LEMMA StartCalm ==
    ASSUME Shape, ReleaseInvariant, NEW w \in Workers, Start(w)
    PROVE  Works(w) /\ Calm
<1> USE DEF Begin, Goto, Job, Works, OnlyJobOf, StageOf, HoldsOf, Calm, HoldsOnlyEnd, PaymentsFollow,
        Ord, Shape, JobType, PlacingOps, HoldOps, orderVars, paymentVars, database
<1>0. PaidAfterPlacement
  BY DEF ReleaseInvariant, Stages
<1>1. ASSUME NEW s \in Sessions, NEW o \in Orders, NEW op \in {"place", "placeCod"},
             StartPlace(w, s, o, op)
      PROVE  Works(w) /\ Calm
  BY <1>1 DEF StartPlace, Alone
<1>2. ASSUME NEW s \in Sessions, Abandon(w, s) PROVE Works(w) /\ Calm
  BY <1>2, SameTaskAlone DEF Abandon
<1>3. ASSUME NEW o \in Orders, StartVerify(w, o) \/ DeliverCaptured(w, o) PROVE Works(w) /\ Calm
  BY <1>0, <1>3, SameTaskAlone DEF StartVerify, DeliverCaptured, PaidAfterPlacement
<1>4. ASSUME NEW o \in Orders, DeliverAuthorized(w, o) \/ DeliverFailed(w, o) PROVE Works(w) /\ Calm
  BY <1>0, <1>4, SameTaskAlone DEF DeliverAuthorized, DeliverFailed, PaidAfterPlacement
<1>5. ASSUME NEW o \in Orders, Expire(w, o) \/ Reconcile(w, o) PROVE Works(w) /\ Calm
  BY <1>5, SameTaskAlone DEF Expire, Reconcile, Stale
<1>6. ASSUME NEW o \in Orders, Cancel(w, o) PROVE Works(w) /\ Calm
  BY <1>6, SameTaskAlone DEF Cancel
<1>7. ASSUME NEW o \in Orders, NEW to \in AdminTargets, AdminSetStatus(w, o, to) PROVE Works(w) /\ Calm
  BY <1>7, SameTaskAlone DEF AdminSetStatus
<1> QED
  BY <1>1, <1>2, <1>3, <1>4, <1>5, <1>6, <1>7 DEF Start

LEMMA CrashCalm ==
    ASSUME Shape, ReleaseInvariant, NEW w \in Workers, Crash(w)
    PROVE  Works(w) /\ Calm
BY FinishWorks DEF Crash, Calm, HoldsOnlyEnd, PaymentsFollow, database, orderVars, paymentVars

-------------------------------------------------------------------------------
(* The steps that are not calm: an order appears, takes a hold, or moves *)

\* An order that is placed right now is nobody else's.
LEMMA PlacementIsPrivate ==
    ASSUME Shape, ReleaseInvariant, Creating, NEW w \in Workers, task[w].op \in PlacingOps,
           pc[w] \notin {"provider", "payrow"}, NEW x \in Workers \ {w}, pc[x] # "idle",
           Ord(x) = Ord(w)
    PROVE  task[x].op = "admin" /\ pc[w] # "create"
<1>1. OpAt(pc[x], task[x].op) /\ StageOf(x) /\ StageOf(w) /\ task[x].op \in Ops /\ task[x].op # "idle"
  BY OwnParts DEF Shape, JobType, Task, ControlOf
<1>2. task[x].op \notin PlacingOps
  BY DEF ReleaseInvariant, Stages, OnePlacement
<1>3. status[Ord(w)] \in {"NONE", "DRAFT"} /\ (pc[w] = "create" => status[Ord(w)] = "NONE")
  BY <1>1 DEF StageOf
<1>4. task[x].op \notin HoldOps \cup {"authorize"}
  BY <1>1, <1>3 DEF StageOf
<1>5. task[x].op = "admin" /\ status[Ord(x)] # "NONE"
  BY <1>1, <1>2, <1>4 DEF Ops, PlacingOps, HoldOps, StageOf
<1> QED
  BY <1>3, <1>5

LEMMA CreateKeepsRelease ==
    ASSUME Shape, ReleaseInvariant, Creating, NEW w \in Workers, Create(w)
    PROVE  ReleaseInvariant'
<1>1. pc[w] = "create" /\ task[w].op \in PlacingOps /\ Ord(w) \in Orders /\ status[Ord(w)] = "NONE"
  BY DEF Create, At, Shape, ControlOf, OpAt, TaskOK, Ord, Creating, PlacingOps
<1>2. OnlyJobOf(w) /\ task'[w] = task[w] /\ seen'[w] = NoSnapshot
  BY DEF Create, Goto, OnlyJobOf, Shape, JobType
<1>3. status' = [status EXCEPT ![Ord(w)] = "DRAFT"] /\ hold' = hold /\ payment' = payment
  BY DEF Create, paymentVars
<1>4. \A v \in Variants : hold[Ord(w)][v] = "NONE"
  BY <1>1 DEF ReleaseInvariant, Holding, HeldWhileUndecided
<1>5. status'[Ord(w)] = "DRAFT" /\ \A o \in Orders : o # Ord(w) => status'[o] = status[o]
  BY <1>1, <1>3 DEF Shape, RecordType
<1>6. Works(w)
  <2>1. pc'[w] \in {"coupon", "reserve"} /\ todo[w]' \subseteq Variants
    BY DEF Create, Goto, Lines, Shape, JobType
  <2>2. StageOf(w)'
    BY <1>1, <1>2, <1>5, <2>1 DEF StageOf, Ord, NoSnapshot, PlacingOps, HoldOps
  <2>3. HoldsOf(w)'
    BY <1>1, <1>2, <1>3, <1>4, <2>1 DEF HoldsOf, Ord
  <2> QED
    BY <1>1, <1>2, <2>2, <2>3, SameTaskAlone DEF Works
<1>7. ASSUME NEW x \in Workers \ {w} PROVE StageOf(x)' /\ HoldsOf(x)'
  <2>1. /\ pc'[x] = pc[x] /\ task'[x] = task[x] /\ cur'[x] = cur[x]
        /\ todo'[x] = todo[x] /\ seen'[x] = seen[x] /\ Ord(x)' = Ord(x)
    BY <1>2 DEF OnlyJobOf, Ord
  <2>2. StageOf(x) /\ HoldsOf(x)
    BY OwnParts
  <2>3. HoldsOf(x)'
    BY <1>3, <2>1, <2>2 DEF HoldsOf, Active
  <2>4. CASE pc[x] = "idle"
    BY <2>1, <2>3, <2>4 DEF StageOf, Shape, ControlOf, PlacingOps, HoldOps
  <2>5. CASE pc[x] # "idle"
    <3>1. Ord(x) \in Orders /\ (pc[x] # "create" => status[Ord(x)] # "NONE")
      BY <2>5 DEF Shape, ControlOf, TaskOK, Ord
    <3>2. Ord(x) # Ord(w)
      BY <1>1, <3>1 DEF Creating
    <3>3. status'[Ord(x)] = status[Ord(x)]
      BY <1>5, <3>1, <3>2
    <3> QED
      BY <2>1, <2>2, <2>3, <3>3 DEF StageOf
  <2> QED
    BY <2>3, <2>4, <2>5
<1>8. PaidAfterPlacement'
  BY <1>1, <1>3, <1>5 DEF PaidAfterPlacement, ReleaseInvariant, Stages
<1>9. HeldWhileUndecided'
  BY <1>1, <1>3, <1>5 DEF HeldWhileUndecided, ReleaseInvariant, Holding, Undecided, Active
<1> QED
  BY <1>6, <1>7, <1>8, <1>9, ReleaseFromParts

LEMMA WriteReservationKeepsRelease ==
    ASSUME Shape, ReleaseInvariant, Creating, NEW w \in Workers, WriteReservation(w)
    PROVE  ReleaseInvariant'
<1>1. pc[w] = "row" /\ task[w].op \in PlacingOps /\ Ord(w) \in Orders /\ cur[w] \in Variants
  BY DEF WriteReservation, At, Shape, ControlOf, OpAt, TaskOK, Ord, PlacingOps
<1>2. /\ OnlyJobOf(w) /\ task'[w] = task[w] /\ seen'[w] = seen[w]
      /\ todo'[w] = todo[w] \ {cur[w]} /\ pc'[w] \in {"coupon", "reserve"}
  BY DEF WriteReservation, Goto, OnlyJobOf, Shape, JobType
<1>3. /\ hold' = [hold EXCEPT ![Ord(w)][cur[w]] = "RESERVED"]
      /\ status' = status /\ payment' = payment
  BY DEF WriteReservation, orderVars, paymentVars
<1>4. /\ hold'[Ord(w)] = [hold[Ord(w)] EXCEPT ![cur[w]] = "RESERVED"]
      /\ \A o \in Orders : o # Ord(w) => hold'[o] = hold[o]
      /\ \A v \in Variants : v # cur[w] => hold'[Ord(w)][v] = hold[Ord(w)][v]
  BY <1>1, <1>3 DEF Shape, RecordType
<1>5. status[Ord(w)] = "DRAFT"
  BY <1>1, OwnParts DEF StageOf
<1>6. Works(w)
  <2>1. StageOf(w)'
    BY <1>1, <1>2, <1>3, <1>5, OwnParts DEF StageOf, Ord, PlacingOps, HoldOps
  <2>2. HoldsOf(w)'
    BY <1>1, <1>2, <1>4, OwnParts DEF HoldsOf, Ord, Shape, JobType
  <2> QED
    BY <1>1, <1>2, <2>1, <2>2, SameTaskAlone DEF Works
<1>7. ASSUME NEW x \in Workers \ {w} PROVE StageOf(x)' /\ HoldsOf(x)'
  <2>1. /\ pc'[x] = pc[x] /\ task'[x] = task[x] /\ cur'[x] = cur[x]
        /\ todo'[x] = todo[x] /\ seen'[x] = seen[x] /\ Ord(x)' = Ord(x)
    BY <1>2 DEF OnlyJobOf, Ord
  <2>2. StageOf(x) /\ HoldsOf(x)
    BY OwnParts
  <2>3. StageOf(x)'
    BY <1>3, <2>1, <2>2 DEF StageOf
  <2>4. CASE pc[x] = "idle" \/ Ord(x) # Ord(w)
    <3>1. pc[x] # "idle" => Ord(x) \in Orders
      BY DEF Shape, ControlOf, TaskOK, Ord
    <3> QED
      BY <1>4, <2>1, <2>2, <2>3, <2>4, <3>1 DEF HoldsOf, Active
  <2>5. CASE pc[x] # "idle" /\ Ord(x) = Ord(w)
    <3>1. task[x].op = "admin"
      BY <1>1, <2>5, PlacementIsPrivate
    <3>2. pc[x] = "move"
      BY <2>5, <3>1 DEF Shape, JobType, ControlOf, OpAt, Steps, PlacingOps, HoldOps
    <3> QED
      BY <2>1, <2>3, <3>1, <3>2 DEF HoldsOf, HoldOps
  <2> QED
    BY <2>3, <2>4, <2>5
<1>8. PaidAfterPlacement'
  BY <1>3 DEF PaidAfterPlacement, ReleaseInvariant, Stages
<1>9. HeldWhileUndecided'
  BY <1>3, <1>4, <1>5 DEF HeldWhileUndecided, ReleaseInvariant, Holding, Undecided, Active
<1> QED
  BY <1>6, <1>7, <1>8, <1>9, ReleaseFromParts

\* Where transition() may take an order, and from where.
LEMMA MoveFacts ==
    ASSUME AdminStaysCommitted, Shape, ReleaseInvariant, NEW w \in Workers, Move(w)
    PROVE  /\ Ord(w) \in Orders
           /\ status' = [status EXCEPT ![Ord(w)] = Target(w)]
           /\ status[Ord(w)] # "NONE" /\ Target(w) \notin {"NONE", "DRAFT"}
           /\ task[w].op \in PlacingOps => status[Ord(w)] = "DRAFT" /\ Target(w) = "PENDING_PAYMENT"
           /\ task[w].op \notin PlacingOps =>
                 /\ status[Ord(w)] # "DRAFT" /\ Active(Ord(w)) = {}
                 /\ Target(w) # "PENDING_PAYMENT"
<1>1. /\ pc[w] = "move" /\ Ord(w) \in Orders /\ status[Ord(w)] # "NONE"
      /\ task[w].op \in PlacingOps \cup HoldOps \cup {"admin"}
      /\ task[w].op = "admin" => task[w].to \in AdminTargets
  BY DEF Move, At, Shape, ControlOf, OpAt, TaskOK, Ord
<1>2. /\ status' = [status EXCEPT ![Ord(w)] = Target(w)]
      /\ Target(w) \in OrderTransitions[status[Ord(w)]]
  BY DEF Move, SwapsStatus, LegalFrom, CanTransition
<1>3. Target(w) \notin {"NONE", "DRAFT"}
  <2>1. status[Ord(w)] \in OrderStatuses
    BY <1>1 DEF Shape, RecordType
  <2>2. \A s \in OrderStatuses : "NONE" \notin OrderTransitions[s] /\ "DRAFT" \notin OrderTransitions[s]
    BY DEF OrderStatuses, OrderTransitions
  <2> QED
    BY <1>2, <2>1, <2>2
<1>4. CASE task[w].op \in PlacingOps
  <2>1. status[Ord(w)] = "DRAFT"
    BY <1>1, <1>4, OwnParts DEF StageOf
  <2>2. Target(w) = "PENDING_PAYMENT"
    BY <1>4 DEF Target, PlacingOps
  <2> QED
    BY <1>1, <1>2, <1>4, <2>1, <2>2
<1>5. CASE task[w].op \in HoldOps
  <2>1. Target(w) \in {"CONFIRMED", "PAYMENT_FAILED", "EXPIRED", "CANCELLED"}
    BY <1>5 DEF Target, HoldOps
  <2>2. status[Ord(w)] # "DRAFT" /\ Active(Ord(w)) = {}
    BY <1>1, <1>5, OwnParts DEF StageOf, HoldsOf
  <2> QED
    BY <1>1, <1>2, <1>3, <1>5, <2>1, <2>2 DEF HoldOps, PlacingOps
<1>6. CASE task[w].op = "admin"
  <2>1. Target(w) = task[w].to /\ Target(w) \in AdminTargets
    BY <1>1, <1>6 DEF Target
  <2>2. Target(w) \notin {"PENDING_PAYMENT", "CONFIRMED", "PAYMENT_FAILED", "CANCELLED", "EXPIRED"}
    BY <2>1 DEF AdminStaysCommitted, ReleasingStatuses
  <2>3. status[Ord(w)] \notin Undecided
    BY <1>2, <2>2 DEF OrderTransitions, Undecided
  <2>4. Active(Ord(w)) = {}
    BY <1>1, <2>3 DEF ReleaseInvariant, Holding, HeldWhileUndecided
  <2> QED
    BY <1>1, <1>2, <1>3, <1>6, <2>2, <2>3, <2>4 DEF PlacingOps, Undecided
<1> QED
  BY <1>1, <1>4, <1>5, <1>6

LEMMA MoveKeepsRelease ==
    ASSUME AdminStaysCommitted, Shape, ReleaseInvariant, Creating, NEW w \in Workers, Move(w)
    PROVE  ReleaseInvariant'
<1> DEFINE o == Ord(w)
<1>1. /\ o \in Orders
      /\ status' = [status EXCEPT ![o] = Target(w)]
      /\ status[o] # "NONE" /\ Target(w) \notin {"NONE", "DRAFT"}
      /\ task[w].op \in PlacingOps => status[o] = "DRAFT" /\ Target(w) = "PENDING_PAYMENT"
      /\ task[w].op \notin PlacingOps =>
            status[o] # "DRAFT" /\ Active(o) = {} /\ Target(w) # "PENDING_PAYMENT"
  BY MoveFacts
<1>2. /\ status'[o] = Target(w)
      /\ \A p \in Orders : p # o => status'[p] = status[p]
      /\ hold' = hold /\ payment' = payment /\ pc[w] = "move"
  BY <1>1 DEF Move, At, Shape, RecordType, paymentVars
<1>3. Works(w)
  <2>1. CASE Finish(w)
    BY <2>1, FinishWorks
  <2>2. CASE task[w].op = "place" /\ Goto(w, "provider") /\ UNCHANGED <<task, todo, cur, seen>>
    <3>1. OnlyJobOf(w) /\ task'[w] = task[w] /\ pc'[w] = "provider" /\ Ord(w)' = Ord(w)
      BY <2>2 DEF Goto, OnlyJobOf, Shape, JobType, Ord
    <3>2. StageOf(w)' /\ HoldsOf(w)'
      BY <1>1, <1>2, <2>2, <3>1 DEF StageOf, HoldsOf, HoldOps
    <3> QED
      BY <2>2, <3>1, <3>2, SameTaskAlone DEF Works
  <2>3. CASE /\ task[w].op = "placeCod"
             /\ task' = [task EXCEPT ![w] = Job("cod", Ord(w))]
             /\ Goto(w, "reload") /\ UNCHANGED <<todo, cur, seen>>
    <3>1. OnlyJobOf(w) /\ task'[w] = Job("cod", o) /\ pc'[w] = "reload" /\ Ord(w)' = Job("cod", o).order
      BY <2>3 DEF Goto, OnlyJobOf, Shape, JobType, Ord
    <3>2. StageOf(w)' /\ HoldsOf(w)' /\ task'[w].op \notin PlacingOps
      BY <1>1, <1>2, <3>1 DEF StageOf, HoldsOf, HoldOps, PlacingOps, Commits, Job
    <3> QED
      BY <3>1, <3>2, SameTaskAlone DEF Works
  <2>4. CASE task[w].op = "cancel" /\ Goto(w, "refund") /\ UNCHANGED <<task, todo, cur, seen>>
    <3>1. OnlyJobOf(w) /\ task'[w] = task[w] /\ pc'[w] = "refund" /\ Ord(w)' = Ord(w)
      BY <2>4 DEF Goto, OnlyJobOf, Shape, JobType, Ord
    <3>2. StageOf(w)' /\ HoldsOf(w)'
      BY <1>1, <1>2, <2>4, <3>1 DEF StageOf, HoldsOf, HoldOps, PlacingOps
    <3> QED
      BY <2>4, <3>1, <3>2, SameTaskAlone DEF Works
  <2> QED
    BY <2>1, <2>2, <2>3, <2>4 DEF Move, AfterMove
<1>4. ASSUME NEW x \in Workers \ {w} PROVE StageOf(x)' /\ HoldsOf(x)'
  <2>1. /\ pc'[x] = pc[x] /\ task'[x] = task[x] /\ cur'[x] = cur[x]
        /\ todo'[x] = todo[x] /\ seen'[x] = seen[x] /\ Ord(x)' = Ord(x)
    BY <1>3 DEF Works, OnlyJobOf, Ord
  <2>2. StageOf(x) /\ HoldsOf(x)
    BY OwnParts
  <2>3. HoldsOf(x)'
    BY <1>2, <2>1, <2>2 DEF HoldsOf, Active
  <2>4. CASE pc[x] = "idle"
    BY <2>1, <2>3, <2>4 DEF StageOf, Shape, ControlOf, PlacingOps, HoldOps
  <2>5. CASE pc[x] # "idle" /\ Ord(x) # o
    <3>1. Ord(x) \in Orders
      BY <2>5 DEF Shape, ControlOf, TaskOK, Ord
    <3>2. status'[Ord(x)] = status[Ord(x)]
      BY <1>2, <2>5, <3>1
    <3> QED
      BY <2>1, <2>2, <2>3, <3>2 DEF StageOf
  <2>6. CASE pc[x] # "idle" /\ Ord(x) = o
    <3>1. pc[x] # "create"
      BY <1>1, <2>6 DEF Creating
    <3>2. task[x].op \in PlacingOps => pc[x] \in {"provider", "payrow"}
      <4>1. CASE task[w].op \in PlacingOps
        BY <1>2, <2>6, <4>1, PlacementIsPrivate DEF PlacingOps
      <4>2. CASE task[w].op \notin PlacingOps
        BY <1>1, <2>2, <2>6, <3>1, <4>2 DEF StageOf
      <4> QED
        BY <4>1, <4>2
    <3> QED
      BY <1>1, <1>2, <2>1, <2>3, <2>6, <3>1, <3>2 DEF StageOf
  <2> QED
    BY <2>4, <2>5, <2>6
<1>5. PaidAfterPlacement'
  BY <1>1, <1>2 DEF PaidAfterPlacement, ReleaseInvariant, Stages
<1>6. HeldWhileUndecided'
  BY <1>1, <1>2 DEF HeldWhileUndecided, ReleaseInvariant, Holding, Undecided, Active
<1> QED
  BY <1>3, <1>4, <1>5, <1>6, ReleaseFromParts

LEMMA OthersCalm ==
    ASSUME Shape, ReleaseInvariant, NEW o \in Orders,
           Lapse(o) \/ \E event \in {"failed", "authorized", "captured"} : ProviderEvent(o, event)
    PROVE  UNCHANGED <<status, hold, payment, jobVars>>
BY DEF Lapse, ProviderEvent, database, orderVars, paymentVars, jobVars

LEMMA SameRelease ==
    ASSUME ReleaseInvariant, UNCHANGED <<status, hold, payment, jobVars>>
    PROVE  ReleaseInvariant'
BY DEF jobVars, ReleaseInvariant, Stages, StageOf, OnePlacement, PaidAfterPlacement, Holding, HoldsOf,
   HeldWhileUndecided, Ord, Active

\* Which handler works on an order at which stage, and what it has left to release.
LEMMA ReleaseInductive ==
    ASSUME AdminStaysCommitted
    PROVE  Spec => []ReleaseInvariant
<1>1. Init => ReleaseInvariant
  BY DEF Init, ReleaseInvariant, Stages, StageOf, OnePlacement, PaidAfterPlacement, Holding, HoldsOf,
     HeldWhileUndecided, Ord, Active, NoTask, PlacingOps, HoldOps
<1>2. Shape /\ Creating /\ ReleaseInvariant /\ [Next]_vars => ReleaseInvariant'
  <2> SUFFICES ASSUME Shape, Creating, ReleaseInvariant, [Next]_vars PROVE ReleaseInvariant'
    OBVIOUS
  <2>1. ASSUME NEW w \in Workers, JobStep(w) \/ Start(w) \/ Crash(w) PROVE ReleaseInvariant'
    <3>1. CASE Create(w) \/ WriteReservation(w) \/ Move(w)
      BY <3>1, CreateKeepsRelease, WriteReservationKeepsRelease, MoveKeepsRelease
    <3>2. CASE ~(Create(w) \/ WriteReservation(w) \/ Move(w))
      BY <2>1, <3>2, StepPlacementCalm, StepSettlementCalm, StepPaymentCalm, StartCalm, CrashCalm,
         CalmStep DEF JobStep
    <3> QED
      BY <3>1, <3>2
  <2>2. ASSUME NEW o \in Orders,
               Lapse(o) \/ \E event \in {"failed", "authorized", "captured"} : ProviderEvent(o, event)
        PROVE  ReleaseInvariant'
    BY <2>2, OthersCalm, SameRelease
  <2>3. ASSUME UNCHANGED vars PROVE ReleaseInvariant'
    BY <2>3, SameRelease DEF vars, database, orderVars, paymentVars
  <2> QED
    BY <2>1, <2>2, <2>3 DEF Next
<1> QED
  BY <1>1, <1>2, ShapeInvariant, CreatingInvariant, PTL DEF Spec

\* L5, for every cart, stock and number of workers, and wherever they are killed: an
\* order that failed, expired or was cancelled holds no stock, provided that
\* administrators only move committed orders by hand.
THEOREM NothingHeldAfterRelease ==
    ASSUME AdminStaysCommitted
    PROVE  Spec => []NoHoldAfterRelease
<1>1. Shape /\ ReleaseInvariant => NoHoldAfterRelease
  BY DEF ReleaseInvariant, Holding, HeldWhileUndecided, NoHoldAfterRelease, ReleasingStatuses, Undecided
<1> QED
  BY <1>1, ShapeInvariant, ReleaseInductive, PTL

-------------------------------------------------------------------------------
(* Checkout implements OrderContract *)

LEMMA PhaseValue ==
    /\ PhaseOf("NONE") = "none"
    /\ \A st \in Undecided : PhaseOf(st) = "open"
    /\ \A st \in ReleasingStatuses : PhaseOf(st) = "released"
    /\ \A st : st \notin Undecided \cup ReleasingStatuses \cup {"NONE"} => PhaseOf(st) = "committed"
BY DEF PhaseOf, Undecided, ReleasingStatuses

LEMMA FateValue ==
    /\ FateOf("NONE") = "none" /\ FateOf("RESERVED") = "held" /\ FateOf("CONSUMED") = "sold"
    /\ \A h \in {"RELEASED", "EXPIRED"} : FateOf(h) = "returned"
BY DEF FateOf

\* The contract's view of a state.
Phase == [o \in Orders |-> PhaseOf(status[o])]
Fate == [o \in Orders |-> [v \in Variants |-> FateOf(hold[o][v])]]

LEMMA InitRefines == Init => Contract!Init
BY PhaseValue, FateValue DEF Init, Contract!Init

LEMMA StutterRefines ==
    ASSUME status' = status, hold' = hold
    PROVE  UNCHANGED Contract!vars
BY DEF Contract!vars

\* A worker's step that neither ends a hold nor is one of the three that are not calm.
LEMMA CalmRefines ==
    ASSUME Shape, NEW w \in Workers, JobStep(w) \/ Start(w) \/ Crash(w),
           ~Create(w), ~WriteReservation(w), ~Move(w), ~UndoRows(w), ~SettleHold(w)
    PROVE  status' = status /\ hold' = hold
<1> USE DEF database, orderVars
<1>1. CASE PlacementStep(w)
  BY <1>1 DEF PlacementStep, ReserveItem, ReserveCoupon, UndoReserve, AttachSession, ProviderAccepts,
     ProviderRefuses, WritePayment, WriteCodPayment
<1>2. CASE SettlementStep(w)
  BY <1>2 DEF SettlementStep, ListHolds, GiveBack, Deduct, ReadRedemption, WriteRedemption, ConvertCart,
     MarkPayment, Reload, MoveAlreadyMade, MoveRefused
<1>3. CASE PaymentStep(w)
  BY <1>3 DEF PaymentStep, WriteAuthorized, WriteFailed, Capture, RecordPaid, LookUpPayment, AskProvider,
     RequestRefund
<1>4. CASE Start(w)
  BY <1>4 DEF Start, StartPlace, Abandon, StartVerify, DeliverCaptured, DeliverAuthorized, DeliverFailed,
     Expire, Reconcile, Cancel, AdminSetStatus
<1>5. CASE Crash(w)
  BY <1>5 DEF Crash
<1> QED
  BY <1>1, <1>2, <1>3, <1>4, <1>5 DEF JobStep

LEMMA CreateRefines ==
    ASSUME Shape, Creating, NEW w \in Workers, Create(w)
    PROVE  Contract!Next
<1>1. Ord(w) \in Orders /\ status[Ord(w)] = "NONE"
  BY DEF Create, At, Shape, ControlOf, OpAt, TaskOK, Ord, Creating, PlacingOps
<1>2. status' = [status EXCEPT ![Ord(w)] = "DRAFT"] /\ hold' = hold
  BY DEF Create
<1>3. Phase[Ord(w)] = "none"
  BY <1>1, PhaseValue DEF Phase
<1>4. Phase' = [Phase EXCEPT ![Ord(w)] = "open"] /\ Fate' = Fate
  <2>1. Fate' = Fate
    BY <1>2 DEF Fate
  <2>2. status'[Ord(w)] = "DRAFT" /\ \A o \in Orders : o # Ord(w) => status'[o] = status[o]
    BY <1>1, <1>2 DEF Shape, RecordType
  <2>3. PhaseOf("DRAFT") = "open"
    BY PhaseValue DEF Undecided
  <2> QED
    BY <1>1, <2>1, <2>2, <2>3 DEF Phase
<1>5. Contract!Open(Ord(w))
  BY <1>3, <1>4 DEF Contract!Open, Phase, Fate
<1> QED
  BY <1>1, <1>5 DEF Contract!Next

LEMMA WriteReservationRefines ==
    ASSUME Shape, ReleaseInvariant, NEW w \in Workers, WriteReservation(w)
    PROVE  Contract!Next
<1>1. /\ Ord(w) \in Orders /\ cur[w] \in Variants /\ status[Ord(w)] = "DRAFT"
      /\ hold[Ord(w)][cur[w]] = "NONE"
  <2>1. pc[w] = "row" /\ task[w].op \in PlacingOps /\ Ord(w) \in Orders /\ cur[w] \in Variants
    BY DEF WriteReservation, At, Shape, ControlOf, OpAt, TaskOK, Ord, PlacingOps
  <2> QED
    BY <2>1, OwnParts DEF StageOf, HoldsOf
<1>2. status' = status /\ hold' = [hold EXCEPT ![Ord(w)][cur[w]] = "RESERVED"]
  BY DEF WriteReservation, orderVars
<1>3. Phase[Ord(w)] = "open" /\ Phase' = Phase /\ Fate[Ord(w)][cur[w]] = "none"
  BY <1>1, <1>2, PhaseValue, FateValue DEF Phase, Fate, Undecided
<1>4. Fate' = [Fate EXCEPT ![Ord(w)][cur[w]] = "held"]
  <2>1. /\ \A o \in Orders, v \in Variants :
              hold'[o][v] = IF o = Ord(w) /\ v = cur[w] THEN "RESERVED" ELSE hold[o][v]
    BY <1>1, <1>2 DEF Shape, RecordType
  <2> QED
    BY ZenonT(30), <1>1, <2>1, FateValue DEF Fate
<1>5. Contract!Take(Ord(w), cur[w])
  BY <1>3, <1>4 DEF Contract!Take, Phase, Fate
<1> QED
  BY <1>1, <1>5 DEF Contract!Next

\* Reservations that are settled together end.
LEMMA EndingRefines ==
    ASSUME Shape, NEW o \in Orders, NEW ended \in SUBSET Variants, ended # {},
           \A v \in ended : hold[o][v] = "RESERVED",
           NEW to \in {"CONSUMED", "RELEASED", "EXPIRED"}, status' = status,
           \A p \in Orders, v \in Variants :
              hold'[p][v] = IF p = o /\ v \in ended THEN to ELSE hold[p][v]
    PROVE  Contract!Next
<1>1. FateOf(to) \in {"sold", "returned"}
  BY FateValue
<1>2. Phase' = Phase /\ \A v \in ended : Fate[o][v] = "held"
  BY FateValue DEF Phase, Fate
<1>3. Fate' = [Fate EXCEPT ![o] = [v \in Variants |-> IF v \in ended THEN FateOf(to) ELSE @[v]]]
  <2>1. Fate' = [p \in Orders |-> [v \in Variants |->
                   IF p = o /\ v \in ended THEN FateOf(to) ELSE FateOf(hold[p][v])]]
    BY DEF Fate
  <2>2. \A p \in Orders : p # o => Fate'[p] = Fate[p]
    BY <2>1 DEF Fate
  <2>3. Fate'[o] = [v \in Variants |-> IF v \in ended THEN FateOf(to) ELSE Fate[o][v]]
    BY <2>1 DEF Fate
  <2> HIDE DEF Fate
  <2>4. Fate = [p \in Orders |-> Fate[p]] /\ Fate' = [p \in Orders |-> Fate'[p]]
    BY DEF Fate
  <2> QED
    BY <2>2, <2>3, <2>4
<1>4. Contract!End(o, ended, FateOf(to))
  BY <1>2, <1>3 DEF Contract!End, Phase, Fate
<1> QED
  BY <1>1, <1>4 DEF Contract!Next

LEMMA UndoRowsRefines ==
    ASSUME Shape, NEW w \in Workers, UndoRows(w)
    PROVE  Contract!Next \/ UNCHANGED Contract!vars
<1>1. Ord(w) \in Orders
  BY DEF UndoRows, At, Shape, ControlOf, OpAt, TaskOK, Ord, PlacingOps
<1>2. /\ status' = status
      /\ hold' = [hold EXCEPT ![Ord(w)] =
                     [v \in Variants |-> IF @[v] = "RESERVED" THEN "RELEASED" ELSE @[v]]]
  BY DEF UndoRows, orderVars
<1>3. \A p \in Orders, v \in Variants :
         hold'[p][v] = IF p = Ord(w) /\ v \in Active(Ord(w)) THEN "RELEASED" ELSE hold[p][v]
  BY <1>1, <1>2 DEF Active, Shape, RecordType
<1>4. CASE Active(Ord(w)) = {}
  <2>1. \A p \in Orders, v \in Variants : hold'[p][v] = hold[p][v]
    BY <1>3, <1>4
  <2> QED
    BY <1>2, <2>1 DEF Contract!vars
<1>5. CASE Active(Ord(w)) # {}
  <2>1. Active(Ord(w)) \in SUBSET Variants /\ \A v \in Active(Ord(w)) : hold[Ord(w)][v] = "RESERVED"
    BY DEF Active
  <2> QED
    BY <1>1, <1>2, <1>3, <1>5, <2>1, EndingRefines
<1> QED
  BY <1>4, <1>5

LEMMA SettleHoldRefines ==
    ASSUME Shape, NEW w \in Workers, SettleHold(w)
    PROVE  Contract!Next \/ UNCHANGED Contract!vars
<1>1. Ord(w) \in Orders /\ status' = status
  BY DEF SettleHold, At, Shape, ControlOf, OpAt, TaskOK, HoldOps, Ord, orderVars
<1>2. PICK v \in todo[w] :
         \/ hold' = hold
         \/ hold[Ord(w)][v] = "RESERVED" /\ hold' = [hold EXCEPT ![Ord(w)][v] = SettledAs(w)]
  BY DEF SettleHold, StillReserved
<1>3. v \in Variants
  BY DEF Shape, JobType
<1>4. SettledAs(w) \in {"CONSUMED", "RELEASED", "EXPIRED"}
  BY DEF SettledAs
<1>5. CASE hold' = hold
  BY <1>1, <1>5, StutterRefines
<1>6. CASE hold[Ord(w)][v] = "RESERVED" /\ hold' = [hold EXCEPT ![Ord(w)][v] = SettledAs(w)]
  <2>1. PICK to \in {"CONSUMED", "RELEASED", "EXPIRED"} : to = SettledAs(w)
    BY <1>4
  <2>2. PICK ended \in SUBSET Variants : ended = {v}
    BY <1>3
  <2>3. \A p \in Orders, u \in Variants :
           hold'[p][u] = IF p = Ord(w) /\ u \in ended THEN to ELSE hold[p][u]
    BY <1>1, <1>3, <1>6, <2>1, <2>2 DEF Shape, RecordType
  <2>4. ended # {} /\ \A u \in ended : hold[Ord(w)][u] = "RESERVED"
    BY <1>6, <2>2
  <2> QED
    BY <1>1, <2>3, <2>4, EndingRefines
<1> QED
  BY <1>2, <1>5, <1>6

LEMMA MoveRefines ==
    ASSUME AdminStaysCommitted, Shape, ReleaseInvariant, NEW w \in Workers, Move(w)
    PROVE  Contract!Next \/ UNCHANGED Contract!vars
<1>1. /\ Ord(w) \in Orders
      /\ status' = [status EXCEPT ![Ord(w)] = Target(w)]
      /\ status[Ord(w)] # "NONE" /\ Target(w) \notin {"NONE", "DRAFT"}
      /\ task[w].op \in PlacingOps => status[Ord(w)] = "DRAFT" /\ Target(w) = "PENDING_PAYMENT"
      /\ task[w].op \notin PlacingOps =>
            status[Ord(w)] # "DRAFT" /\ Active(Ord(w)) = {} /\ Target(w) # "PENDING_PAYMENT"
  BY MoveFacts
<1>2. hold' = hold /\ \A o \in Orders : status'[o] = IF o = Ord(w) THEN Target(w) ELSE status[o]
  BY <1>1 DEF Move, Shape, RecordType
<1>3. CASE task[w].op \in PlacingOps
  <2>1. PhaseOf(Target(w)) = PhaseOf(status[Ord(w)])
    BY <1>1, <1>3, PhaseValue DEF Undecided
  <2> QED
    BY <1>2, <2>1 DEF Contract!vars
<1>4. CASE task[w].op \notin PlacingOps
  <2>1. PhaseOf(Target(w)) \in {"committed", "released"}
    BY <1>1, <1>4, PhaseValue DEF Undecided
  <2>2. Phase[Ord(w)] \in {"open", "committed", "released"}
    BY <1>1, PhaseValue DEF Phase
  <2>3. \A v \in Variants : Fate[Ord(w)][v] # "held"
    <3>1. \A v \in Variants : hold[Ord(w)][v] \in HoldStatuses \ {"RESERVED"}
      BY <1>1, <1>4 DEF Active, Shape, RecordType
    <3> QED
      BY <1>1, <3>1, FateValue DEF Fate, HoldStatuses
  <2>4. Phase' = [Phase EXCEPT ![Ord(w)] = PhaseOf(Target(w))] /\ Fate' = Fate
    <3>1. Phase' = [o \in Orders |-> IF o = Ord(w) THEN PhaseOf(Target(w)) ELSE PhaseOf(status[o])]
      BY <1>2 DEF Phase
    <3>2. Fate' = Fate
      BY <1>2 DEF Fate
    <3> QED
      BY <3>1, <3>2 DEF Phase
  <2>5. Contract!Decide(Ord(w), PhaseOf(Target(w)))
    BY <2>2, <2>3, <2>4 DEF Contract!Decide, Phase, Fate
  <2> QED
    BY <1>1, <2>1, <2>5 DEF Contract!Next
<1> QED
  BY <1>3, <1>4

\* The whole checkout, with every interleaving of its handlers and with workers killed
\* anywhere, implements the contract of orders and holds, provided that administrators
\* only move committed orders by hand.
THEOREM ContractIsKept ==
    ASSUME AdminStaysCommitted
    PROVE  Spec => KeepsContract
<1>1. Shape /\ Creating /\ ReleaseInvariant /\ [Next]_vars => [Contract!Next]_(Contract!vars)
  <2> SUFFICES ASSUME Shape, Creating, ReleaseInvariant, [Next]_vars
               PROVE  Contract!Next \/ UNCHANGED Contract!vars
    OBVIOUS
  <2>1. ASSUME NEW w \in Workers, JobStep(w) \/ Start(w) \/ Crash(w)
        PROVE  Contract!Next \/ UNCHANGED Contract!vars
    BY <2>1, CreateRefines, WriteReservationRefines, UndoRowsRefines, SettleHoldRefines, MoveRefines,
       CalmRefines, StutterRefines
  <2>2. ASSUME NEW o \in Orders,
               Lapse(o) \/ \E event \in {"failed", "authorized", "captured"} : ProviderEvent(o, event)
        PROVE  UNCHANGED Contract!vars
    BY <2>2, OthersCalm, StutterRefines
  <2>3. ASSUME UNCHANGED vars PROVE UNCHANGED Contract!vars
    BY <2>3, StutterRefines DEF vars, database, orderVars
  <2> QED
    BY <2>1, <2>2, <2>3 DEF Next
<1>2. Spec => Contract!Init
  BY InitRefines DEF Spec
<1> QED
  BY <1>1, <1>2, ShapeInvariant, CreatingInvariant, ReleaseInductive, PTL
     DEF Spec, KeepsContract, Contract!Spec

-------------------------------------------------------------------------------
(* Only paid orders, and cash orders, are committed *)

\* What a step leaves to the other jobs: orders, money and the provider's events only come,
\* and an order the provider has not heard of has at most a PENDING payment written, and is
\* announced only by its own online placement.
MoneyGoesOn ==
    \A o \in Orders :
       /\ status[o] # "NONE" => status'[o] # "NONE"
       /\ paid[o] => paid'[o]
       /\ provider[o] \subseteq provider'[o]
       /\ provider[o] = {} => payment'[o] \in {payment[o], "PENDING"}
       /\ provider[o] = {} => \/ provider'[o] = {}
                             \/ \E w \in Workers : task[w].op = "place" /\ pc[w] = "provider" /\ Ord(w) = o

\* The step's job goes on opening its order, has stopped, or starts with a new one.
OpensOn(w) ==
    task'[w].op \in OpeningOps =>
       \/ /\ task[w].op \in OpeningOps /\ task'[w].order = task[w].order
          /\ task'[w].op = "place" => task[w].op = "place"
       \/ /\ status'[task'[w].order] = "NONE"
          /\ \A x \in Workers \ {w} : task[x].order # task'[w].order

\* An order that becomes committed is paid, or its cash order is being confirmed.
CommitsWell(w) ==
    \A o \in Orders : status'[o] \in CommittedStatuses /\ status[o] \notin CommittedStatuses
       => paid'[o] \/ (task[w].op = "cod" /\ pc[w] = "move" /\ o = Ord(w))

\* A job that has nothing to do with a job's step learns nothing wrong from it.
LEMMA OthersPaid ==
    ASSUME Shape, PaidInvariant, NEW w \in Workers, OnlyJobOf(w), MoneyGoesOn, NEW x \in Workers \ {w}
    PROVE  PaidOf(x)'
<1>1. /\ pc'[x] = pc[x] /\ task'[x] = task[x] /\ seen'[x] = seen[x] /\ Ord(x)' = Ord(x)
      /\ PaidOf(x)
  BY DEF OnlyJobOf, Ord, PaidInvariant
<1>2. CASE pc[x] = "idle"
  BY <1>1, <1>2 DEF PaidOf, Shape, ControlOf, CashOps
<1>3. CASE pc[x] # "idle"
  <2>1. Ord(x) \in Orders
    BY <1>3 DEF Shape, ControlOf, TaskOK, Ord
  <2>2. task[x].op \in CashOps => provider'[Ord(x)] = {}
    BY <1>1, <2>1 DEF MoneyGoesOn, PaidOf, PaidInvariant, OneOpener, CashOps, OpeningOps, PlacingOps
  <2>3. task[x].op = "cod" /\ pc[x] \notin {"reload", "codpay"} => payment'[Ord(x)] = "PENDING"
    BY <1>1, <2>1 DEF MoneyGoesOn, PaidOf, CashOps
  <2>4. /\ paid[Ord(x)] => paid'[Ord(x)]
        /\ provider[Ord(x)] \subseteq provider'[Ord(x)]
    BY <2>1 DEF MoneyGoesOn
  <2> QED
    BY <1>1, <2>2, <2>3, <2>4 DEF PaidOf, ProviderSays
<1> QED
  BY <1>2, <1>3

LEMMA PaidFromParts ==
    ASSUME Shape, PaidInvariant, NEW w \in Workers, OnlyJobOf(w), MoneyGoesOn, PaymentsAreReal',
           PaidOf(w)', OpensOn(w), CommitsWell(w)
    PROVE  PaidInvariant'
<1>1. \A x \in Workers \ {w} : PaidOf(x)' /\ task'[x] = task[x]
  BY OthersPaid DEF OnlyJobOf
<1>2. OneOpener'
  BY <1>1 DEF OneOpener, OpensOn, PaidInvariant, Ord
<1>3. \A o \in Orders : status'[o] \in CommittedStatuses /\ ~paid'[o] =>
         \A x \in Workers : task[x].op = "place" => Ord(x) # o
  BY DEF CommitsWell, MoneyGoesOn, PaidInvariant, OneOpener, CashIsOpened, OpeningOps, PlacingOps
<1>4. CashIsOpened'
  <2> SUFFICES ASSUME NEW o \in Orders, status'[o] \in CommittedStatuses, ~paid'[o],
                      NEW x \in Workers, task'[x].op = "place", task'[x].order = o
               PROVE  FALSE
    BY DEF CashIsOpened, Ord
  <2>1. CASE x # w
    BY <1>1, <1>3, <2>1 DEF Ord
  <2>2. CASE x = w
    <3>1. status'[o] # "NONE"
      BY DEF CommittedStatuses
    <3>2. task[w].op = "place" /\ task[w].order = o
      BY <2>2, <3>1 DEF OpensOn, OpeningOps, PlacingOps
    <3> QED
      BY <1>3, <3>2 DEF Ord
  <2> QED
    BY <2>1, <2>2
<1>5. CommittedMeansPaid'
  <2> SUFFICES ASSUME NEW o \in Orders, status'[o] \in CommittedStatuses
               PROVE  \/ paid'[o] /\ "authorized" \in provider'[o]
                      \/ ~paid'[o] /\ payment'[o] = "PENDING" /\ provider'[o] = {}
    BY DEF CommittedMeansPaid, ProviderSays
  <2>1. CASE paid'[o]
    BY <2>1 DEF PaymentsAreReal, ProviderSays
  <2>2. CASE ~paid'[o]
    <3>1. payment[o] = "PENDING" /\ provider[o] = {}
      <4>1. CASE status[o] \in CommittedStatuses
        BY <2>2, <4>1 DEF PaidInvariant, CommittedMeansPaid, MoneyGoesOn
      <4>2. CASE status[o] \notin CommittedStatuses
        BY <2>2, <4>2 DEF CommitsWell, PaidInvariant, PaidOf, CashOps
      <4> QED
        BY <4>1, <4>2
    <3>2. payment'[o] = "PENDING"
      BY <3>1 DEF MoneyGoesOn
    <3>3. provider'[o] = {}
      BY <1>3, <2>2, <3>1 DEF MoneyGoesOn
    <3> QED
      BY <2>2, <3>2, <3>3
  <2> QED
    BY <2>1, <2>2
<1>6. Unannounced'
  <2> SUFFICES ASSUME NEW o \in Orders, status'[o] = "NONE" PROVE provider'[o] = {}
    BY DEF Unannounced
  <2>1. status[o] = "NONE" /\ provider[o] = {}
    BY DEF MoneyGoesOn, PaidInvariant, Unannounced
  <2>2. \A x \in Workers : ~(pc[x] = "provider" /\ Ord(x) = o)
    BY <2>1 DEF Shape, ControlOf, Ord
  <2> QED
    BY <2>1, <2>2 DEF MoneyGoesOn
<1> QED
  BY <1>1, <1>2, <1>4, <1>5, <1>6 DEF PaidInvariant

\* A step that writes neither an order's status nor its payment.
Quiet == UNCHANGED <<status, payStatus, paid, payment, provider>>

LEMMA QuietStep ==
    ASSUME Shape, PaidInvariant, NEW w \in Workers, OnlyJobOf(w), Quiet, PaidOf(w)', OpensOn(w)
    PROVE  PaidInvariant'
<1>1. MoneyGoesOn /\ CommitsWell(w) /\ PaymentsAreReal'
  BY DEF Quiet, MoneyGoesOn, CommitsWell, PaymentsAreReal, ProviderSays, PaidInvariant
<1> QED
  BY <1>1, PaidFromParts

\* The end of a job, and a job that goes on with the same task and snapshot.
LEMMA FinishPaid ==
    ASSUME Shape, NEW w \in Workers, Finish(w)
    PROVE  OnlyJobOf(w) /\ OpensOn(w) /\ PaidOf(w)'
<1>1. OnlyJobOf(w) /\ pc'[w] = "idle" /\ task'[w] = NoTask
  BY FinishKeeps DEF Shape
<1>2. seen'[w] = NoSnapshot
  BY DEF Finish, Shape, JobType
<1> QED
  BY <1>1, <1>2 DEF OpensOn, PaidOf, NoTask, NoSnapshot, OpeningOps, PlacingOps, CashOps

LEMMA GoesOnPaid ==
    ASSUME Shape, PaidInvariant, NEW w \in Workers, NEW step \in Steps \ {"idle", "payfail"},
           Goto(w, step), UNCHANGED <<task, seen>>, pc[w] # "idle", Quiet,
           task[w].op = "cod" /\ pc[w] \in {"reload", "codpay"} => step = "codpay"
    PROVE  PaidOf(w)' /\ OpensOn(w)
<1>1. pc'[w] = step
  BY DEF Goto, Shape, JobType
<1>2. PaidOf(w)
  BY DEF PaidInvariant
<1>3. PaidOf(w)'
  BY <1>1, <1>2 DEF PaidOf, Quiet, Ord, ProviderSays
<1> QED
  BY <1>3 DEF OpensOn

LEMMA PlacementPaid ==
    ASSUME Shape, PaidInvariant, NEW w \in Workers, PlacementStep(w)
    PROVE  PaidInvariant'
<1> DEFINE o == Ord(w)
<1>0. /\ pc[w] # "idle" => o \in Orders
      /\ OpAt(pc[w], task[w].op) /\ PaidOf(w)
  BY DEF Shape, ControlOf, TaskOK, Ord, PaidInvariant
<1>1. CASE ReserveItem(w) \/ WriteReservation(w) \/ ReserveCoupon(w) \/ UndoReserve(w) \/ AttachSession(w)
  <2>1. PICK step \in {"row", "undo", "unrow", "coupon", "reserve", "attach", "move"} :
          Goto(w, step) /\ UNCHANGED <<task, seen>>
    BY <1>1 DEF ReserveItem, WriteReservation, ReserveCoupon, UndoReserve, AttachSession
  <2>2. Quiet /\ pc[w] \in {"row", "undo", "coupon", "reserve", "attach"}
    BY <1>1 DEF Quiet, ReserveItem, WriteReservation, ReserveCoupon, UndoReserve, AttachSession,
       orderVars, paymentVars, others, At
  <2>3. OnlyJobOf(w)
    BY <1>1 DEF ReserveItem, WriteReservation, ReserveCoupon, UndoReserve, AttachSession, Goto,
       OnlyJobOf, Shape, JobType
  <2>4. PaidOf(w)' /\ OpensOn(w)
    BY <2>1, <2>2, GoesOnPaid DEF Steps
  <2> QED
    BY <2>2, <2>3, <2>4, QuietStep
<1>2. CASE UndoRows(w)
  BY <1>2, FinishPaid, QuietStep DEF UndoRows, Quiet, orderVars, paymentVars, others
<1>3. CASE ProviderRefuses(w)
  <2>1. /\ task'[w] = Job("fail", o) /\ pc'[w] = "list" /\ seen' = seen /\ OnlyJobOf(w)
        /\ pc[w] = "provider"
    BY <1>3 DEF ProviderRefuses, At, Goto, OnlyJobOf, Shape, JobType
  <2>2. Quiet
    BY <1>3 DEF ProviderRefuses, Quiet, database, orderVars, paymentVars, others
  <2>3. task'[w].op = "fail" /\ task'[w].order = o
    BY <2>1 DEF Job
  <2>4. PaidOf(w)' /\ OpensOn(w)
    BY <1>0, <2>1, <2>2, <2>3 DEF PaidOf, OpensOn, OpeningOps, PlacingOps, CashOps, Quiet, Ord
  <2> QED
    BY <2>1, <2>2, <2>4, QuietStep
<1>4. CASE Create(w)
  <2>1. /\ status' = [status EXCEPT ![o] = "DRAFT"] /\ UNCHANGED <<task, payStatus, paid, payment, provider>>
        /\ seen'[w] = NoSnapshot /\ pc'[w] \in {"coupon", "reserve"} /\ OnlyJobOf(w)
        /\ pc[w] = "create"
    BY <1>4 DEF Create, At, Goto, OnlyJobOf, Shape, JobType, paymentVars, others
  <2>2. task[w].op \in PlacingOps
    BY <1>0, <2>1 DEF OpAt
  <2>3. PaidOf(w)' /\ OpensOn(w)
    BY <1>0, <2>1, <2>2 DEF PaidOf, OpensOn, Ord, NoSnapshot, PlacingOps, CashOps
  <2>4. MoneyGoesOn /\ PaymentsAreReal'
    BY <2>1 DEF MoneyGoesOn, PaymentsAreReal, PaidInvariant, ProviderSays, Shape, RecordType
  <2>5. CommitsWell(w)
    BY <1>0, <2>1 DEF CommitsWell, CommittedStatuses, Shape, RecordType
  <2> QED
    BY <2>1, <2>3, <2>4, <2>5, PaidFromParts
<1>5. CASE ProviderAccepts(w)
  <2>1. /\ provider' = [provider EXCEPT ![o] = @ \cup {"order"}] /\ pc[w] = "provider"
        /\ UNCHANGED <<task, seen, status, payStatus, paid, payment>> /\ pc'[w] = "payrow"
        /\ OnlyJobOf(w)
    BY <1>5 DEF ProviderAccepts, At, Goto, OnlyJobOf, Shape, JobType, database, orderVars, paymentVars
  <2>2. task[w].op = "place" /\ o \in Orders
    BY <1>0, <2>1 DEF OpAt
  <2>3. /\ provider'[o] = provider[o] \cup {"order"}
        /\ \A p \in Orders \ {o} : provider'[p] = provider[p]
    BY <2>1, <2>2 DEF Shape, OutsideType
  <2>4. MoneyGoesOn /\ CommitsWell(w)
    BY <2>1, <2>2, <2>3 DEF MoneyGoesOn, CommitsWell
  <2>5. PaymentsAreReal'
    BY <2>1, <2>3 DEF PaymentsAreReal, PaidInvariant, ProviderSays
  <2>6. PaidOf(w)' /\ OpensOn(w)
    BY <1>0, <2>1, <2>2 DEF PaidOf, OpensOn, Ord, CashOps
  <2> QED
    BY <2>1, <2>4, <2>5, <2>6, PaidFromParts
<1>6. CASE WritePayment(w)
  <2>1. /\ payment' = [payment EXCEPT ![o] = "PENDING"] /\ UNCHANGED <<status, payStatus, paid, provider>>
        /\ OnlyJobOf(w) /\ OpensOn(w) /\ PaidOf(w)'
    BY <1>6, FinishPaid DEF WritePayment, orderVars, others
  <2>2. MoneyGoesOn /\ CommitsWell(w) /\ PaymentsAreReal'
    BY <2>1 DEF MoneyGoesOn, CommitsWell, PaymentsAreReal, PaidInvariant, ProviderSays, Shape, RecordType
  <2> QED
    BY <2>1, <2>2, PaidFromParts
<1>7. CASE WriteCodPayment(w)
  <2>1. /\ payment' = [payment EXCEPT ![o] = "PENDING"] /\ pc[w] = "codpay" /\ pc'[w] = "list"
        /\ UNCHANGED <<task, seen, status, payStatus, paid, provider>> /\ OnlyJobOf(w)
    BY <1>7 DEF WriteCodPayment, At, Goto, OnlyJobOf, Shape, JobType, orderVars, others
  <2>2. o \in Orders /\ payment'[o] = "PENDING"
    BY <1>0, <2>1 DEF Shape, RecordType
  <2>3. MoneyGoesOn /\ CommitsWell(w) /\ PaymentsAreReal'
    BY <2>1 DEF MoneyGoesOn, CommitsWell, PaymentsAreReal, PaidInvariant, ProviderSays, Shape, RecordType
  <2>4. PaidOf(w)' /\ OpensOn(w)
    BY <1>0, <2>1, <2>2 DEF PaidOf, OpensOn, Ord, ProviderSays
  <2> QED
    BY <2>1, <2>3, <2>4, PaidFromParts
<1> QED
  BY <1>1, <1>2, <1>3, <1>4, <1>5, <1>6, <1>7 DEF PlacementStep

LEMMA MovePaid ==
    ASSUME Shape, PaidInvariant, NEW w \in Workers, Move(w)
    PROVE  PaidInvariant'
<1> DEFINE o == Ord(w)
<1>1. /\ pc[w] = "move" /\ o \in Orders /\ PaidOf(w) /\ seen[w] \in Snapshots
  BY DEF Move, At, Shape, ControlOf, TaskOK, JobType, Ord, PaidInvariant
<1>2. /\ status' = [status EXCEPT ![o] = Target(w)] /\ status[o] = seen[w].status
      /\ Target(w) \in OrderTransitions[status[o]]
      /\ GuardHolds(Target(w), seen[w].pay, seen[w].paid, task[w].op = "cod")
      /\ UNCHANGED <<payStatus, paid, payment, provider>>
  BY DEF Move, SwapsStatus, LegalFrom, CanTransition, paymentVars, others
<1>3. CommitsWell(w)
  <2> SUFFICES ASSUME NEW p \in Orders, status'[p] \in CommittedStatuses, status[p] \notin CommittedStatuses
               PROVE  paid'[p] \/ (task[w].op = "cod" /\ pc[w] = "move" /\ p = o)
    BY DEF CommitsWell
  <2>1. p = o /\ Target(w) \in CommittedStatuses
    BY <1>2 DEF Shape, RecordType
  <2>2. status[o] \in OrderStatuses
    BY <1>1, <1>2 DEF Snapshots
  <2>3. Target(w) = "CONFIRMED"
    <3>1. \A from \in OrderStatuses \ CommittedStatuses :
             OrderTransitions[from] \cap CommittedStatuses \subseteq {"CONFIRMED"}
      BY DEF OrderStatuses, CommittedStatuses, OrderTransitions
    <3> QED
      BY <1>2, <2>1, <2>2, <3>1
  <2>4. seen[w].pay = "CAPTURED" \/ task[w].op = "cod"
    BY <1>2, <2>3 DEF GuardHolds
  <2> QED
    BY <1>1, <1>2, <2>1, <2>4 DEF PaidOf
<1>4. MoneyGoesOn /\ PaymentsAreReal'
  <2>1. status[o] \in OrderStatuses /\ \A from \in OrderStatuses : "NONE" \notin OrderTransitions[from]
    BY <1>1, <1>2 DEF Snapshots, OrderStatuses, OrderTransitions
  <2>2. \A p \in Orders : status[p] # "NONE" => status'[p] # "NONE"
    BY <1>2, <2>1 DEF Shape, RecordType
  <2> QED
    BY <1>2, <2>2 DEF MoneyGoesOn, PaymentsAreReal, PaidInvariant, ProviderSays
<1>5. OnlyJobOf(w) /\ PaidOf(w)' /\ OpensOn(w)
  <2>1. CASE Finish(w)
    BY <2>1, FinishPaid
  <2>2. CASE /\ task[w].op \in {"place", "cancel"}
             /\ \E step \in {"provider", "refund"} : Goto(w, step)
             /\ UNCHANGED <<task, todo, cur, seen>>
    BY <1>1, <1>2, <2>2 DEF Goto, OnlyJobOf, PaidOf, OpensOn, Shape, JobType, Ord, CashOps
  <2>3. CASE /\ task[w].op = "placeCod"
             /\ task' = [task EXCEPT ![w] = Job("cod", o)]
             /\ Goto(w, "reload") /\ UNCHANGED <<todo, cur, seen>>
    <3>1. OnlyJobOf(w) /\ task'[w] = Job("cod", o) /\ pc'[w] = "reload" /\ seen' = seen
      BY <2>3 DEF Goto, OnlyJobOf, Shape, JobType
    <3>2. task'[w].op = "cod" /\ task'[w].order = o
      BY <3>1 DEF Job
    <3> QED
      BY <1>1, <1>2, <2>3, <3>1, <3>2 DEF PaidOf, OpensOn, OpeningOps, PlacingOps, CashOps, Ord
  <2> QED
    BY <2>1, <2>2, <2>3 DEF Move, AfterMove
<1> QED
  BY <1>3, <1>4, <1>5, PaidFromParts

LEMMA SettlementPaid ==
    ASSUME Shape, PaidInvariant, NEW w \in Workers, SettlementStep(w)
    PROVE  PaidInvariant'
<1> DEFINE o == Ord(w)
<1>0. /\ pc[w] # "idle" => o \in Orders
      /\ OpAt(pc[w], task[w].op) /\ PaidOf(w)
  BY DEF Shape, ControlOf, TaskOK, Ord, PaidInvariant
<1>1. CASE \/ ListHolds(w) \/ SettleHold(w) \/ GiveBack(w) \/ Deduct(w)
           \/ ReadRedemption(w) \/ WriteRedemption(w) \/ ConvertCart(w)
  <2>1. PICK step \in {"redeem", "settle", "giveback", "deduct", "redeemed", "cart", "move", "mark"} :
          Goto(w, step)
    BY <1>1 DEF ListHolds, SettleHold, GiveBack, Deduct, ReadRedemption, WriteRedemption, ConvertCart,
       NextHold, AfterCoupon
  <2>2. /\ Quiet /\ UNCHANGED <<task, seen>>
        /\ pc[w] \in {"list", "settle", "giveback", "deduct", "redeem", "redeemed", "cart"}
    BY <1>1 DEF Quiet, ListHolds, SettleHold, GiveBack, Deduct, ReadRedemption, WriteRedemption,
       ConvertCart, database, orderVars, paymentVars, others, At
  <2>3. OnlyJobOf(w)
    BY <1>1 DEF ListHolds, SettleHold, GiveBack, Deduct, ReadRedemption, WriteRedemption, ConvertCart,
       NextHold, Goto, OnlyJobOf, Shape, JobType
  <2>4. PaidOf(w)' /\ OpensOn(w)
    BY <2>1, <2>2, GoesOnPaid DEF Steps
  <2> QED
    BY <2>2, <2>3, <2>4, QuietStep
<1>2. CASE MarkPayment(w)
  <2>1. /\ pc[w] = "mark" /\ pc'[w] = "reload" /\ OnlyJobOf(w)
        /\ UNCHANGED <<task, seen, status, paid, payment, provider>>
        /\ \A p \in Orders : payStatus'[p] = "CAPTURED" => payStatus[p] = "CAPTURED"
    BY <1>2 DEF MarkPayment, At, Goto, OnlyJobOf, Shape, JobType, RecordType, paymentVars, others
  <2>2. MoneyGoesOn /\ CommitsWell(w) /\ PaymentsAreReal'
    BY <2>1 DEF MoneyGoesOn, CommitsWell, PaymentsAreReal, PaidInvariant, ProviderSays
  <2>3. PaidOf(w)' /\ OpensOn(w)
    BY <1>0, <2>1 DEF PaidOf, OpensOn, Ord, ProviderSays
  <2> QED
    BY <2>1, <2>2, <2>3, PaidFromParts
<1>3. CASE Reload(w)
  <2>1. /\ pc[w] = "reload" /\ pc'[w] \in {"list", "codpay", "move"} /\ OnlyJobOf(w) /\ task' = task
        /\ task[w].op = "cod" => pc'[w] = "codpay"
        /\ seen'[w] = Snapshot(o)
    BY <1>3 DEF Reload, At, Goto, OnlyJobOf, Shape, JobType
  <2>2. Quiet
    BY <1>3 DEF Reload, Quiet, database, orderVars, paymentVars, others
  <2>3. seen'[w].pay = "CAPTURED" \/ seen'[w].paid => paid[o]
    BY <1>0, <2>1 DEF Snapshot, PaidInvariant, PaymentsAreReal
  <2>4. PaidOf(w)' /\ OpensOn(w)
    BY <1>0, <2>1, <2>2, <2>3 DEF PaidOf, OpensOn, Quiet, Ord, ProviderSays
  <2> QED
    BY <2>1, <2>2, <2>4, QuietStep
<1>4. CASE Move(w)
  BY <1>4, MovePaid
<1>5. CASE MoveAlreadyMade(w)
  <2>1. Quiet /\ pc[w] = "move"
    BY <1>5 DEF MoveAlreadyMade, Quiet, At, database, orderVars, paymentVars, others
  <2>2. CASE Finish(w)
    BY <2>1, <2>2, FinishPaid, QuietStep
  <2>3. CASE /\ task[w].op \in {"place", "cancel"}
             /\ \E step \in {"provider", "refund"} : Goto(w, step)
             /\ UNCHANGED <<task, todo, cur, seen>>
    <3>1. OnlyJobOf(w)
      BY <2>3 DEF Goto, OnlyJobOf, Shape, JobType
    <3>2. PaidOf(w)' /\ OpensOn(w)
      BY <2>1, <2>3, GoesOnPaid DEF Steps
    <3> QED
      BY <2>1, <3>1, <3>2, QuietStep
  <2>4. CASE /\ task[w].op = "placeCod"
             /\ task' = [task EXCEPT ![w] = Job("cod", o)]
             /\ Goto(w, "reload") /\ UNCHANGED <<todo, cur, seen>>
    <3>1. OnlyJobOf(w) /\ task'[w] = Job("cod", o) /\ pc'[w] = "reload" /\ seen' = seen
      BY <2>4 DEF Goto, OnlyJobOf, Shape, JobType
    <3>2. task'[w].op = "cod" /\ task'[w].order = o
      BY <3>1 DEF Job
    <3>3. PaidOf(w)' /\ OpensOn(w)
      BY <1>0, <2>1, <2>4, <3>1, <3>2 DEF PaidOf, OpensOn, OpeningOps, PlacingOps, CashOps, Ord, Quiet
    <3> QED
      BY <2>1, <3>1, <3>3, QuietStep
  <2> QED
    BY <1>5, <2>2, <2>3, <2>4 DEF MoveAlreadyMade, AfterMove
<1>6. CASE MoveRefused(w)
  BY <1>6, FinishPaid, QuietStep DEF MoveRefused, Quiet, database, orderVars, paymentVars, others
<1> QED
  BY <1>1, <1>2, <1>3, <1>4, <1>5, <1>6 DEF SettlementStep

\* The webhooks and the confirmation write what the provider said.
LEMMA PaymentPaid ==
    ASSUME Shape, PaidInvariant, NEW w \in Workers, PaymentStep(w)
    PROVE  PaidInvariant'
<1> DEFINE o == Ord(w)
<1>0. /\ pc[w] # "idle" => o \in Orders
      /\ OpAt(pc[w], task[w].op) /\ PaidOf(w)
  BY DEF Shape, ControlOf, TaskOK, Ord, PaidInvariant
<1>1. CASE WriteAuthorized(w)
  <2>1. /\ payment' = [payment EXCEPT ![o] = "AUTHORIZED"] /\ UNCHANGED <<status, payStatus, paid, provider>>
        /\ OnlyJobOf(w) /\ OpensOn(w) /\ PaidOf(w)' /\ pc[w] = "authorize"
    BY <1>1, FinishPaid DEF WriteAuthorized, At, orderVars, others
  <2>2. provider[o] # {}
    BY <1>0, <2>1 DEF OpAt, PaidOf, ProviderSays
  <2>3. MoneyGoesOn /\ CommitsWell(w) /\ PaymentsAreReal'
    BY <2>1, <2>2 DEF MoneyGoesOn, CommitsWell, PaymentsAreReal, PaidInvariant, ProviderSays, Shape, RecordType
  <2> QED
    BY <2>1, <2>3, PaidFromParts
<1>2. CASE WriteFailed(w)
  <2>1. /\ payment' = [payment EXCEPT ![o] = "FAILED"] /\ pc[w] = "payfail" /\ pc'[w] = "list"
        /\ UNCHANGED <<task, seen, status, payStatus, paid, provider>> /\ OnlyJobOf(w)
    BY <1>2 DEF WriteFailed, At, Goto, OnlyJobOf, Shape, JobType, orderVars, others
  <2>2. provider[o] # {} /\ task[w].op = "fail"
    BY <1>0, <2>1 DEF OpAt, PaidOf, ProviderSays
  <2>3. MoneyGoesOn /\ CommitsWell(w) /\ PaymentsAreReal'
    BY <2>1, <2>2 DEF MoneyGoesOn, CommitsWell, PaymentsAreReal, PaidInvariant, ProviderSays, Shape, RecordType
  <2>4. PaidOf(w)' /\ OpensOn(w)
    BY <1>0, <2>1, <2>2 DEF PaidOf, OpensOn, Ord, CashOps
  <2> QED
    BY <2>1, <2>3, <2>4, PaidFromParts
<1>3. CASE Capture(w)
  <2>1. pc[w] = "capture" /\ provider[o] # {} /\ task[w].op = "confirm" /\ ProviderSays(o, "authorized")
    BY <1>0, <1>3 DEF Capture, At, OpAt, PaidOf, ProviderSays
  <2>2. CASE payment[o] \in {"PENDING", "AUTHORIZED"}
    <3>1. /\ payment' = [payment EXCEPT ![o] = "CAPTURED"] /\ pc'[w] = "paid" /\ OnlyJobOf(w)
          /\ UNCHANGED <<task, seen, status, payStatus, paid, provider>>
      BY <1>3, <2>2 DEF Capture, At, Goto, OnlyJobOf, Shape, JobType, orderVars, others
    <3>2. MoneyGoesOn /\ CommitsWell(w) /\ PaymentsAreReal'
      BY <2>1, <3>1 DEF MoneyGoesOn, CommitsWell, PaymentsAreReal, PaidInvariant, ProviderSays, Shape, RecordType
    <3>3. PaidOf(w)' /\ OpensOn(w)
      BY <1>0, <2>1, <3>1 DEF PaidOf, OpensOn, Ord, CashOps, ProviderSays
    <3> QED
      BY <3>1, <3>2, <3>3, PaidFromParts
  <2>3. CASE payment[o] \notin {"PENDING", "AUTHORIZED"}
    BY <1>3, <2>3, FinishPaid, QuietStep DEF Capture, Quiet, orderVars, paymentVars, others
  <2> QED
    BY <2>2, <2>3
<1>4. CASE RecordPaid(w)
  <2>1. /\ payStatus' = [payStatus EXCEPT ![o] = "CAPTURED"] /\ paid' = [paid EXCEPT ![o] = TRUE]
        /\ pc[w] = "paid" /\ pc'[w] = "reload" /\ OnlyJobOf(w)
        /\ UNCHANGED <<task, seen, status, payment, provider>>
    BY <1>4 DEF RecordPaid, At, Goto, OnlyJobOf, Shape, JobType, paymentVars, others
  <2>2. o \in Orders /\ task[w].op = "confirm" /\ ProviderSays(o, "authorized")
    BY <1>0, <2>1 DEF OpAt, PaidOf
  <2>3. /\ paid'[o] /\ \A p \in Orders \ {o} : paid'[p] = paid[p] /\ payStatus'[p] = payStatus[p]
    BY <2>1, <2>2 DEF Shape, RecordType
  <2>4. MoneyGoesOn /\ CommitsWell(w)
    BY <2>1, <2>2, <2>3 DEF MoneyGoesOn, CommitsWell
  <2>5. PaymentsAreReal'
    BY <2>1, <2>2, <2>3 DEF PaymentsAreReal, PaidInvariant, ProviderSays
  <2>6. PaidOf(w)' /\ OpensOn(w)
    BY <1>0, <2>1, <2>2, <2>3 DEF PaidOf, OpensOn, Ord, CashOps, ProviderSays
  <2> QED
    BY <2>1, <2>4, <2>5, <2>6, PaidFromParts
<1>5. CASE LookUpPayment(w)
  <2>1. PICK step \in {"fetchById", "fetch", "list"} : Goto(w, step)
    BY <1>5 DEF LookUpPayment
  <2>2. Quiet /\ UNCHANGED <<task, seen>> /\ pc[w] = "lookup"
    BY <1>5 DEF LookUpPayment, Quiet, At, database, orderVars, paymentVars, others
  <2>3. OnlyJobOf(w)
    BY <1>5 DEF LookUpPayment, Goto, OnlyJobOf, Shape, JobType
  <2>4. PaidOf(w)' /\ OpensOn(w)
    BY <2>1, <2>2, GoesOnPaid DEF Steps
  <2> QED
    BY <2>2, <2>3, <2>4, QuietStep
<1>6. CASE AskProvider(w)
  <2>1. Quiet /\ pc[w] \in {"fetch", "fetchById"}
    BY <1>6 DEF AskProvider, Quiet, database, orderVars, paymentVars, others
  <2>2. CASE Finish(w)
    BY <2>1, <2>2, FinishPaid, QuietStep
  <2>3. CASE Goto(w, "list") /\ UNCHANGED <<task, todo, cur, seen>>
    <3>1. OnlyJobOf(w)
      BY <2>3 DEF Goto, OnlyJobOf, Shape, JobType
    <3>2. PaidOf(w)' /\ OpensOn(w)
      BY <2>1, <2>3, GoesOnPaid DEF Steps
    <3> QED
      BY <2>1, <3>1, <3>2, QuietStep
  <2>4. CASE /\ ProviderSays(o, "captured") /\ task' = [task EXCEPT ![w] = Job("confirm", o)]
             /\ Goto(w, "capture") /\ UNCHANGED <<todo, cur, seen>>
    <3>1. OnlyJobOf(w) /\ task'[w] = Job("confirm", o) /\ pc'[w] = "capture" /\ seen' = seen
      BY <2>4 DEF Goto, OnlyJobOf, Shape, JobType
    <3>2. task'[w].op = "confirm" /\ task'[w].order = o
      BY <3>1 DEF Job
    <3>3. ProviderSays(o, "authorized")
      BY <1>0, <2>1, <2>4 DEF PaidInvariant, PaymentsAreReal
    <3>4. PaidOf(w)' /\ OpensOn(w)
      BY <1>0, <2>1, <3>1, <3>2, <3>3
         DEF PaidOf, OpensOn, OpeningOps, PlacingOps, CashOps, Ord, Quiet, ProviderSays
    <3> QED
      BY <2>1, <3>1, <3>4, QuietStep
  <2> QED
    BY <1>6, <2>2, <2>3, <2>4 DEF AskProvider
<1>7. CASE RequestRefund(w)
  BY <1>7, FinishPaid, QuietStep DEF RequestRefund, Quiet, database, orderVars, paymentVars
<1> QED
  BY <1>1, <1>2, <1>3, <1>4, <1>5, <1>6, <1>7 DEF PaymentStep

\* A handler starts on what the provider has said, or on an order that does not exist.
LEMMA StartPaid ==
    ASSUME Shape, PaidInvariant, NEW w \in Workers, Start(w)
    PROVE  PaidInvariant'
<1>0. pc[w] = "idle" /\ PaidOf(w) /\ seen[w].pay # "CAPTURED" /\ ~seen[w].paid
  BY DEF Start, StartPlace, Abandon, StartVerify, DeliverCaptured, DeliverAuthorized, DeliverFailed,
     Expire, Reconcile, Cancel, AdminSetStatus, Begin, PaidInvariant, PaidOf
<1>1. ASSUME NEW t \in Task, NEW step \in Steps \ {"idle"}, Begin(w, t, step),
             UNCHANGED <<todo, cur, database, others>>, t.order \in Orders,
             seen' = seen \/ seen' = [seen EXCEPT ![w] = Snapshot(t.order)],
             t.op \in {"confirm", "authorize"} => ProviderSays(t.order, "authorized"),
             step = "payfail" => ProviderSays(t.order, "failed"),
             t.op # "cod", t.op = "placeCod" => provider[t.order] = {},
             t.op \in PlacingOps => /\ status[t.order] = "NONE"
                                    /\ \A x \in Workers : task[x].order # t.order
      PROVE  PaidInvariant'
  <2>1. /\ task'[w] = t /\ pc'[w] = step /\ OnlyJobOf(w)
        /\ seen'[w] = seen[w] \/ seen'[w] = Snapshot(t.order)
    BY <1>1 DEF Begin, Goto, OnlyJobOf, Shape, JobType
  <2>2. Quiet
    BY <1>1 DEF Quiet, database, orderVars, paymentVars, others
  <2>3. seen'[w].pay = "CAPTURED" \/ seen'[w].paid => paid[t.order]
    BY <1>0, <1>1, <2>1 DEF Snapshot, PaidInvariant, PaymentsAreReal
  <2>4. PaidOf(w)'
    BY <1>1, <2>1, <2>2, <2>3 DEF PaidOf, Quiet, Ord, ProviderSays, CashOps
  <2>5. OpensOn(w)
    BY <1>1, <2>1, <2>2 DEF OpensOn, Quiet, OpeningOps, PlacingOps
  <2> QED
    BY <2>1, <2>2, <2>4, <2>5, QuietStep
<1>2. ASSUME NEW s \in Sessions, NEW o \in Orders, NEW op \in {"place", "placeCod"},
             StartPlace(w, s, o, op)
      PROVE  PaidInvariant'
  <2> DEFINE t == [op |-> op, order |-> o, session |-> s, to |-> None]
  <2>1. t \in Task /\ t.op = op /\ t.order = o
    BY DEF Task, Ops
  <2>2. provider[o] = {}
    BY <1>2 DEF StartPlace, PaidInvariant, Unannounced
  <2> QED
    BY <1>1, <1>2, <2>1, <2>2 DEF StartPlace, Steps, PlacingOps
<1>3. ASSUME NEW op \in HoldOps \cup {"authorize"}, op # "cod", NEW o \in Orders,
             NEW step \in Steps \ {"idle"}, Begin(w, Job(op, o), step),
             UNCHANGED <<todo, cur, database, others>>,
             seen' = seen \/ seen' = [seen EXCEPT ![w] = Snapshot(o)],
             op \in {"confirm", "authorize"} => ProviderSays(o, "authorized"),
             step = "payfail" => ProviderSays(o, "failed")
      PROVE  PaidInvariant'
  <2> DEFINE t == Job(op, o)
  <2>1. t \in Task /\ t.op = op /\ t.order = o
    <3>1. t \in Task
      BY JobIsTask DEF Ops, HoldOps
    <3> QED
      BY <3>1 DEF Job
  <2>2. t.op \notin PlacingOps /\ t.op # "cod"
    BY <1>3, <2>1 DEF PlacingOps, HoldOps
  <2> HIDE DEF t
  <2> QED
    BY <1>1, <1>3, <2>1, <2>2 DEF PlacingOps, t
<1>4. ASSUME NEW s \in Sessions, Abandon(w, s)
      PROVE  PaidInvariant'
  <2>1. sessionOrder[s] \in Orders
    BY <1>4 DEF Abandon, Shape, RecordType
  <2> QED
    BY <1>3, <1>4, <2>1 DEF Abandon, HoldOps, Steps
<1>5. ASSUME NEW o \in Orders, StartVerify(w, o) \/ DeliverCaptured(w, o)
      PROVE  PaidInvariant'
  <2>1. ProviderSays(o, "authorized")
    BY <1>5 DEF StartVerify, DeliverCaptured, PaidInvariant, PaymentsAreReal
  <2> QED
    BY <1>3, <1>5, <2>1 DEF StartVerify, DeliverCaptured, HoldOps, Steps
<1>6. ASSUME NEW o \in Orders, DeliverAuthorized(w, o) \/ DeliverFailed(w, o)
      PROVE  PaidInvariant'
  BY <1>3, <1>6 DEF DeliverAuthorized, DeliverFailed, HoldOps, Steps
<1>7. ASSUME NEW o \in Orders, Expire(w, o) \/ Reconcile(w, o) \/ Cancel(w, o)
      PROVE  PaidInvariant'
  BY <1>3, <1>7 DEF Expire, Reconcile, Cancel, HoldOps, Steps
<1>8. ASSUME NEW o \in Orders, NEW to \in AdminTargets, AdminSetStatus(w, o, to)
      PROVE  PaidInvariant'
  <2> DEFINE t == [op |-> "admin", order |-> o, session |-> None, to |-> to]
  <2>1. t \in Task /\ t.op = "admin" /\ t.order = o
    BY CheckoutAssumption DEF Task, Ops
  <2> HIDE DEF t
  <2> QED
    BY <1>1, <1>8, <2>1 DEF AdminSetStatus, Steps, PlacingOps, t
<1> QED
  BY <1>2, <1>4, <1>5, <1>6, <1>7, <1>8 DEF Start

\* The provider's events are about orders that it has heard of.
LEMMA ProviderPaid ==
    ASSUME Shape, PaidInvariant, NEW o \in Orders, NEW event \in {"failed", "authorized", "captured"},
           ProviderEvent(o, event)
    PROVE  PaidInvariant'
<1>1. /\ provider' = [provider EXCEPT ![o] = @ \cup {event}]
      /\ UNCHANGED <<status, payStatus, paid, payment, pc, task, seen>>
      /\ provider[o] # {} /\ (event = "captured" => ProviderSays(o, "authorized"))
  BY DEF ProviderEvent, ProviderSays, database, orderVars, paymentVars, jobVars
<1>2. /\ provider'[o] = provider[o] \cup {event}
      /\ \A p \in Orders \ {o} : provider'[p] = provider[p]
  BY <1>1 DEF Shape, OutsideType
<1>3. \A p \in Orders : /\ provider[p] = {} => provider'[p] = {}
                        /\ provider[p] \subseteq provider'[p]
  BY <1>1, <1>2
<1>4. PaymentsAreReal' /\ Unannounced'
  BY <1>1, <1>2, <1>3 DEF PaidInvariant, PaymentsAreReal, Unannounced, ProviderSays
<1>5. ASSUME NEW w \in Workers PROVE PaidOf(w)'
  <2>1. CASE pc[w] = "idle"
    BY <1>1, <2>1 DEF PaidInvariant, PaidOf, Shape, ControlOf, CashOps
  <2>2. CASE pc[w] # "idle"
    <3>1. Ord(w) \in Orders
      BY <2>2 DEF Shape, ControlOf, TaskOK, Ord
    <3> QED
      BY <1>1, <1>3, <3>1 DEF PaidInvariant, PaidOf, ProviderSays, Ord
  <2> QED
    BY <2>1, <2>2
<1>6. OneOpener' /\ CashIsOpened' /\ CommittedMeansPaid'
  BY <1>1, <1>3 DEF PaidInvariant, OneOpener, CashIsOpened, CommittedMeansPaid, ProviderSays, Ord
<1> QED
  BY <1>4, <1>5, <1>6 DEF PaidInvariant

LEMMA SamePaid ==
    ASSUME PaidInvariant, Quiet, UNCHANGED <<pc, task, seen>>
    PROVE  PaidInvariant'
BY DEF Quiet, PaidInvariant, PaymentsAreReal, Unannounced, PaidOf, OneOpener, CashIsOpened,
   CommittedMeansPaid, ProviderSays, Ord

LEMMA PaidInductive == Spec => []PaidInvariant
<1>1. Init => PaidInvariant
  BY DEF Init, PaidInvariant, PaymentsAreReal, Unannounced, PaidOf, OneOpener, CashIsOpened,
     CommittedMeansPaid, CommittedStatuses, ProviderSays, NoSnapshot, NoTask, CashOps, OpeningOps, PlacingOps
<1>2. Shape /\ PaidInvariant /\ [Next]_vars => PaidInvariant'
  <2> SUFFICES ASSUME Shape, PaidInvariant, [Next]_vars PROVE PaidInvariant'
    OBVIOUS
  <2>1. ASSUME NEW w \in Workers, JobStep(w) \/ Start(w) PROVE PaidInvariant'
    BY <2>1, PlacementPaid, SettlementPaid, PaymentPaid, StartPaid DEF JobStep
  <2>2. ASSUME NEW w \in Workers, Crash(w) PROVE PaidInvariant'
    BY <2>2, FinishPaid, QuietStep DEF Crash, Quiet, database, orderVars, paymentVars
  <2>3. ASSUME NEW o \in Orders, Lapse(o) PROVE PaidInvariant'
    BY <2>3, SamePaid DEF Lapse, Quiet, paymentVars, jobVars, others
  <2>4. ASSUME UNCHANGED vars PROVE PaidInvariant'
    BY <2>4, SamePaid DEF vars, Quiet, database, orderVars, paymentVars, jobVars, others
  <2> QED
    BY <2>1, <2>2, <2>3, <2>4, ProviderPaid DEF Next
<1> QED
  BY <1>1, <1>2, ShapeInvariant, PTL DEF Spec

\* For all carts, handlers, administrators and crashes: an order is committed only once
\* the provider authorized its payment and the capture is recorded, or as a cash order that
\* is still to be paid and that the provider has never heard of.
THEOREM OnlyPaidIsCommitted == Spec => []CommittedMeansPaid
<1>1. PaidInvariant => CommittedMeansPaid
  BY DEF PaidInvariant
<1> QED
  BY <1>1, PaidInductive, PTL
===============================================================================
