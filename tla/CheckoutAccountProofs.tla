------------------------- MODULE CheckoutAccountProofs -------------------------
(***************************************************************************)
(* The books of Checkout: the reserved units of a variant are those of its *)
(* live reservations, what left the stock was sold once, and the coupon's  *)
(* counter loses no use. For all carts, stocks, workers and handlers.      *)
(***************************************************************************)
EXTENDS CheckoutProofs, SumTheorems

-------------------------------------------------------------------------------
(* The steps of a job that have to do with stock *)

Handling == {"row", "undo", "unrow", "giveback", "deduct"}

StockBooks == <<stockQty, reservedQty, hold, placedBy>>

\* A step that neither begins, continues nor ends the handling of a hold.
Aside(w) == OnlyJobOf(w) /\ UNCHANGED StockBooks /\ pc[w] \notin Handling /\ pc'[w] \notin Handling

LEMMA PlacementAside ==
    ASSUME Shape, NEW w \in Workers,
           AttachSession(w) \/ ProviderAccepts(w) \/ ProviderRefuses(w) \/ WritePayment(w)
             \/ WriteCodPayment(w)
    PROVE  Aside(w)
<1> USE DEF At, Goto, Aside, OnlyJobOf, StockBooks, Handling, database, orderVars, stockVars, Shape, JobType
<1>1. CASE AttachSession(w)
  BY <1>1 DEF AttachSession
<1>2. CASE ProviderAccepts(w)
  BY <1>2 DEF ProviderAccepts
<1>3. CASE ProviderRefuses(w)
  BY <1>3 DEF ProviderRefuses
<1>4. CASE WritePayment(w)
  BY <1>4, FinishKeeps DEF WritePayment
<1>5. CASE WriteCodPayment(w)
  BY <1>5 DEF WriteCodPayment
<1> QED
  BY <1>1, <1>2, <1>3, <1>4, <1>5

LEMMA SettlementAside ==
    ASSUME Shape, NEW w \in Workers, SettlementStep(w), ~SettleHold(w), ~GiveBack(w), ~Deduct(w)
    PROVE  Aside(w)
<1> USE DEF At, Goto, Aside, OnlyJobOf, StockBooks, Handling, database, orderVars, stockVars, Shape, JobType
<1>1. CASE ListHolds(w)
  BY <1>1 DEF ListHolds
<1>2. CASE ReadRedemption(w)
  BY <1>2 DEF ReadRedemption, AfterCoupon
<1>3. CASE WriteRedemption(w)
  BY <1>3 DEF WriteRedemption, AfterCoupon
<1>4. CASE ConvertCart(w)
  BY <1>4 DEF ConvertCart
<1>5. CASE MarkPayment(w)
  BY <1>5 DEF MarkPayment
<1>6. CASE Reload(w)
  BY <1>6 DEF Reload
<1>7. CASE Move(w)
  BY <1>7, FinishKeeps DEF Move, AfterMove
<1>8. CASE MoveAlreadyMade(w)
  BY <1>8, FinishKeeps DEF MoveAlreadyMade, AfterMove
<1>9. CASE MoveRefused(w)
  BY <1>9, FinishKeeps DEF MoveRefused
<1> QED
  BY <1>1, <1>2, <1>3, <1>4, <1>5, <1>6, <1>7, <1>8, <1>9 DEF SettlementStep

LEMMA PaymentAside ==
    ASSUME Shape, NEW w \in Workers, PaymentStep(w)
    PROVE  Aside(w)
<1> USE DEF At, Goto, Aside, OnlyJobOf, StockBooks, Handling, database, orderVars, stockVars, Shape, JobType
<1>1. CASE WriteAuthorized(w)
  BY <1>1, FinishKeeps DEF WriteAuthorized
<1>2. CASE WriteFailed(w)
  BY <1>2 DEF WriteFailed
<1>3. CASE Capture(w)
  BY <1>3, FinishKeeps DEF Capture
<1>4. CASE RecordPaid(w)
  BY <1>4 DEF RecordPaid
<1>5. CASE LookUpPayment(w)
  BY <1>5 DEF LookUpPayment
<1>6. CASE AskProvider(w)
  BY <1>6, FinishKeeps DEF AskProvider
<1>7. CASE RequestRefund(w)
  BY <1>7, FinishKeeps DEF RequestRefund
<1> QED
  BY <1>1, <1>2, <1>3, <1>4, <1>5, <1>6, <1>7 DEF PaymentStep

LEMMA StartAside ==
    ASSUME Shape, NEW w \in Workers, Start(w)
    PROVE  Aside(w)
<1> USE DEF Begin, Goto, Job, Aside, OnlyJobOf, StockBooks, Handling, database, orderVars, stockVars,
        Shape, JobType
<1>1. ASSUME NEW s \in Sessions, NEW o \in Orders, NEW op \in {"place", "placeCod"},
             StartPlace(w, s, o, op)
      PROVE  Aside(w)
  BY <1>1 DEF StartPlace
<1>2. ASSUME \/ \E s \in Sessions : Abandon(w, s)
             \/ \E o \in Orders :
                   \/ StartVerify(w, o) \/ DeliverCaptured(w, o) \/ DeliverAuthorized(w, o)
                   \/ DeliverFailed(w, o) \/ Expire(w, o) \/ Reconcile(w, o)
      PROVE  Aside(w)
  BY <1>2 DEF Abandon, StartVerify, DeliverCaptured, DeliverAuthorized, DeliverFailed, Expire, Reconcile
<1>3. ASSUME \E o \in Orders : Cancel(w, o) \/ \E to \in AdminTargets : AdminSetStatus(w, o, to)
      PROVE  Aside(w)
  BY <1>3 DEF Cancel, AdminSetStatus
<1> QED
  BY <1>1, <1>2, <1>3 DEF Start

\* What a step can be, seen from the stock.
LEMMA StockSteps ==
    ASSUME Shape, [Next]_vars
    PROVE  \/ UNCHANGED StockBooks /\ UNCHANGED jobVars
           \/ \E w \in Workers :
                 \/ Aside(w) \/ Crash(w)
                 \/ Create(w) \/ ReserveItem(w) \/ WriteReservation(w) \/ ReserveCoupon(w)
                 \/ UndoReserve(w) \/ UndoRows(w)
                 \/ SettleHold(w) \/ GiveBack(w) \/ Deduct(w)
<1>1. ASSUME NEW o \in Orders,
             Lapse(o) \/ \E event \in {"failed", "authorized", "captured"} : ProviderEvent(o, event)
      PROVE  UNCHANGED StockBooks /\ UNCHANGED jobVars
  BY <1>1 DEF Lapse, ProviderEvent, StockBooks, database, orderVars, stockVars
<1>2. UNCHANGED vars => UNCHANGED StockBooks /\ UNCHANGED jobVars
  BY DEF vars, StockBooks, database, orderVars, stockVars
<1> QED
  BY <1>1, <1>2, PlacementAside, SettlementAside, PaymentAside, StartAside
     DEF Next, JobStep, PlacementStep, SettlementStep

-------------------------------------------------------------------------------
(* How holds end *)

\* The job that ended a hold and has not yet written what follows from it; a placement
\* that gives up undoes what it holds, and has nothing left to undo before it says so.
EndingOf(w) ==
    /\ pc[w] \in {"giveback", "deduct"} =>
          /\ hold[Ord(w)][cur[w]] \notin {"NONE", "RESERVED"}
          /\ Commits(task[w].op) => hold[Ord(w)][cur[w]] = "CONSUMED"
    /\ pc[w] = "undo" => \A v \in todo[w] : hold[Ord(w)][v] = "RESERVED"
    /\ pc[w] = "unrow" => todo[w] = {}

\* settle() is a compare-and-set: a hold has one job that ended it.
OneEnder ==
    \A w, x \in Workers :
       /\ pc[w] \in {"giveback", "deduct"} /\ pc[x] \in {"giveback", "deduct"}
       /\ Ord(w) = Ord(x) /\ cur[w] = cur[x]
       => w = x

Endings == (\A w \in Workers : EndingOf(w)) /\ OneEnder

\* All that is known of the jobs.
Jobs == Shape /\ ReleaseInvariant /\ Creating

\* Nobody else handles the holds of an order that is being placed.
LEMMA PlacementHandlesAlone ==
    ASSUME Jobs, NEW w \in Workers, pc[w] \in {"reserve", "row", "coupon", "undo", "unrow"},
           NEW x \in Workers, x # w, pc[x] \in Handling \cup {"reserve", "coupon", "settle"}
    PROVE  Ord(x) # Ord(w)
<1>1. task[w].op \in PlacingOps /\ task[x].op # "admin"
  BY DEF Jobs, Shape, ControlOf, OpAt, Handling, PlacingOps, HoldOps
<1> QED
  BY <1>1, PlacementIsPrivate DEF Jobs, Handling

\* What the steps below do to the holds of other orders and of other jobs: a hold that
\* changes belongs to the order of the job, and is not one that somebody else ended.
HoldsOfOne(w) ==
    \A o \in Orders, v \in Variants : hold'[o][v] # hold[o][v] =>
        o = Ord(w) /\ hold[o][v] \in {"NONE", "RESERVED"}

LEMMA OthersEndings ==
    ASSUME Jobs, Endings, NEW w \in Workers, OnlyJobOf(w), HoldsOfOne(w),
           hold' # hold => pc[w] \in Handling \cup {"settle"},
           NEW x \in Workers, x # w
    PROVE  EndingOf(x)'
<1>1. /\ pc'[x] = pc[x] /\ task'[x] = task[x] /\ cur'[x] = cur[x] /\ todo'[x] = todo[x]
      /\ Ord(x)' = Ord(x)
  BY DEF OnlyJobOf, Ord
<1>2. EndingOf(x)
  BY DEF Endings
<1>3. pc[x] # "idle" => Ord(x) \in Orders
  BY DEF Jobs, Shape, ControlOf, TaskOK, Ord
<1>4. pc[x] \in {"giveback", "deduct"} => cur[x] \in Variants
  BY DEF Jobs, Shape, ControlOf
<1>5. CASE pc[x] \in {"giveback", "deduct"}
  <2>1. hold'[Ord(x)][cur[x]] = hold[Ord(x)][cur[x]]
    BY <1>2, <1>3, <1>4, <1>5 DEF HoldsOfOne, EndingOf
  <2> QED
    BY <1>1, <1>2, <1>5, <2>1 DEF EndingOf
<1>6. CASE pc[x] = "undo"
  <2>1. ASSUME NEW v \in todo[x]
        PROVE  hold'[Ord(x)][v] = "RESERVED"
    <3>1. v \in Variants /\ hold[Ord(x)][v] = "RESERVED"
      BY <1>2, <1>6 DEF EndingOf, Jobs, Shape, JobType
    <3>2. CASE hold' = hold
      BY <3>1, <3>2
    <3>3. CASE hold' # hold
      <4>1. Ord(w) # Ord(x)
        BY <1>6, <3>3, PlacementHandlesAlone
      <4> QED
        BY <1>3, <1>6, <3>1, <4>1 DEF HoldsOfOne
    <3> QED
      BY <3>2, <3>3
  <2> QED
    BY <1>1, <1>6, <2>1 DEF EndingOf
<1> QED
  BY <1>1, <1>2, <1>5, <1>6 DEF EndingOf

\* A step keeps the endings if its own job's part holds afterwards and nobody ended the
\* same hold before.
LEMMA EndingsFromParts ==
    ASSUME Jobs, Endings, NEW w \in Workers, OnlyJobOf(w), HoldsOfOne(w),
           hold' # hold => pc[w] \in Handling \cup {"settle"},
           EndingOf(w)',
           pc'[w] \in {"giveback", "deduct"} =>
              \A x \in Workers : x # w /\ pc[x] \in {"giveback", "deduct"} /\ cur[x] = cur'[w]
                                   => Ord(x) # Ord(w)',
           Ord(w)' = task'[w].order
    PROVE  Endings'
<1>1. \A x \in Workers : EndingOf(x)'
  BY OthersEndings
<1>2. OneEnder'
  <2>1. \A x \in Workers : x # w => pc'[x] = pc[x] /\ cur'[x] = cur[x] /\ Ord(x)' = Ord(x)
    BY DEF OnlyJobOf, Ord
  <2>2. OneEnder
    BY DEF Endings
  <2> HIDE DEF Ord
  <2> QED
    BY <2>1, <2>2 DEF OneEnder
<1> QED
  BY <1>1, <1>2 DEF Endings

-------------------------------------------------------------------------------
(* The steps that have to do with stock, one by one *)

\* The units of one item are reserved; its row is next.
Reserves(w, v) ==
    /\ pc[w] = "reserve" /\ pc'[w] = "row" /\ v \in todo[w]
    /\ cur'[w] = v /\ todo'[w] = todo[w]
    /\ reservedQty' = [reservedQty EXCEPT ![v] = @ + QtyOf(Ord(w), v)]
    /\ UNCHANGED <<stockQty, hold, placedBy>>

\* A refusal turns the placement back.
GivesUp(w) ==
    /\ pc[w] \in {"reserve", "coupon"}
    /\ todo'[w] = Active(Ord(w))
    /\ pc'[w] \in {"undo", "unrow"} /\ (pc'[w] = "unrow" => Active(Ord(w)) = {})
    /\ UNCHANGED StockBooks

WritesRow(w) ==
    /\ pc[w] = "row" /\ pc'[w] \in {"coupon", "reserve"}
    /\ hold' = [hold EXCEPT ![Ord(w)][cur[w]] = "RESERVED"]
    /\ UNCHANGED <<stockQty, reservedQty, placedBy>>

UnitsGoBack(v, qty) == reservedQty' = [reservedQty EXCEPT ![v] = ReleasedAfter(Row(v), qty)]

UndoesUnits(w, v) ==
    /\ pc[w] = "undo" /\ v \in todo[w]
    /\ todo'[w] = todo[w] \ {v}
    /\ pc'[w] \in {"undo", "unrow"} /\ (pc'[w] = "unrow" => todo'[w] = {})
    /\ UnitsGoBack(v, QtyOf(Ord(w), v))
    /\ UNCHANGED <<stockQty, hold, placedBy>>

UndoesRows(w) ==
    /\ pc[w] = "unrow" /\ pc'[w] = "idle"
    /\ hold' = [hold EXCEPT ![Ord(w)] =
                  [v \in Variants |-> IF @[v] = "RESERVED" THEN "RELEASED" ELSE @[v]]]
    /\ UNCHANGED <<stockQty, reservedQty, placedBy>>

EndsHold(w, v) ==
    /\ pc[w] = "settle" /\ pc'[w] = "giveback" /\ v \in todo[w]
    /\ hold[Ord(w)][v] = "RESERVED"
    /\ hold' = [hold EXCEPT ![Ord(w)][v] = SettledAs(w)]
    /\ cur'[w] = v
    /\ UNCHANGED <<stockQty, reservedQty, placedBy>>

ReturnsUnits(w) ==
    /\ pc[w] = "giveback"
    /\ UnitsGoBack(cur[w], QtyOf(Ord(w), cur[w]))
    /\ IF Commits(task[w].op) THEN pc'[w] = "deduct" /\ cur'[w] = cur[w]
       ELSE pc'[w] \in {"redeem", "settle"}
    /\ UNCHANGED <<stockQty, hold, placedBy>>

TakesFromStock(w) ==
    /\ pc[w] = "deduct" /\ pc'[w] \in {"redeem", "settle"}
    /\ \/ UNCHANGED stockQty
       \/ stockQty' = [stockQty EXCEPT ![cur[w]] = @ - QtyOf(Ord(w), cur[w])]
    /\ UNCHANGED <<reservedQty, hold, placedBy>>

\* They stay with their order.
Stays(w) == OnlyJobOf(w) /\ task'[w] = task[w]

LEMMA PlacementWithStock ==
    ASSUME Jobs, Stocked, NEW w \in Workers,
           ReserveItem(w) \/ WriteReservation(w) \/ ReserveCoupon(w) \/ UndoReserve(w)
    PROVE  \/ Aside(w)
           \/ /\ Stays(w)
              /\ \/ GivesUp(w) \/ WritesRow(w)
                 \/ \E v \in Variants : Reserves(w, v) \/ UndoesUnits(w, v)
<1> USE DEF At, Goto, OnlyJobOf, StockBooks, orderVars, stockVars, JobType, Stays
<1>1. JobType /\ Ord(w)' = task'[w].order /\ stockQty \in [Variants -> Int] /\ reservedQty \in [Variants -> Nat]
  BY DEF Jobs, Shape, Ord, Stocked, StockType
<1>2. CASE ReserveItem(w)
  <2>1. /\ pc[w] = "reserve" /\ task' = task
        /\ UNCHANGED <<stockQty, hold, placedBy>>
    BY <1>2 DEF ReserveItem
  <2>2. PICK v \in todo[w] :
          IF CanReserve(Row(v), QtyOf(Ord(w), v))
          THEN /\ reservedQty' = [reservedQty EXCEPT ![v] = ReservedAfter(Row(v), QtyOf(Ord(w), v))]
               /\ cur' = [cur EXCEPT ![w] = v]
               /\ Goto(w, "row")
               /\ UNCHANGED todo
          ELSE /\ todo' = [todo EXCEPT ![w] = Active(Ord(w))]
               /\ Goto(w, IF Active(Ord(w)) = {} THEN "unrow" ELSE "undo")
               /\ UNCHANGED <<reservedQty, cur>>
    BY <1>2 DEF ReserveItem
  <2>3. v \in Variants /\ seen' = seen
    BY <1>1, <1>2 DEF ReserveItem
  <2>4. CASE CanReserve(Row(v), QtyOf(Ord(w), v))
    <3>1. reservedQty' = [reservedQty EXCEPT ![v] = reservedQty[v] + QtyOf(Ord(w), v)]
      BY <2>2, <2>3, <2>4, RowFields DEF ReservedAfter
    <3>2. Stays(w) /\ pc'[w] = "row" /\ cur'[w] = v /\ todo'[w] = todo[w]
      BY <1>1, <2>1, <2>2, <2>3, <2>4
    <3> QED
      BY <1>1, <2>1, <2>2, <2>3, <3>1, <3>2 DEF Reserves
  <2>5. CASE ~CanReserve(Row(v), QtyOf(Ord(w), v))
    BY <1>1, <2>1, <2>2, <2>3, <2>5 DEF GivesUp
  <2> QED
    BY <2>4, <2>5
<1>3. CASE WriteReservation(w)
  BY <1>1, <1>3 DEF WriteReservation, WritesRow
<1>4. CASE ReserveCoupon(w)
  BY <1>1, <1>4 DEF ReserveCoupon, GivesUp, Aside, Handling
<1>5. CASE UndoReserve(w)
  <2>1. PICK v \in todo[w] :
          /\ reservedQty' = [reservedQty EXCEPT ![v] = ReleasedAfter(Row(v), QtyOf(Ord(w), v))]
          /\ todo' = [todo EXCEPT ![w] = @ \ {v}]
          /\ Goto(w, IF todo[w] = {v} THEN "unrow" ELSE "undo")
    BY <1>5 DEF UndoReserve
  <2>2. v \in Variants
    BY <1>1
  <2> QED
    BY <1>1, <1>5, <2>1, <2>2 DEF UndoReserve, UndoesUnits, UnitsGoBack
<1> QED
  BY <1>2, <1>3, <1>4, <1>5

LEMMA SettlementWithStock ==
    ASSUME Jobs, Stocked, NEW w \in Workers, SettleHold(w) \/ GiveBack(w) \/ Deduct(w)
    PROVE  \/ Aside(w)
           \/ /\ Stays(w)
              /\ \/ ReturnsUnits(w) \/ TakesFromStock(w)
                 \/ \E v \in Variants : EndsHold(w, v)
<1> USE DEF At, Goto, OnlyJobOf, StockBooks, orderVars, stockVars, JobType, Stays, NextHold
<1>1. JobType /\ stockQty \in [Variants -> Int] /\ reservedQty \in [Variants -> Nat]
  BY DEF Jobs, Shape, Stocked, StockType
<1>2. CASE SettleHold(w)
  <2>1. PICK v \in todo[w] :
          IF StillReserved(Ord(w), v)
          THEN /\ hold' = [hold EXCEPT ![Ord(w)][v] = SettledAs(w)]
               /\ cur' = [cur EXCEPT ![w] = v]
               /\ Goto(w, "giveback")
               /\ UNCHANGED todo
          ELSE NextHold(w, v) /\ UNCHANGED <<hold, cur>>
    BY <1>2 DEF SettleHold
  <2>2. v \in Variants
    BY <1>1
  <2> QED
    BY <1>1, <1>2, <2>1, <2>2 DEF SettleHold, EndsHold, Aside, Handling, StillReserved
<1>3. CASE GiveBack(w)
  BY <1>1, <1>3 DEF GiveBack, ReturnsUnits, UnitsGoBack
<1>4. CASE Deduct(w)
  <2>1. cur[w] \in Variants /\ QtyOf(Ord(w), cur[w]) \in Nat
    BY <1>4, QuantityType DEF Deduct, Jobs, Shape, ControlOf
  <2>2. AdjustedQty(Row(cur[w]), -QtyOf(Ord(w), cur[w])) = stockQty[cur[w]] - QtyOf(Ord(w), cur[w])
    BY <1>1, <2>1, RowFields DEF AdjustedQty
  <2> QED
    BY <1>1, <1>4, <2>2 DEF Deduct, TakesFromStock
<1> QED
  BY <1>2, <1>3, <1>4

LEMMA UndoRowsIs ==
    ASSUME Jobs, NEW w \in Workers, UndoRows(w)
    PROVE  OnlyJobOf(w) /\ UndoesRows(w)
BY FinishKeeps DEF UndoRows, UndoesRows, At, Finish, Goto, OnlyJobOf, Jobs, Shape, JobType, orderVars, stockVars

\* An order appears: nothing of it is held, and nobody handles it.
LEMMA CreateIs ==
    ASSUME Jobs, NEW w \in Workers, Create(w)
    PROVE  /\ OnlyJobOf(w) /\ UNCHANGED <<stockQty, reservedQty, hold>>
           /\ pc[w] = "create" /\ pc'[w] \notin Handling
           /\ \A o \in Orders : o # Ord(w) => placedBy'[o] = placedBy[o]
           /\ \A v \in Variants : hold[Ord(w)][v] = "NONE"
           /\ \A x \in Workers : pc[x] \in Handling => Ord(x) # Ord(w)
<1>1. OnlyJobOf(w) /\ UNCHANGED <<stockQty, reservedQty, hold>> /\ pc'[w] \notin Handling
  BY DEF Create, At, Goto, OnlyJobOf, Jobs, Shape, JobType, Handling, stockVars
<1>2. status[Ord(w)] = "NONE" /\ Ord(w) \in Orders /\ pc[w] = "create"
  BY DEF Create, At, Jobs, Creating, Shape, ControlOf, OpAt, TaskOK, Ord, PlacingOps
<1>3. \A o \in Orders : o # Ord(w) => placedBy'[o] = placedBy[o]
  BY DEF Create, Jobs, Shape, RecordType
<1>4. \A v \in Variants : hold[Ord(w)][v] = "NONE"
  BY <1>2 DEF Jobs, ReleaseInvariant, Holding, HeldWhileUndecided
<1>5. \A x \in Workers : pc[x] \in Handling => Ord(x) # Ord(w)
  BY <1>2 DEF Jobs, Shape, ControlOf, Ord, Handling
<1> QED
  BY <1>1, <1>2, <1>3, <1>4, <1>5

\* Every step, seen from the stock.
LEMMA StockStepsAre ==
    ASSUME Jobs, Stocked, [Next]_vars
    PROVE  \/ UNCHANGED StockBooks /\ UNCHANGED jobVars
           \/ \E w \in Workers :
                 \/ Aside(w) \/ Crash(w) \/ Create(w)
                 \/ OnlyJobOf(w) /\ UndoesRows(w)
                 \/ /\ Stays(w)
                    /\ \/ GivesUp(w) \/ WritesRow(w) \/ ReturnsUnits(w) \/ TakesFromStock(w)
                       \/ \E v \in Variants : Reserves(w, v) \/ UndoesUnits(w, v) \/ EndsHold(w, v)
BY StockSteps, PlacementWithStock, SettlementWithStock, UndoRowsIs DEF Jobs

\* An order that is not of a job yet has no part in its step.
LEMMA OrderOfJob ==
    ASSUME Jobs, NEW w \in Workers, pc[w] # "idle"
    PROVE  Ord(w) \in Orders /\ todo[w] \subseteq Variants
BY DEF Jobs, Shape, ControlOf, TaskOK, Ord, JobType

LEMMA HoldType == Jobs => hold \in [Orders -> [Variants -> HoldStatuses]]
BY DEF Jobs, Shape, RecordType

LEMMA EndingsStart == Init => Endings
BY DEF Init, Endings, EndingOf, OneEnder

LEMMA StepKeepsEndings ==
    ASSUME Jobs, Stocked, Endings, [Next]_vars
    PROVE  Endings'
<1> USE HoldType
<1>1. CASE UNCHANGED StockBooks /\ UNCHANGED jobVars
  BY <1>1 DEF StockBooks, jobVars, Endings, EndingOf, OneEnder, Ord, Commits
<1>2. ASSUME NEW w \in Workers, OnlyJobOf(w), hold' = hold, EndingOf(w)',
             pc'[w] \in {"giveback", "deduct"} =>
               /\ pc[w] \in {"giveback", "deduct"} /\ cur'[w] = cur[w] /\ task'[w] = task[w]
      PROVE  Endings'
  <2>1. HoldsOfOne(w)
    BY <1>2 DEF HoldsOfOne
  <2>2. pc'[w] \in {"giveback", "deduct"} =>
          \A x \in Workers : x # w /\ pc[x] \in {"giveback", "deduct"} /\ cur[x] = cur'[w]
                               => Ord(x) # Ord(w)'
    BY <1>2 DEF Endings, OneEnder, Ord
  <2>3. Ord(w)' = task'[w].order
    BY DEF Ord
  <2> QED
    BY <1>2, <2>1, <2>2, <2>3, EndingsFromParts
<1>3. ASSUME NEW w \in Workers, Aside(w) PROVE Endings'
  BY <1>2, <1>3 DEF Aside, StockBooks, Handling, EndingOf
<1>4. ASSUME NEW w \in Workers, Crash(w) PROVE Endings'
  <2>1. OnlyJobOf(w) /\ pc'[w] = "idle" /\ hold' = hold
    BY <1>4, FinishKeeps DEF Crash, Jobs, Shape, database
  <2> QED
    BY <1>2, <2>1 DEF EndingOf
<1>5. ASSUME NEW w \in Workers, Create(w) PROVE Endings'
  <2>1. OnlyJobOf(w) /\ hold' = hold /\ pc'[w] \notin Handling
    BY <1>5, CreateIs
  <2> QED
    BY <1>2, <2>1 DEF EndingOf, Handling
<1>6. ASSUME NEW w \in Workers, OnlyJobOf(w), UndoesRows(w) PROVE Endings'
  <2>1. Ord(w) \in Orders
    BY <1>6, OrderOfJob DEF UndoesRows
  <2>2. HoldsOfOne(w)
    BY <1>6, <2>1 DEF UndoesRows, HoldsOfOne
  <2>3. EndingOf(w)' /\ pc'[w] \notin {"giveback", "deduct"} /\ pc[w] \in Handling
    BY <1>6 DEF UndoesRows, EndingOf, Handling
  <2>4. Ord(w)' = task'[w].order
    BY DEF Ord
  <2> QED
    BY <1>6, <2>2, <2>3, <2>4, EndingsFromParts
<1>7. ASSUME NEW w \in Workers, Stays(w), GivesUp(w) PROVE Endings'
  BY <1>2, <1>7 DEF Stays, GivesUp, StockBooks, EndingOf, Active, Ord
<1>8. ASSUME NEW w \in Workers, Stays(w), ReturnsUnits(w) \/ TakesFromStock(w) PROVE Endings'
  <2>1. EndingOf(w)
    BY DEF Endings
  <2> QED
    BY <1>2, <1>8, <2>1 DEF Stays, ReturnsUnits, TakesFromStock, EndingOf, Ord
<1>9. ASSUME NEW w \in Workers, Stays(w), NEW v \in Variants, Reserves(w, v) PROVE Endings'
  BY <1>2, <1>9 DEF Stays, Reserves, EndingOf
<1>10. ASSUME NEW w \in Workers, Stays(w), NEW v \in Variants, UndoesUnits(w, v) PROVE Endings'
  <2>1. EndingOf(w)
    BY DEF Endings
  <2> QED
    BY <1>2, <1>10, <2>1 DEF Stays, UndoesUnits, EndingOf, Ord
<1>11. ASSUME NEW w \in Workers, Stays(w), WritesRow(w) PROVE Endings'
  <2>1. Ord(w) \in Orders /\ cur[w] \in Variants /\ hold[Ord(w)][cur[w]] = "NONE"
    BY <1>11, OrderOfJob DEF WritesRow, Jobs, Shape, ControlOf, ReleaseInvariant, Holding, HoldsOf
  <2>2. HoldsOfOne(w)
    BY <1>11, <2>1 DEF WritesRow, HoldsOfOne
  <2>3. EndingOf(w)' /\ pc'[w] \notin {"giveback", "deduct"} /\ pc[w] \in Handling
    BY <1>11 DEF WritesRow, EndingOf, Handling
  <2>4. Ord(w)' = task'[w].order
    BY DEF Ord
  <2> QED
    BY <1>11, <2>2, <2>3, <2>4, EndingsFromParts DEF Stays
<1>12. ASSUME NEW w \in Workers, Stays(w), NEW v \in Variants, EndsHold(w, v) PROVE Endings'
  <2>1. Ord(w) \in Orders /\ Ord(w)' = Ord(w) /\ Ord(w)' = task'[w].order
    BY <1>12, OrderOfJob DEF EndsHold, Stays, Ord
  <2>2. /\ hold'[Ord(w)][v] = SettledAs(w)
        /\ HoldsOfOne(w)
    BY <1>12, <2>1 DEF EndsHold, HoldsOfOne
  <2>3. EndingOf(w)'
    <3>1. SettledAs(w) \notin {"NONE", "RESERVED"} /\ (Commits(task[w].op) => SettledAs(w) = "CONSUMED")
      BY DEF SettledAs, Commits
    <3>2. pc'[w] = "giveback" /\ cur'[w] = v /\ task'[w] = task[w]
      BY <1>12 DEF EndsHold, Stays
    <3>3. Commits(task'[w].op) <=> Commits(task[w].op)
      BY <3>2 DEF Commits
    <3> HIDE DEF SettledAs
    <3> QED
      BY <2>1, <2>2, <3>1, <3>2, <3>3 DEF EndingOf, Commits
  <2>4. \A x \in Workers : x # w /\ pc[x] \in {"giveback", "deduct"} /\ cur[x] = cur'[w]
                             => Ord(x) # Ord(w)'
    BY <1>12, <2>1 DEF EndsHold, Endings, EndingOf
  <2> QED
    BY <1>12, <2>1, <2>2, <2>3, <2>4, EndingsFromParts DEF EndsHold, Stays
<1> QED
  BY <1>1, <1>3, <1>4, <1>5, <1>6, <1>7, <1>8, <1>9, <1>10, <1>11, <1>12, StockStepsAre

LEMMA EndingsInductive ==
    ASSUME AdminStaysCommitted
    PROVE  Spec => [](Jobs /\ Stocked /\ Endings)
<1>1. Jobs /\ Stocked /\ Endings /\ [Next]_vars => Endings'
  BY StepKeepsEndings
<1>2. Shape /\ ReleaseInvariant /\ Creating => Jobs
  BY DEF Jobs
<1> QED
  BY <1>1, <1>2, EndingsStart, ShapeInvariant, StockedInvariant, CreatingInvariant, ReleaseInductive, PTL DEF Spec

-------------------------------------------------------------------------------
(* Units of a variant over a set of orders *)

\* What the orders of a set hold of v, when the order rows name these sessions.
UnitsFor(S, v, placed) == SumFunctionOnSet([o \in S |-> Qty[placed[o]][v]], S)

PlacedIn(S, placed) == S \subseteq Orders /\ \A o \in S : placed[o] \in Sessions

LEMMA UnitsAre == \A S, v : Units(S, v) = UnitsFor(S, v, placedBy)
BY DEF Units, UnitsFor, QtyOf

LEMMA UnitsType ==
    ASSUME IsFiniteSet(Orders), NEW placed, NEW v \in Variants, NEW S, PlacedIn(S, placed)
    PROVE  UnitsFor(S, v, placed) \in Nat
<1>1. IsFiniteSet(S) /\ \A o \in S : Qty[placed[o]][v] \in Nat
  BY CheckoutAssumption, FS_Subset DEF PlacedIn
<1> QED
  BY <1>1, SumIsNat DEF UnitsFor

\* An order more.
LEMMA UnitsWith ==
    ASSUME IsFiniteSet(Orders), NEW placed, NEW v \in Variants, NEW o, NEW S, o \notin S,
           PlacedIn(S \cup {o}, placed)
    PROVE  UnitsFor(S \cup {o}, v, placed) = Qty[placed[o]][v] + UnitsFor(S, v, placed)
<1> DEFINE T == S \cup {o}
           f == [x \in T |-> Qty[placed[x]][v]]
           g == [x \in S |-> Qty[placed[x]][v]]
<1>1. IsFiniteSet(T) /\ IsFiniteSet(S) /\ \A x \in T : f[x] \in Int
  <2>1. \A x \in T : Qty[placed[x]][v] \in Nat
    BY CheckoutAssumption DEF PlacedIn
  <2>2. IsFiniteSet(T) /\ IsFiniteSet(S)
    BY FS_Subset DEF PlacedIn
  <2> QED
    BY <2>1, <2>2
<1>2. SumFunctionOnSet(f, T) = f[o] + SumFunctionOnSet(f, S)
  BY <1>1, SumWith
<1>3. SumFunctionOnSet(f, S) = SumFunctionOnSet(g, S)
  BY <1>1, SumOfEqual
<1> QED
  BY <1>2, <1>3 DEF UnitsFor

\* Only who placed the orders of the set matters.
LEMMA UnitsSame ==
    ASSUME IsFiniteSet(Orders), NEW v \in Variants, NEW placed, NEW placed2, NEW S, PlacedIn(S, placed),
           \A o \in S : placed2[o] = placed[o]
    PROVE  UnitsFor(S, v, placed2) = UnitsFor(S, v, placed)
<1>1. IsFiniteSet(S)
  BY FS_Subset DEF PlacedIn
<1> QED
  BY <1>1, SumOfEqual DEF UnitsFor

LEMMA UnitsOfTwoParts ==
    ASSUME IsFiniteSet(Orders), NEW placed, NEW v \in Variants, NEW S, NEW T, S \cap T = {},
           PlacedIn(S \cup T, placed)
    PROVE  UnitsFor(S \cup T, v, placed) = UnitsFor(S, v, placed) + UnitsFor(T, v, placed)
<1> DEFINE f == [x \in S \cup T |-> Qty[placed[x]][v]]
           g == [x \in S |-> Qty[placed[x]][v]]
           h == [x \in T |-> Qty[placed[x]][v]]
<1>1. IsFiniteSet(S) /\ IsFiniteSet(T)
  BY FS_Subset DEF PlacedIn
<1>2. \A x \in S \cup T : f[x] \in Int
  <2>1. \A x \in S \cup T : Qty[placed[x]][v] \in Nat
    BY CheckoutAssumption DEF PlacedIn
  <2> QED
    BY <2>1
<1>3. SumFunctionOnSet(f, S \cup T) = SumFunctionOnSet(f, S) + SumFunctionOnSet(f, T)
  BY <1>1, <1>2, SumOfTwoParts
<1>4. SumFunctionOnSet(f, S) = SumFunctionOnSet(g, S) /\ SumFunctionOnSet(f, T) = SumFunctionOnSet(h, T)
  BY <1>1, SumOfEqual
<1> QED
  BY <1>3, <1>4 DEF UnitsFor

-------------------------------------------------------------------------------
(* The reserved units *)

\* The order's units of v are about to get their row or about to go back, or went back
\* while the row is still there.
CarriedBy(x, o, v) == pc[x] \in {"row", "giveback"} /\ cur[x] = v /\ Ord(x) = o
UndoneBy(x, o, v) == pc[x] \in {"undo", "unrow"} /\ v \notin todo[x] /\ Ord(x) = o

Charged(o, v) ==
    \/ hold[o][v] = "RESERVED" /\ \A x \in Workers : ~UndoneBy(x, o, v)
    \/ \E x \in Workers : CarriedBy(x, o, v)

ChargedTo(v) == {o \in Orders : Charged(o, v)}

\* The reserved units of a variant are those of the orders charged with it.
Balanced == \A v \in Variants : reservedQty[v] = UnitsFor(ChargedTo(v), v, placedBy)

LEMMA ChargedWasPlaced ==
    ASSUME Jobs, NEW v \in Variants
    PROVE  PlacedIn(ChargedTo(v), placedBy)
<1>1. ASSUME NEW o \in Orders, Charged(o, v) PROVE status[o] # "NONE"
  <2>1. hold[o][v] = "RESERVED" => status[o] # "NONE"
    BY DEF Jobs, ReleaseInvariant, Holding, HeldWhileUndecided
  <2>2. \A x \in Workers : CarriedBy(x, o, v) => status[o] # "NONE"
    BY DEF CarriedBy, Ord, Jobs, Shape, ControlOf
  <2> QED
    BY <1>1, <2>1, <2>2 DEF Charged
<1> QED
  BY <1>1 DEF PlacedIn, ChargedTo, Jobs, Shape, Placed

\* A step of w changes what w carries and has undone, and nothing else of that kind.
LEMMA OthersCarry ==
    ASSUME NEW w \in Workers, OnlyJobOf(w), NEW x \in Workers, x # w, NEW o, NEW v
    PROVE  /\ CarriedBy(x, o, v)' <=> CarriedBy(x, o, v)
           /\ UndoneBy(x, o, v)' <=> UndoneBy(x, o, v)
BY DEF OnlyJobOf, CarriedBy, UndoneBy, Ord

LEMMA SameCharge ==
    ASSUME NEW w \in Workers, OnlyJobOf(w), NEW o \in Orders, NEW v \in Variants,
           hold'[o][v] = hold[o][v],
           CarriedBy(w, o, v)' <=> CarriedBy(w, o, v),
           hold[o][v] = "RESERVED" => (UndoneBy(w, o, v)' <=> UndoneBy(w, o, v))
    PROVE  Charged(o, v)' <=> Charged(o, v)
<1>1. \A x \in Workers : CarriedBy(x, o, v)' <=> CarriedBy(x, o, v)
  BY OthersCarry
<1>2. hold[o][v] = "RESERVED" => \A x \in Workers : UndoneBy(x, o, v)' <=> UndoneBy(x, o, v)
  BY OthersCarry
<1> HIDE DEF CarriedBy, UndoneBy
<1> QED
  BY <1>1, <1>2 DEF Charged

\* While an order is placed nobody else carries or undoes its units, and while a job
\* ends a hold of it nobody undoes any.
LEMMA NobodyElse ==
    ASSUME Jobs, NEW w \in Workers, NEW v
    PROVE  /\ pc[w] \in {"reserve", "row", "coupon", "undo", "unrow"} =>
                \A x \in Workers : x # w => ~CarriedBy(x, Ord(w), v) /\ ~UndoneBy(x, Ord(w), v)
           /\ pc[w] \in {"settle", "giveback"} => \A x \in Workers : ~UndoneBy(x, Ord(w), v)
           /\ pc[w] \in {"settle", "giveback"} =>
                \A x \in Workers : CarriedBy(x, Ord(w), v) => pc[x] = "giveback"
<1> USE DEF CarriedBy, UndoneBy, Handling
<1>1. ASSUME NEW x \in Workers, x # w, pc[x] \in {"row", "giveback", "undo", "unrow"},
             pc[w] \in {"reserve", "row", "coupon", "undo", "unrow"}
      PROVE  Ord(x) # Ord(w)
  BY <1>1, PlacementHandlesAlone
<1>2. ASSUME NEW x \in Workers, pc[x] \in {"row", "undo", "unrow"}, pc[w] \in {"settle", "giveback"}
      PROVE  Ord(x) # Ord(w)
  BY <1>2, PlacementHandlesAlone
<1> HIDE DEF Handling
<1> QED
  BY <1>1, <1>2

LEMMA AsideCharges ==
    ASSUME NEW w \in Workers, Aside(w), NEW o \in Orders, NEW v \in Variants
    PROVE  Charged(o, v)' <=> Charged(o, v)
BY SameCharge DEF Aside, StockBooks, Handling, CarriedBy, UndoneBy

LEMMA CreateCharges ==
    ASSUME Jobs, NEW w \in Workers, Create(w), NEW o \in Orders, NEW v \in Variants
    PROVE  (Charged(o, v)' <=> Charged(o, v)) /\ (Charged(o, v) => placedBy'[o] = placedBy[o])
<1>1. Charged(o, v)' <=> Charged(o, v)
  BY CreateIs, SameCharge DEF Handling, CarriedBy, UndoneBy
<1>2. ~Charged(Ord(w), v)
  BY CreateIs DEF Charged, CarriedBy, Handling
<1>3. o # Ord(w) => placedBy'[o] = placedBy[o]
  BY CreateIs
<1> QED
  BY <1>1, <1>2, <1>3

LEMMA UndoRowsCharges ==
    ASSUME Jobs, Endings, NEW w \in Workers, OnlyJobOf(w), UndoesRows(w), NEW o \in Orders, NEW v \in Variants
    PROVE  Charged(o, v)' <=> Charged(o, v)
<1> USE HoldType
<1>1. Ord(w) \in Orders /\ todo[w] = {} /\ pc[w] = "unrow" /\ pc'[w] = "idle"
  BY OrderOfJob DEF UndoesRows, Endings, EndingOf
<1>2. CASE o # Ord(w)
  BY <1>1, <1>2, SameCharge DEF UndoesRows, CarriedBy, UndoneBy
<1>3. CASE o = Ord(w)
  <2>1. UndoneBy(w, o, v) /\ \A x \in Workers : ~CarriedBy(x, o, v)
    BY <1>1, <1>3, NobodyElse DEF UndoneBy, CarriedBy
  <2>2. hold'[o][v] # "RESERVED"
    BY <1>1, <1>3 DEF UndoesRows
  <2>3. ~CarriedBy(w, o, v)'
    BY <1>1 DEF CarriedBy
  <2>4. \A x \in Workers : ~CarriedBy(x, o, v)'
    BY <2>1, <2>3, OthersCarry
  <2> QED
    BY <2>1, <2>2, <2>4 DEF Charged
<1> QED
  BY <1>2, <1>3

LEMMA GivesUpCharges ==
    ASSUME Jobs, NEW w \in Workers, Stays(w), GivesUp(w), NEW o \in Orders, NEW v \in Variants
    PROVE  Charged(o, v)' <=> Charged(o, v)
<1>1. ~CarriedBy(w, o, v) /\ ~CarriedBy(w, o, v)' /\ ~UndoneBy(w, o, v)
  BY DEF GivesUp, CarriedBy, UndoneBy
<1>2. hold[o][v] = "RESERVED" => ~UndoneBy(w, o, v)'
  BY DEF GivesUp, UndoneBy, Active, Stays, Ord
<1> QED
  BY <1>1, <1>2, SameCharge DEF Stays, GivesUp, StockBooks

LEMMA WritesRowCharges ==
    ASSUME Jobs, NEW w \in Workers, Stays(w), WritesRow(w), NEW o \in Orders, NEW v \in Variants
    PROVE  Charged(o, v)' <=> Charged(o, v)
<1> USE HoldType
<1>1. Ord(w) \in Orders /\ cur[w] \in Variants /\ pc[w] = "row" /\ pc'[w] \in {"coupon", "reserve"}
  BY OrderOfJob DEF WritesRow, Jobs, Shape, ControlOf
<1>2. CASE o # Ord(w) \/ v # cur[w]
  <2>1. hold'[o][v] = hold[o][v]
    BY <1>1, <1>2 DEF WritesRow
  <2> QED
    BY <1>1, <1>2, <2>1, SameCharge DEF Stays, CarriedBy, UndoneBy
<1>3. CASE o = Ord(w) /\ v = cur[w]
  <2>1. CarriedBy(w, o, v)
    BY <1>1, <1>3 DEF CarriedBy
  <2>2. hold'[o][v] = "RESERVED"
    BY <1>1, <1>3 DEF WritesRow
  <2>3. \A x \in Workers : ~UndoneBy(x, o, v)'
    <3>1. ~UndoneBy(w, o, v)'
      BY <1>1 DEF UndoneBy
    <3>2. \A x \in Workers : x # w => ~UndoneBy(x, o, v)
      BY <1>1, <1>3, NobodyElse
    <3> QED
      BY <3>1, <3>2, OthersCarry DEF Stays
  <2> QED
    BY <2>1, <2>2, <2>3 DEF Charged
<1> QED
  BY <1>2, <1>3

LEMMA EndsHoldCharges ==
    ASSUME Jobs, NEW w \in Workers, NEW u \in Variants, Stays(w), EndsHold(w, u),
           NEW o \in Orders, NEW v \in Variants
    PROVE  Charged(o, v)' <=> Charged(o, v)
<1> USE HoldType
<1>1. Ord(w) \in Orders /\ pc[w] = "settle" /\ pc'[w] = "giveback" /\ cur'[w] = u /\ Ord(w)' = Ord(w)
  BY OrderOfJob DEF EndsHold, Stays, Ord
<1>2. CASE o # Ord(w) \/ v # u
  <2>1. hold'[o][v] = hold[o][v]
    BY <1>1, <1>2 DEF EndsHold
  <2> QED
    BY <1>1, <1>2, <2>1, SameCharge DEF Stays, CarriedBy, UndoneBy
<1>3. CASE o = Ord(w) /\ v = u
  <2>1. CarriedBy(w, o, v)'
    BY <1>1, <1>3 DEF CarriedBy
  <2>2. hold[o][v] = "RESERVED" /\ \A x \in Workers : ~UndoneBy(x, o, v)
    BY <1>1, <1>3, NobodyElse DEF EndsHold
  <2> QED
    BY <2>1, <2>2 DEF Charged
<1> QED
  BY <1>2, <1>3

LEMMA TakesCharges ==
    ASSUME NEW w \in Workers, Stays(w), TakesFromStock(w), NEW o \in Orders, NEW v \in Variants
    PROVE  Charged(o, v)' <=> Charged(o, v)
BY SameCharge DEF Stays, TakesFromStock, CarriedBy, UndoneBy

\* Reserving charges the order, which was not charged with the item before.
LEMMA ReservesCharges ==
    ASSUME Jobs, NEW w \in Workers, NEW u \in Variants, Stays(w), Reserves(w, u),
           NEW o \in Orders, NEW v \in Variants
    PROVE  /\ o = Ord(w) /\ v = u => Charged(o, v)' /\ ~Charged(o, v)
           /\ o # Ord(w) \/ v # u => (Charged(o, v)' <=> Charged(o, v))
<1>1. Ord(w) \in Orders /\ pc[w] = "reserve" /\ pc'[w] = "row" /\ cur'[w] = u /\ Ord(w)' = Ord(w)
  BY OrderOfJob DEF Reserves, Stays, Ord
<1>2. CASE o # Ord(w) \/ v # u
  BY <1>1, <1>2, SameCharge DEF Stays, Reserves, CarriedBy, UndoneBy
<1>3. CASE o = Ord(w) /\ v = u
  <2>1. CarriedBy(w, o, v)'
    BY <1>1, <1>3 DEF CarriedBy
  <2>2. hold[o][v] = "NONE"
    BY <1>1, <1>3 DEF Reserves, Jobs, ReleaseInvariant, Holding, HoldsOf
  <2>3. \A x \in Workers : ~CarriedBy(x, o, v)
    BY <1>1, <1>3, NobodyElse DEF CarriedBy
  <2> QED
    BY <1>3, <2>1, <2>2, <2>3 DEF Charged
<1> QED
  BY <1>2, <1>3

\* Undoing and giving back take the charge away, which was there before.
LEMMA UndoesUnitsCharges ==
    ASSUME Jobs, Endings, NEW w \in Workers, NEW u \in Variants, Stays(w), UndoesUnits(w, u),
           NEW o \in Orders, NEW v \in Variants
    PROVE  /\ o = Ord(w) /\ v = u => ~Charged(o, v)' /\ Charged(o, v)
           /\ o # Ord(w) \/ v # u => (Charged(o, v)' <=> Charged(o, v))
<1>1. /\ Ord(w) \in Orders /\ pc[w] = "undo" /\ pc'[w] \in {"undo", "unrow"} /\ Ord(w)' = Ord(w)
      /\ todo'[w] = todo[w] \ {u} /\ u \in todo[w] /\ hold' = hold
  BY OrderOfJob DEF UndoesUnits, Stays, Ord
<1>2. CASE o # Ord(w) \/ v # u
  <2>1. (UndoneBy(w, o, v)' <=> UndoneBy(w, o, v)) /\ ~CarriedBy(w, o, v) /\ ~CarriedBy(w, o, v)'
    BY <1>1, <1>2 DEF CarriedBy, UndoneBy
  <2> QED
    BY <1>1, <1>2, <2>1, SameCharge DEF Stays
<1>3. CASE o = Ord(w) /\ v = u
  <2>1. UndoneBy(w, o, v)' /\ ~CarriedBy(w, o, v)' /\ ~CarriedBy(w, o, v) /\ ~UndoneBy(w, o, v)
    BY <1>1, <1>3 DEF UndoneBy, CarriedBy
  <2>2. \A x \in Workers : x # w => ~CarriedBy(x, o, v) /\ ~UndoneBy(x, o, v)
    BY <1>1, <1>3, NobodyElse
  <2>3. hold[o][v] = "RESERVED"
    BY <1>1, <1>3 DEF Endings, EndingOf
  <2>4. \A x \in Workers : ~CarriedBy(x, o, v)'
    BY <2>1, <2>2, OthersCarry DEF Stays
  <2>5. Charged(o, v)
    BY <2>1, <2>2, <2>3 DEF Charged
  <2> QED
    BY <1>3, <2>1, <2>4, <2>5 DEF Charged
<1> QED
  BY <1>2, <1>3

LEMMA ReturnsUnitsCharges ==
    ASSUME Jobs, Endings, NEW w \in Workers, Stays(w), ReturnsUnits(w), NEW o \in Orders, NEW v \in Variants
    PROVE  /\ o = Ord(w) /\ v = cur[w] => ~Charged(o, v)' /\ Charged(o, v)
           /\ o # Ord(w) \/ v # cur[w] => (Charged(o, v)' <=> Charged(o, v))
<1>1. /\ Ord(w) \in Orders /\ pc[w] = "giveback" /\ pc'[w] \in {"deduct", "redeem", "settle"}
      /\ Ord(w)' = Ord(w) /\ hold' = hold
  BY OrderOfJob DEF ReturnsUnits, Stays, Ord
<1>2. CASE o # Ord(w) \/ v # cur[w]
  <2>1. ~UndoneBy(w, o, v)' /\ ~UndoneBy(w, o, v) /\ ~CarriedBy(w, o, v) /\ ~CarriedBy(w, o, v)'
    BY <1>1, <1>2 DEF CarriedBy, UndoneBy
  <2> QED
    BY <1>1, <1>2, <2>1, SameCharge DEF Stays
<1>3. CASE o = Ord(w) /\ v = cur[w]
  <2>1. CarriedBy(w, o, v) /\ ~CarriedBy(w, o, v)'
    BY <1>1, <1>3 DEF CarriedBy
  <2>2. hold'[o][v] # "RESERVED"
    BY <1>1, <1>3 DEF Endings, EndingOf
  <2>3. \A x \in Workers : x # w => ~CarriedBy(x, o, v)
    <3>1. \A x \in Workers : CarriedBy(x, o, v) => pc[x] = "giveback" /\ cur[x] = cur[w] /\ Ord(x) = Ord(w)
      BY <1>1, <1>3, NobodyElse DEF CarriedBy
    <3> QED
      BY <1>1, <3>1 DEF Endings, OneEnder
  <2>4. \A x \in Workers : ~CarriedBy(x, o, v)'
    BY <2>1, <2>3, OthersCarry DEF Stays
  <2> QED
    BY <1>3, <2>1, <2>2, <2>4 DEF Charged
<1> QED
  BY <1>2, <1>3

\* A step that charges the same orders, and one that charges an order more or less.
LEMMA BalanceStays ==
    ASSUME Jobs, IsFiniteSet(Orders), NEW v \in Variants, reservedQty[v] = UnitsFor(ChargedTo(v), v, placedBy),
           \A o \in Orders : Charged(o, v)' <=> Charged(o, v),
           \A o \in Orders : Charged(o, v) => placedBy'[o] = placedBy[o],
           reservedQty'[v] = reservedQty[v]
    PROVE  reservedQty'[v] = UnitsFor(ChargedTo(v)', v, placedBy')
<1>1. ChargedTo(v)' = ChargedTo(v)
  BY DEF ChargedTo
<1>2. \A o \in ChargedTo(v) : placedBy'[o] = placedBy[o]
  BY DEF ChargedTo
<1>3. UnitsFor(ChargedTo(v), v, placedBy') = UnitsFor(ChargedTo(v), v, placedBy)
  BY <1>2, ChargedWasPlaced, UnitsSame
<1> QED
  BY <1>1, <1>3

LEMMA BalanceGains ==
    ASSUME Jobs, IsFiniteSet(Orders), NEW v \in Variants, reservedQty[v] = UnitsFor(ChargedTo(v), v, placedBy),
           NEW c \in Orders, ~Charged(c, v), Charged(c, v)', placedBy[c] \in Sessions,
           \A o \in Orders \ {c} : Charged(o, v)' <=> Charged(o, v),
           placedBy' = placedBy,
           reservedQty'[v] = reservedQty[v] + QtyOf(c, v)
    PROVE  reservedQty'[v] = UnitsFor(ChargedTo(v)', v, placedBy')
<1>1. ChargedTo(v)' = ChargedTo(v) \cup {c} /\ c \notin ChargedTo(v)
  BY DEF ChargedTo
<1>2. PlacedIn(ChargedTo(v) \cup {c}, placedBy)
  BY ChargedWasPlaced DEF PlacedIn
<1>3. UnitsFor(ChargedTo(v) \cup {c}, v, placedBy) = QtyOf(c, v) + UnitsFor(ChargedTo(v), v, placedBy)
  BY <1>1, <1>2, UnitsWith DEF QtyOf
<1>4. QtyOf(c, v) \in Nat /\ UnitsFor(ChargedTo(v), v, placedBy) \in Nat
  BY CheckoutAssumption, ChargedWasPlaced, UnitsType DEF QtyOf
<1> QED
  BY <1>1, <1>3, <1>4

LEMMA BalanceLoses ==
    ASSUME Jobs, Stocked, IsFiniteSet(Orders), NEW v \in Variants,
           reservedQty[v] = UnitsFor(ChargedTo(v), v, placedBy),
           NEW c \in Orders, Charged(c, v), ~Charged(c, v)',
           \A o \in Orders \ {c} : Charged(o, v)' <=> Charged(o, v),
           placedBy' = placedBy, UnitsGoBack(v, QtyOf(c, v))
    PROVE  reservedQty'[v] = UnitsFor(ChargedTo(v)', v, placedBy')
<1> DEFINE rest == ChargedTo(v) \ {c}
<1>1. ChargedTo(v)' = rest /\ ChargedTo(v) = rest \cup {c} /\ c \notin rest
  BY DEF ChargedTo
<1>2. PlacedIn(rest \cup {c}, placedBy) /\ PlacedIn(rest, placedBy) /\ placedBy[c] \in Sessions
  BY <1>1, ChargedWasPlaced DEF PlacedIn
<1>3. QtyOf(c, v) \in Nat
  BY <1>2, CheckoutAssumption DEF QtyOf
<1> HIDE DEF rest
<1>4. UnitsFor(rest, v, placedBy) \in Nat
  BY <1>2, UnitsType
<1>5. reservedQty[v] = QtyOf(c, v) + UnitsFor(rest, v, placedBy)
  BY <1>1, <1>2, UnitsWith DEF QtyOf
<1>6. reservedQty'[v] = ReleasedAfter(Row(v), QtyOf(c, v))
  BY DEF UnitsGoBack, Stocked, StockType
<1>7. ReleasedAfter(Row(v), QtyOf(c, v)) = reservedQty[v] - QtyOf(c, v)
  BY <1>3, <1>4, <1>5, RowFields DEF ReleasedAfter, Releasable
<1> QED
  BY <1>1, <1>3, <1>4, <1>5, <1>6, <1>7

LEMMA SameBooksCharge ==
    ASSUME UNCHANGED StockBooks, UNCHANGED jobVars, NEW o, NEW v
    PROVE  Charged(o, v)' <=> Charged(o, v)
BY DEF StockBooks, jobVars, Charged, CarriedBy, UndoneBy, Ord

LEMMA StepKeepsBalance ==
    ASSUME Jobs, Stocked, Endings, Balanced, IsFiniteSet(Orders), MaxCrashes = 0, [Next]_vars
    PROVE  Balanced'
<1> SUFFICES ASSUME NEW v \in Variants
             PROVE  reservedQty'[v] = UnitsFor(ChargedTo(v)', v, placedBy')
  BY DEF Balanced
<1> USE DEF Stays
<1>0. reservedQty[v] = UnitsFor(ChargedTo(v), v, placedBy) /\ reservedQty \in [Variants -> Nat]
  BY DEF Balanced, Stocked, StockType
<1>1. CASE UNCHANGED StockBooks /\ UNCHANGED jobVars
  BY <1>0, <1>1, SameBooksCharge, BalanceStays DEF StockBooks
<1>2. ASSUME NEW w \in Workers, Crash(w) PROVE FALSE
  BY <1>2 DEF Crash, Jobs, Shape, OutsideType
<1>3. ASSUME NEW w \in Workers, Aside(w) PROVE reservedQty'[v] = UnitsFor(ChargedTo(v)', v, placedBy')
  BY <1>0, <1>3, AsideCharges, BalanceStays DEF Aside, StockBooks
<1>4. ASSUME NEW w \in Workers, Create(w) PROVE reservedQty'[v] = UnitsFor(ChargedTo(v)', v, placedBy')
  BY <1>0, <1>4, CreateCharges, CreateIs, BalanceStays
<1>5. ASSUME NEW w \in Workers, OnlyJobOf(w), UndoesRows(w)
      PROVE  reservedQty'[v] = UnitsFor(ChargedTo(v)', v, placedBy')
  BY <1>0, <1>5, UndoRowsCharges, BalanceStays DEF UndoesRows
<1>6. ASSUME NEW w \in Workers, Stays(w), GivesUp(w)
      PROVE  reservedQty'[v] = UnitsFor(ChargedTo(v)', v, placedBy')
  BY <1>0, <1>6, GivesUpCharges, BalanceStays DEF GivesUp, StockBooks
<1>7. ASSUME NEW w \in Workers, Stays(w), WritesRow(w)
      PROVE  reservedQty'[v] = UnitsFor(ChargedTo(v)', v, placedBy')
  BY <1>0, <1>7, WritesRowCharges, BalanceStays DEF WritesRow
<1>8. ASSUME NEW w \in Workers, Stays(w), TakesFromStock(w)
      PROVE  reservedQty'[v] = UnitsFor(ChargedTo(v)', v, placedBy')
  BY <1>0, <1>8, TakesCharges, BalanceStays DEF TakesFromStock
<1>9. ASSUME NEW w \in Workers, Stays(w), NEW u \in Variants, EndsHold(w, u)
      PROVE  reservedQty'[v] = UnitsFor(ChargedTo(v)', v, placedBy')
  BY <1>0, <1>9, EndsHoldCharges, BalanceStays DEF EndsHold
<1>10. ASSUME NEW w \in Workers, Stays(w), NEW u \in Variants, Reserves(w, u)
       PROVE  reservedQty'[v] = UnitsFor(ChargedTo(v)', v, placedBy')
  <2>1. Ord(w) \in Orders /\ placedBy[Ord(w)] \in Sessions /\ placedBy' = placedBy
    BY <1>10, OrderOfJob DEF Reserves, Jobs, Shape, ControlOf, Placed, Ord
  <2>2. CASE v = u
    <3>1. reservedQty'[v] = reservedQty[v] + QtyOf(Ord(w), v)
      BY <1>0, <1>10, <2>2 DEF Reserves
    <3> QED
      BY <1>0, <1>10, <2>1, <2>2, <3>1, ReservesCharges, BalanceGains
  <2>3. CASE v # u
    <3>1. reservedQty'[v] = reservedQty[v]
      BY <1>0, <1>10, <2>3 DEF Reserves
    <3> QED
      BY <1>0, <1>10, <2>1, <2>3, <3>1, ReservesCharges, BalanceStays
  <2> QED
    BY <2>2, <2>3
<1>11. ASSUME NEW w \in Workers, Stays(w), NEW u \in Variants, UndoesUnits(w, u)
       PROVE  reservedQty'[v] = UnitsFor(ChargedTo(v)', v, placedBy')
  <2>1. Ord(w) \in Orders /\ placedBy' = placedBy
    BY <1>11, OrderOfJob DEF UndoesUnits
  <2>2. CASE v = u
    <3>1. UnitsGoBack(v, QtyOf(Ord(w), v))
      BY <1>11, <2>2 DEF UndoesUnits
    <3> QED
      BY <1>0, <1>11, <2>1, <2>2, <3>1, UndoesUnitsCharges, BalanceLoses
  <2>3. CASE v # u
    <3>1. reservedQty'[v] = reservedQty[v]
      BY <1>0, <1>11, <2>3 DEF UndoesUnits, UnitsGoBack
    <3> QED
      BY <1>0, <1>11, <2>1, <2>3, <3>1, UndoesUnitsCharges, BalanceStays
  <2> QED
    BY <2>2, <2>3
<1>12. ASSUME NEW w \in Workers, Stays(w), ReturnsUnits(w)
       PROVE  reservedQty'[v] = UnitsFor(ChargedTo(v)', v, placedBy')
  <2>1. Ord(w) \in Orders /\ placedBy' = placedBy
    BY <1>12, OrderOfJob DEF ReturnsUnits
  <2>2. CASE v = cur[w]
    <3>1. UnitsGoBack(v, QtyOf(Ord(w), v))
      BY <1>12, <2>2 DEF ReturnsUnits
    <3> QED
      BY <1>0, <1>12, <2>1, <2>2, <3>1, ReturnsUnitsCharges, BalanceLoses
  <2>3. CASE v # cur[w]
    <3>1. reservedQty'[v] = reservedQty[v]
      BY <1>0, <1>12, <2>3 DEF ReturnsUnits, UnitsGoBack
    <3> QED
      BY <1>0, <1>12, <2>1, <2>3, <3>1, ReturnsUnitsCharges, BalanceStays
  <2> QED
    BY <2>2, <2>3
<1> HIDE DEF Stays
<1> QED
  BY <1>1, <1>2, <1>3, <1>4, <1>5, <1>6, <1>7, <1>8, <1>9, <1>10, <1>11, <1>12, StockStepsAre

LEMMA BalanceStart == Init => Balanced
<1> SUFFICES ASSUME Init, NEW v \in Variants PROVE reservedQty[v] = UnitsFor(ChargedTo(v), v, placedBy)
  BY DEF Balanced
<1>1. ChargedTo(v) = {}
  BY DEF Init, ChargedTo, Charged, CarriedBy
<1>2. UnitsFor({}, v, placedBy) = 0
  BY SumOfNone DEF UnitsFor
<1> QED
  BY <1>1, <1>2 DEF Init

\* The charges are the live rows, without those undone, and what is in flight.
LEMMA BalanceMeansAccounted ==
    ASSUME Jobs, Endings, Balanced, IsFiniteSet(Orders)
    PROVE  HoldsAccounted
<1> SUFFICES ASSUME NEW v \in Variants
             PROVE  reservedQty[v] = Units(HoldersOf(v), v) + Units(InFlight(v), v) - Units(Undone(v), v)
  BY DEF HoldsAccounted
<1> DEFINE kept == HoldersOf(v) \ Undone(v)
<1>1. InFlight(v) \subseteq Orders /\ Undone(v) \subseteq HoldersOf(v)
  BY OrderOfJob DEF InFlight, Undone, HoldersOf
<1>2. HoldersOf(v) \cap InFlight(v) = {}
  <2>1. ASSUME NEW w \in Workers, pc[w] \in {"row", "giveback"}, cur[w] = v
        PROVE  hold[Ord(w)][v] # "RESERVED"
    BY <2>1 DEF Jobs, ReleaseInvariant, Holding, HoldsOf, Endings, EndingOf
  <2> QED
    BY <2>1 DEF HoldersOf, InFlight
<1>3. ChargedTo(v) = kept \cup InFlight(v)
  BY <1>1 DEF ChargedTo, Charged, CarriedBy, UndoneBy, HoldersOf, InFlight, Undone
<1>4. kept \cup Undone(v) = HoldersOf(v) /\ kept \cap Undone(v) = {} /\ kept \cap InFlight(v) = {}
  BY <1>1, <1>2
<1>5. \A o \in HoldersOf(v) \cup InFlight(v) : placedBy[o] \in Sessions
  <2>1. ASSUME NEW o \in HoldersOf(v) PROVE status[o] # "NONE" /\ o \in Orders
    BY <2>1 DEF HoldersOf, Jobs, ReleaseInvariant, Holding, HeldWhileUndecided
  <2>2. ASSUME NEW o \in InFlight(v) PROVE status[o] # "NONE" /\ o \in Orders
    BY <1>1, <2>2 DEF InFlight, Jobs, Shape, ControlOf, Ord
  <2> QED
    BY <2>1, <2>2 DEF Jobs, Shape, Placed
<1>6. /\ PlacedIn(kept \cup InFlight(v), placedBy) /\ PlacedIn(kept \cup Undone(v), placedBy)
      /\ PlacedIn(kept, placedBy) /\ PlacedIn(InFlight(v), placedBy) /\ PlacedIn(Undone(v), placedBy)
  BY <1>1, <1>5 DEF PlacedIn, HoldersOf
<1> HIDE DEF kept
<1>7. UnitsFor(kept \cup InFlight(v), v, placedBy)
        = UnitsFor(kept, v, placedBy) + UnitsFor(InFlight(v), v, placedBy)
  BY <1>4, <1>6, UnitsOfTwoParts
<1>8. UnitsFor(kept \cup Undone(v), v, placedBy)
        = UnitsFor(kept, v, placedBy) + UnitsFor(Undone(v), v, placedBy)
  BY <1>4, <1>6, UnitsOfTwoParts
<1>9. /\ UnitsFor(kept, v, placedBy) \in Nat /\ UnitsFor(InFlight(v), v, placedBy) \in Nat
      /\ UnitsFor(Undone(v), v, placedBy) \in Nat
  BY <1>6, UnitsType
<1>10. reservedQty[v] = UnitsFor(kept \cup InFlight(v), v, placedBy)
  BY <1>3 DEF Balanced
<1>11. Units(HoldersOf(v), v) = UnitsFor(kept \cup Undone(v), v, placedBy)
  BY <1>4, UnitsAre
<1> QED
  BY <1>7, <1>8, <1>9, <1>10, <1>11, UnitsAre

\* For all carts, stocks, workers and handlers that are not killed in the middle of a job:
\* through every interleaving, reservedQty is exactly the units of the live reservations,
\* none given back twice and none stranded.
THEOREM ReservationsAreAccounted ==
    ASSUME AdminStaysCommitted, IsFiniteSet(Orders), MaxCrashes = 0
    PROVE  Spec => []HoldsAccounted
<1>1. Jobs /\ Stocked /\ Endings /\ Balanced /\ [Next]_vars => Balanced'
  BY StepKeepsBalance
<1>2. Jobs /\ Endings /\ Balanced => HoldsAccounted
  BY BalanceMeansAccounted
<1> QED
  BY <1>1, <1>2, BalanceStart, EndingsInductive, PTL DEF Spec

-------------------------------------------------------------------------------
(* The units that left the stock *)

\* The job has sold the hold and has not taken its units from the stock yet.
SellingBy(x, o, v) ==
    pc[x] \in {"giveback", "deduct"} /\ Commits(task[x].op) /\ cur[x] = v /\ Ord(x) = o

Delivered(o, v) == hold[o][v] = "CONSUMED" /\ \A x \in Workers : ~SellingBy(x, o, v)

DeliveredTo(v) == {o \in Orders : Delivered(o, v)}

\* What left the stock went to orders whose job is through with the sale.
Sold == \A v \in Variants : Opening[v] - stockQty[v] <= UnitsFor(DeliveredTo(v), v, placedBy)

LEMMA DeliveredWasPlaced ==
    ASSUME Jobs, NEW v \in Variants
    PROVE  PlacedIn(DeliveredTo(v), placedBy)
BY DEF PlacedIn, DeliveredTo, Delivered, Jobs, Shape, Placed, ReleaseInvariant, Holding, HeldWhileUndecided

LEMMA OthersSell ==
    ASSUME NEW w \in Workers, OnlyJobOf(w), NEW x \in Workers, x # w, NEW o, NEW v
    PROVE  SellingBy(x, o, v)' <=> SellingBy(x, o, v)
BY DEF OnlyJobOf, SellingBy, Ord, Commits

\* A sold hold stays sold, and a job that stops selling is through with the sale.
LEMMA DeliveredStays ==
    ASSUME NEW w \in Workers, OnlyJobOf(w), NEW o \in Orders, NEW v \in Variants,
           hold[o][v] = "CONSUMED" => hold'[o][v] = "CONSUMED" /\ (SellingBy(w, o, v)' => SellingBy(w, o, v)),
           Delivered(o, v)
    PROVE  Delivered(o, v)'
<1>1. \A x \in Workers : SellingBy(x, o, v)' => SellingBy(x, o, v)
  BY OthersSell DEF Delivered
<1> HIDE DEF SellingBy
<1> QED
  BY <1>1 DEF Delivered

\* The units of u are taken for order c, which they were not delivered to before.
TakesFor(c, u) ==
    /\ stockQty' = [stockQty EXCEPT ![u] = @ - QtyOf(c, u)]
    /\ placedBy' = placedBy
    /\ ~Delivered(c, u) /\ Delivered(c, u)'

LEMMA DeliveredWillBePlaced ==
    ASSUME Jobs', NEW v \in Variants
    PROVE  PlacedIn(DeliveredTo(v)', placedBy')
BY DEF PlacedIn, DeliveredTo, Delivered, Jobs, Shape, Placed, ReleaseInvariant, Holding, HeldWhileUndecided

LEMMA SoldStep ==
    ASSUME Jobs, Stocked, Sold, IsFiniteSet(Orders),
           stockQty' = stockQty \/ \E c \in Orders, u \in Variants : TakesFor(c, u),
           \A o \in Orders, v \in Variants :
              Delivered(o, v) => Delivered(o, v)' /\ placedBy'[o] = placedBy[o],
           Jobs'
    PROVE  Sold'
<1> SUFFICES ASSUME NEW v \in Variants
             PROVE  Opening[v] - stockQty'[v] <= UnitsFor(DeliveredTo(v)', v, placedBy')
  BY DEF Sold
<1> DEFINE before == DeliveredTo(v)
           after  == DeliveredTo(v)'
           more   == after \ before
<1>1. PlacedIn(before, placedBy) /\ PlacedIn(after, placedBy')
  BY DeliveredWasPlaced, DeliveredWillBePlaced
<1>2. before \subseteq after /\ \A o \in before : placedBy'[o] = placedBy[o]
  BY DEF DeliveredTo
<1>3. UnitsFor(before, v, placedBy') = UnitsFor(before, v, placedBy)
  BY <1>1, <1>2, UnitsSame
<1>4. PlacedIn(before, placedBy') /\ PlacedIn(more, placedBy') /\ before \cup more = after
  BY <1>1, <1>2 DEF PlacedIn
<1>5. /\ Opening[v] \in Nat /\ stockQty[v] \in Int
      /\ Opening[v] - stockQty[v] <= UnitsFor(before, v, placedBy)
  BY CheckoutAssumption DEF Stocked, StockType, Sold
<1>6. CASE stockQty'[v] = stockQty[v]
  <2> HIDE DEF before, after, more
  <2>1. UnitsFor(after, v, placedBy') = UnitsFor(before, v, placedBy') + UnitsFor(more, v, placedBy')
    <3>1. before \cap more = {}
      BY DEF more
    <3> QED
      BY <1>1, <1>4, <3>1, UnitsOfTwoParts
  <2>2. UnitsFor(before, v, placedBy') \in Nat /\ UnitsFor(more, v, placedBy') \in Nat
    BY <1>4, UnitsType
  <2>3. Opening[v] - stockQty'[v] <= UnitsFor(after, v, placedBy')
    BY <1>3, <1>5, <1>6, <2>1, <2>2
  <2> QED
    BY <2>3 DEF after
<1>7. CASE stockQty'[v] # stockQty[v]
  <2>0. PICK c \in Orders, u \in Variants : TakesFor(c, u)
    BY <1>7
  <2> DEFINE besides == after \ {c}
  <2>1. v = u /\ stockQty'[v] = stockQty[v] - QtyOf(c, v) /\ placedBy' = placedBy
    BY <1>7, <2>0 DEF TakesFor, Stocked, StockType
  <2>2. ~Delivered(c, v) /\ Delivered(c, v)'
    BY <2>0, <2>1 DEF TakesFor
  <2>3. c \in after /\ c \notin before
    BY <2>2 DEF DeliveredTo
  <2>4. before \subseteq besides /\ c \notin besides /\ besides \cup {c} = after
    BY <1>2, <2>3
  <2>5. placedBy[c] \in Sessions /\ QtyOf(c, v) \in Nat
    BY <1>1, <2>1, <2>3, CheckoutAssumption DEF PlacedIn, QtyOf
  <2> HIDE DEF before, after, besides
  <2>6. UnitsFor(after, v, placedBy) = QtyOf(c, v) + UnitsFor(besides, v, placedBy)
    BY <1>1, <2>1, <2>4, UnitsWith DEF QtyOf
  <2> DEFINE rest == besides \ before
  <2>7. before \cup rest = besides /\ before \cap rest = {} /\ PlacedIn(besides, placedBy)
        /\ PlacedIn(rest, placedBy)
    BY <1>1, <2>1, <2>4 DEF PlacedIn
  <2> HIDE DEF rest
  <2>8. UnitsFor(besides, v, placedBy) = UnitsFor(before, v, placedBy) + UnitsFor(rest, v, placedBy)
    BY <2>7, UnitsOfTwoParts
  <2>9. UnitsFor(before, v, placedBy) \in Nat /\ UnitsFor(rest, v, placedBy) \in Nat
    BY <1>1, <2>7, UnitsType
  <2>10. Opening[v] - stockQty'[v] <= UnitsFor(after, v, placedBy')
    BY <1>5, <2>1, <2>5, <2>6, <2>8, <2>9
  <2> QED
    BY <2>10 DEF after
<1> QED
  BY <1>6, <1>7

\* Every step but the last one of a sale leaves the stock alone, and none takes a
\* delivered hold back.
LEMMA StepDelivers ==
    ASSUME Jobs, Stocked, Endings, [Next]_vars
    PROVE  /\ stockQty' = stockQty \/ \E c \in Orders, u \in Variants : TakesFor(c, u)
           /\ \A o \in Orders, v \in Variants :
                 Delivered(o, v) => Delivered(o, v)' /\ placedBy'[o] = placedBy[o]
<1> USE HoldType DEF Stays
<1> DEFINE Keeps == \A o \in Orders, v \in Variants :
                       Delivered(o, v) => Delivered(o, v)' /\ placedBy'[o] = placedBy[o]
           Takes == stockQty' = stockQty \/ \E c \in Orders, u \in Variants : TakesFor(c, u)
<1>1. CASE UNCHANGED StockBooks /\ UNCHANGED jobVars
  BY <1>1 DEF StockBooks, jobVars, Delivered, SellingBy, Ord, Commits
<1>2. ASSUME NEW w \in Workers, Aside(w) PROVE Keeps /\ Takes
  BY <1>2, DeliveredStays DEF Aside, StockBooks, Handling, SellingBy
<1>3. ASSUME NEW w \in Workers, Crash(w) PROVE Keeps /\ Takes
  <2>1. OnlyJobOf(w) /\ pc'[w] = "idle" /\ UNCHANGED StockBooks
    BY <1>3, FinishKeeps DEF Crash, Jobs, Shape, database, orderVars, stockVars, StockBooks
  <2> QED
    BY <2>1, DeliveredStays DEF SellingBy, StockBooks
<1>4. ASSUME NEW w \in Workers, Create(w) PROVE Keeps /\ Takes
  BY <1>4, CreateIs, DeliveredStays DEF SellingBy, Handling, Delivered
<1>5. ASSUME NEW w \in Workers, OnlyJobOf(w), UndoesRows(w) PROVE Keeps /\ Takes
  <2>1. Ord(w) \in Orders
    BY <1>5, OrderOfJob DEF UndoesRows
  <2>2. \A o \in Orders, v \in Variants : hold[o][v] = "CONSUMED" => hold'[o][v] = "CONSUMED"
    BY <1>5, <2>1 DEF UndoesRows
  <2> QED
    BY <1>5, <2>2, DeliveredStays DEF UndoesRows, SellingBy
<1>6. ASSUME NEW w \in Workers, Stays(w), GivesUp(w) PROVE Keeps /\ Takes
  BY <1>6, DeliveredStays DEF GivesUp, StockBooks, SellingBy
<1>7. ASSUME NEW w \in Workers, Stays(w), WritesRow(w) PROVE Keeps /\ Takes
  <2>1. Ord(w) \in Orders /\ cur[w] \in Variants /\ hold[Ord(w)][cur[w]] = "NONE"
    BY <1>7, OrderOfJob DEF WritesRow, Jobs, Shape, ControlOf, ReleaseInvariant, Holding, HoldsOf
  <2>2. \A o \in Orders, v \in Variants : hold[o][v] = "CONSUMED" => hold'[o][v] = "CONSUMED"
    BY <1>7, <2>1 DEF WritesRow
  <2> QED
    BY <1>7, <2>2, DeliveredStays DEF WritesRow, SellingBy
<1>8. ASSUME NEW w \in Workers, Stays(w), ReturnsUnits(w) PROVE Keeps /\ Takes
  <2>1. ASSUME NEW o, NEW v PROVE SellingBy(w, o, v)' => SellingBy(w, o, v)
    BY <1>8 DEF ReturnsUnits, SellingBy, Ord, Commits
  <2> QED
    BY <1>8, <2>1, DeliveredStays DEF ReturnsUnits
<1>9. ASSUME NEW w \in Workers, Stays(w), TakesFromStock(w) PROVE Keeps /\ Takes
  <2>1. ~SellingBy(w, Ord(w), cur[w])' /\ \A o, v : ~SellingBy(w, o, v)'
    BY <1>9 DEF TakesFromStock, SellingBy
  <2>2. Keeps
    BY <1>9, <2>1, DeliveredStays DEF TakesFromStock
  <2>3. PICK c, u : c = Ord(w) /\ u = cur[w]
    OBVIOUS
  <2>4. /\ c \in Orders /\ u \in Variants /\ Commits(task[w].op) /\ pc[w] = "deduct"
        /\ hold[c][u] = "CONSUMED"
    BY <1>9, <2>3, OrderOfJob DEF TakesFromStock, Jobs, Shape, ControlOf, OpAt, Commits, Endings, EndingOf
  <2>5. ~Delivered(c, u)
    BY <2>3, <2>4 DEF Delivered, SellingBy
  <2>6. Delivered(c, u)'
    <3>1. \A x \in Workers : x # w => ~SellingBy(x, c, u)
      BY <2>3, <2>4 DEF Endings, OneEnder, SellingBy
    <3>2. \A x \in Workers : ~SellingBy(x, c, u)'
      BY <1>9, <2>1, <3>1, OthersSell
    <3> QED
      BY <1>9, <2>4, <3>2 DEF TakesFromStock, Delivered
  <2> QED
    BY <1>9, <2>2, <2>3, <2>4, <2>5, <2>6 DEF TakesFor, TakesFromStock
<1>10. ASSUME NEW w \in Workers, Stays(w), NEW u \in Variants, Reserves(w, u) PROVE Keeps /\ Takes
  BY <1>10, DeliveredStays DEF Reserves, SellingBy
<1>11. ASSUME NEW w \in Workers, Stays(w), NEW u \in Variants, UndoesUnits(w, u) PROVE Keeps /\ Takes
  BY <1>11, DeliveredStays DEF UndoesUnits, SellingBy
<1>12. ASSUME NEW w \in Workers, Stays(w), NEW u \in Variants, EndsHold(w, u) PROVE Keeps /\ Takes
  <2>1. Ord(w) \in Orders /\ hold[Ord(w)][u] = "RESERVED" /\ Ord(w)' = Ord(w)
    BY <1>12, OrderOfJob DEF EndsHold, Ord
  <2>2. \A o \in Orders, v \in Variants :
           hold[o][v] = "CONSUMED" => hold'[o][v] = "CONSUMED" /\ (o # Ord(w) \/ v # u)
    BY <1>12, <2>1 DEF EndsHold
  <2>3. ASSUME NEW o, NEW v, o # Ord(w) \/ v # u PROVE ~SellingBy(w, o, v)'
    BY <1>12, <2>1, <2>3 DEF EndsHold, SellingBy
  <2> QED
    BY <1>12, <2>2, <2>3, DeliveredStays DEF EndsHold
<1> HIDE DEF Stays, Keeps, Takes
<1>13. Keeps /\ Takes
  BY <1>1, <1>2, <1>3, <1>4, <1>5, <1>6, <1>7, <1>8, <1>9, <1>10, <1>11, <1>12, StockStepsAre DEF Keeps, Takes
<1> QED
  BY <1>13 DEF Keeps, Takes

LEMMA SoldStart == Init => Sold
<1> SUFFICES ASSUME Init, NEW v \in Variants
             PROVE  Opening[v] - stockQty[v] <= UnitsFor(DeliveredTo(v), v, placedBy)
  BY DEF Sold
<1>1. DeliveredTo(v) = {}
  BY DEF Init, DeliveredTo, Delivered
<1>2. UnitsFor({}, v, placedBy) = 0
  BY SumOfNone DEF UnitsFor
<1> QED
  BY <1>1, <1>2, CheckoutAssumption DEF Init

\* For all carts, stocks, workers and handlers, and wherever they are killed: the stock
\* that left is covered by consumed reservations, so no reservation is sold twice.
THEOREM NothingSoldTwice ==
    ASSUME AdminStaysCommitted, IsFiniteSet(Orders)
    PROVE  Spec => []SoldAtMostOnce
<1>1. Jobs /\ Stocked /\ Endings /\ Sold /\ [Next]_vars /\ Jobs' => Sold'
  BY StepDelivers, SoldStep
<1>2. Jobs /\ Stocked /\ Sold => SoldAtMostOnce
  <2> SUFFICES ASSUME Jobs, Stocked, Sold, NEW v \in Variants
               PROVE  Opening[v] - stockQty[v] <= Units(BuyersOf(v), v)
    BY DEF SoldAtMostOnce
  <2> DEFINE through == DeliveredTo(v)
             rest == BuyersOf(v) \ through
  <2>1. through \subseteq BuyersOf(v) /\ through \cup rest = BuyersOf(v) /\ through \cap rest = {}
    BY DEF DeliveredTo, Delivered, BuyersOf
  <2>2. PlacedIn(BuyersOf(v), placedBy)
    BY DEF PlacedIn, BuyersOf, Jobs, Shape, Placed, ReleaseInvariant, Holding, HeldWhileUndecided
  <2>3. PlacedIn(through, placedBy) /\ PlacedIn(rest, placedBy)
    BY <2>1, <2>2 DEF PlacedIn
  <2>4. Opening[v] - stockQty[v] <= UnitsFor(through, v, placedBy)
    BY DEF Sold
  <2> HIDE DEF through, rest
  <2>5. UnitsFor(BuyersOf(v), v, placedBy) = UnitsFor(through, v, placedBy) + UnitsFor(rest, v, placedBy)
    BY <2>1, <2>2, UnitsOfTwoParts
  <2>6. /\ UnitsFor(through, v, placedBy) \in Nat /\ UnitsFor(rest, v, placedBy) \in Nat
        /\ Opening[v] \in Nat /\ stockQty[v] \in Int
    BY <2>3, UnitsType, CheckoutAssumption DEF Stocked, StockType
  <2> QED
    BY <2>4, <2>5, <2>6, UnitsAre
<1> QED
  BY <1>1, <1>2, SoldStart, EndingsInductive, PTL DEF Spec

-------------------------------------------------------------------------------
(* The coupon *)

BeforeCoupon == {"create", "reserve", "row", "coupon"}

\* A step that leaves the coupon alone, and is before it only if it was before.
CouponAside(w) ==
    /\ OnlyJobOf(w) /\ UNCHANGED couponVars
    /\ pc'[w] \in BeforeCoupon \ {"create"} => pc[w] \in BeforeCoupon /\ task'[w] = task[w]

LEMMA PlacementCouponAside ==
    ASSUME Shape, NEW w \in Workers, PlacementStep(w), ~ReserveCoupon(w)
    PROVE  CouponAside(w)
<1> USE DEF At, Goto, CouponAside, OnlyJobOf, BeforeCoupon, database, Shape, JobType
<1>1. CASE Create(w)
  BY <1>1 DEF Create
<1>2. CASE ReserveItem(w)
  BY <1>2 DEF ReserveItem
<1>3. CASE WriteReservation(w)
  BY <1>3 DEF WriteReservation
<1>4. CASE UndoReserve(w)
  BY <1>4 DEF UndoReserve
<1>5. CASE UndoRows(w)
  BY <1>5, FinishKeeps DEF UndoRows
<1>6. CASE AttachSession(w)
  BY <1>6 DEF AttachSession
<1>7. CASE ProviderAccepts(w)
  BY <1>7 DEF ProviderAccepts
<1>8. CASE ProviderRefuses(w)
  BY <1>8 DEF ProviderRefuses
<1>9. CASE WritePayment(w)
  BY <1>9, FinishKeeps DEF WritePayment
<1>10. CASE WriteCodPayment(w)
  BY <1>10 DEF WriteCodPayment
<1> QED
  BY <1>1, <1>2, <1>3, <1>4, <1>5, <1>6, <1>7, <1>8, <1>9, <1>10 DEF PlacementStep

LEMMA SettlementCouponAside ==
    ASSUME Shape, NEW w \in Workers, SettlementStep(w), ~WriteRedemption(w)
    PROVE  CouponAside(w)
<1> USE DEF At, Goto, CouponAside, OnlyJobOf, BeforeCoupon, database, Shape, JobType
<1>1. CASE ListHolds(w)
  BY <1>1 DEF ListHolds
<1>2. CASE SettleHold(w)
  BY <1>2 DEF SettleHold, NextHold
<1>3. CASE GiveBack(w)
  BY <1>3 DEF GiveBack, NextHold
<1>4. CASE Deduct(w)
  BY <1>4 DEF Deduct, NextHold
<1>5. CASE ReadRedemption(w)
  BY <1>5 DEF ReadRedemption, AfterCoupon
<1>6. CASE ConvertCart(w)
  BY <1>6 DEF ConvertCart
<1>7. CASE MarkPayment(w)
  BY <1>7 DEF MarkPayment
<1>8. CASE Reload(w)
  BY <1>8 DEF Reload
<1>9. CASE Move(w)
  BY <1>9, FinishKeeps DEF Move, AfterMove
<1>10. CASE MoveAlreadyMade(w)
  BY <1>10, FinishKeeps DEF MoveAlreadyMade, AfterMove
<1>11. CASE MoveRefused(w)
  BY <1>11, FinishKeeps DEF MoveRefused
<1> QED
  BY <1>1, <1>2, <1>3, <1>4, <1>5, <1>6, <1>7, <1>8, <1>9, <1>10, <1>11 DEF SettlementStep

LEMMA PaymentCouponAside ==
    ASSUME Shape, NEW w \in Workers, PaymentStep(w)
    PROVE  CouponAside(w)
<1> USE DEF At, Goto, CouponAside, OnlyJobOf, BeforeCoupon, database, Shape, JobType
<1>1. CASE WriteAuthorized(w)
  BY <1>1, FinishKeeps DEF WriteAuthorized
<1>2. CASE WriteFailed(w)
  BY <1>2 DEF WriteFailed
<1>3. CASE Capture(w)
  BY <1>3, FinishKeeps DEF Capture
<1>4. CASE RecordPaid(w)
  BY <1>4 DEF RecordPaid
<1>5. CASE LookUpPayment(w)
  BY <1>5 DEF LookUpPayment
<1>6. CASE AskProvider(w)
  BY <1>6, FinishKeeps DEF AskProvider
<1>7. CASE RequestRefund(w)
  BY <1>7, FinishKeeps DEF RequestRefund
<1> QED
  BY <1>1, <1>2, <1>3, <1>4, <1>5, <1>6, <1>7 DEF PaymentStep

LEMMA StartCouponAside ==
    ASSUME Shape, NEW w \in Workers, Start(w) \/ Crash(w)
    PROVE  CouponAside(w)
<1> USE DEF Begin, Goto, Job, CouponAside, OnlyJobOf, BeforeCoupon, database, Shape, JobType
<1>1. ASSUME NEW s \in Sessions, NEW o \in Orders, NEW op \in {"place", "placeCod"},
             StartPlace(w, s, o, op)
      PROVE  CouponAside(w)
  BY <1>1 DEF StartPlace
<1>2. ASSUME \/ \E s \in Sessions : Abandon(w, s)
             \/ \E o \in Orders :
                   \/ StartVerify(w, o) \/ DeliverCaptured(w, o) \/ DeliverAuthorized(w, o)
                   \/ DeliverFailed(w, o) \/ Expire(w, o) \/ Reconcile(w, o)
      PROVE  CouponAside(w)
  BY <1>2 DEF Abandon, StartVerify, DeliverCaptured, DeliverAuthorized, DeliverFailed, Expire, Reconcile
<1>3. ASSUME \E o \in Orders : Cancel(w, o) \/ \E to \in AdminTargets : AdminSetStatus(w, o, to)
      PROVE  CouponAside(w)
  BY <1>3 DEF Cancel, AdminSetStatus
<1>4. CASE Crash(w)
  BY <1>4, FinishKeeps DEF Crash
<1> QED
  BY <1>1, <1>2, <1>3, <1>4 DEF Start

\* Every step, seen from the coupon.
LEMMA CouponSteps ==
    ASSUME Shape, [Next]_vars
    PROVE  \/ UNCHANGED couponVars /\ UNCHANGED jobVars
           \/ \E w \in Workers : CouponAside(w) \/ ReserveCoupon(w) \/ WriteRedemption(w)
<1>1. ASSUME NEW o \in Orders,
             Lapse(o) \/ \E event \in {"failed", "authorized", "captured"} : ProviderEvent(o, event)
      PROVE  UNCHANGED couponVars /\ UNCHANGED jobVars
  BY <1>1 DEF Lapse, ProviderEvent, database
<1>2. UNCHANGED vars => UNCHANGED couponVars /\ UNCHANGED jobVars
  BY DEF vars, database
<1> QED
  BY <1>1, <1>2, PlacementCouponAside, SettlementCouponAside, PaymentCouponAside, StartCouponAside
     DEF Next, JobStep

\* A redemption belongs to an order that exists and got to its coupon.
RedemptionsExist == \A o \in Orders : redemption[o] # "NONE" => status[o] # "NONE"
Redemptions ==
    /\ RedemptionsExist
    /\ \A w \in Workers : pc[w] \in BeforeCoupon => redemption[Ord(w)] = "NONE"

\* What the two steps that write a redemption do.
LEMMA ReserveCouponIs ==
    ASSUME Jobs, Redemptions, NEW w \in Workers, ReserveCoupon(w)
    PROVE  /\ OnlyJobOf(w) /\ pc[w] = "coupon" /\ pc'[w] \in {"attach", "undo", "unrow"} /\ task' = task
           /\ Ord(w) \in Orders /\ redemption[Ord(w)] = "NONE" /\ status[Ord(w)] # "NONE"
           /\ \/ UNCHANGED couponVars
              \/ /\ usedCount < CouponLimit /\ usedCount' = usedCount + 1
                 /\ redemption' = [redemption EXCEPT ![Ord(w)] = "RESERVED"]
<1>1. pc[w] = "coupon" /\ Ord(w) \in Orders /\ redemption[Ord(w)] = "NONE" /\ status[Ord(w)] # "NONE"
  BY OrderOfJob DEF ReserveCoupon, At, Redemptions, BeforeCoupon, Jobs, Shape, ControlOf, Ord
<1>2. OnlyJobOf(w) /\ pc'[w] \in {"attach", "undo", "unrow"} /\ task' = task
  BY DEF ReserveCoupon, At, Goto, OnlyJobOf, Jobs, Shape, JobType
<1>3. \/ UNCHANGED couponVars
      \/ /\ usedCount < CouponLimit /\ usedCount' = usedCount + 1
         /\ redemption' = [redemption EXCEPT ![Ord(w)] = "RESERVED"]
  BY DEF ReserveCoupon, CouponHasRoom, couponVars
<1> QED
  BY <1>1, <1>2, <1>3

LEMMA WriteRedemptionIs ==
    ASSUME Jobs, NEW w \in Workers, WriteRedemption(w)
    PROVE  /\ OnlyJobOf(w) /\ pc[w] = "redeemed" /\ pc'[w] \in {"cart", "move", "mark"} /\ task' = task
           /\ Ord(w) \in Orders /\ status[Ord(w)] # "NONE"
           /\ IF Commits(task[w].op)
              THEN /\ redemption' = [redemption EXCEPT ![Ord(w)] = "CONFIRMED"]
                   /\ usedCount' = usedCount
              ELSE /\ redemption' = [redemption EXCEPT ![Ord(w)] = "RELEASED"]
                   /\ usedCount' = SlotReturned(usedCount)
<1>1. pc[w] = "redeemed" /\ Ord(w) \in Orders /\ status[Ord(w)] # "NONE"
  BY OrderOfJob DEF WriteRedemption, At, Jobs, Shape, ControlOf, Ord
<1>2. OnlyJobOf(w) /\ pc'[w] \in {"cart", "move", "mark"} /\ task' = task
  BY DEF WriteRedemption, At, Goto, AfterCoupon, OnlyJobOf, Jobs, Shape, JobType
<1> QED
  BY <1>1, <1>2 DEF WriteRedemption

\* Nobody who places an order meets somebody who settles its coupon.
LEMMA CouponIsPrivate ==
    ASSUME Jobs, NEW w \in Workers, pc[w] \in {"coupon", "redeemed"},
           NEW x \in Workers, x # w, pc[x] \in BeforeCoupon
    PROVE  Ord(x) # Ord(w)
<1>1. task[x].op \in PlacingOps /\ task[w].op # "admin" /\ pc[w] # "idle"
  BY DEF Jobs, Shape, ControlOf, OpAt, BeforeCoupon, PlacingOps, HoldOps
<1> QED
  BY <1>1, PlacementIsPrivate DEF Jobs, BeforeCoupon

\* No order ceases to exist.
Remain == \A o \in Orders : status[o] # "NONE" => status'[o] # "NONE"

LEMMA RedemptionsStep ==
    ASSUME Jobs, Redemptions, Jobs', Remain, [Next]_vars
    PROVE  Redemptions'
<1>1. CASE UNCHANGED couponVars /\ UNCHANGED jobVars
  BY <1>1 DEF couponVars, jobVars, Redemptions, RedemptionsExist, Remain, Ord
<1>2. ASSUME NEW w \in Workers, OnlyJobOf(w), RedemptionsExist',
             pc'[w] \in BeforeCoupon \ {"create"} => redemption'[task'[w].order] = "NONE",
             \A x \in Workers : x # w /\ pc[x] \in BeforeCoupon => redemption'[Ord(x)] = redemption[Ord(x)]
      PROVE  Redemptions'
  <2>1. ASSUME NEW x \in Workers, pc'[x] \in BeforeCoupon PROVE redemption'[task'[x].order] = "NONE"
    <3>1. CASE x # w
      BY <1>2, <2>1, <3>1 DEF OnlyJobOf, Redemptions, Ord
    <3>2. CASE pc'[x] = "create"
      <4>1. status'[task'[x].order] = "NONE" /\ task'[x].order \in Orders
        BY <3>2 DEF Jobs, Creating, Shape, ControlOf, OpAt, TaskOK, PlacingOps, Ord
      <4> QED
        BY <1>2, <4>1 DEF RedemptionsExist
    <3> QED
      BY <1>2, <2>1, <3>1, <3>2
  <2> QED
    BY <1>2, <2>1 DEF Redemptions, Ord
<1>3. ASSUME NEW w \in Workers, CouponAside(w) PROVE Redemptions'
  <2>1. RedemptionsExist'
    BY <1>3 DEF CouponAside, couponVars, Redemptions, RedemptionsExist, Remain
  <2> QED
    BY <1>2, <1>3, <2>1 DEF CouponAside, couponVars, Redemptions, Ord
<1>4. ASSUME NEW w \in Workers, ReserveCoupon(w) \/ WriteRedemption(w) PROVE Redemptions'
  <2>1. /\ OnlyJobOf(w) /\ pc'[w] \notin BeforeCoupon /\ pc[w] \in {"coupon", "redeemed"}
        /\ Ord(w) \in Orders /\ status[Ord(w)] # "NONE"
        /\ \A o \in Orders : o # Ord(w) => redemption'[o] = redemption[o]
    <3>1. redemption \in [Orders -> RedemptionStatuses]
      BY DEF Jobs, Shape, RecordType
    <3>2. CASE ReserveCoupon(w)
      <4>1. \A o \in Orders : o # Ord(w) => redemption'[o] = redemption[o]
        BY <3>1, <3>2, ReserveCouponIs DEF couponVars
      <4> QED
        BY <3>2, <4>1, ReserveCouponIs DEF BeforeCoupon
    <3>3. CASE WriteRedemption(w)
      <4>1. \A o \in Orders : o # Ord(w) => redemption'[o] = redemption[o]
        BY <3>1, <3>3, WriteRedemptionIs
      <4> QED
        BY <3>3, <4>1, WriteRedemptionIs DEF BeforeCoupon
    <3> QED
      BY <1>4, <3>2, <3>3
  <2>2. RedemptionsExist'
    BY <2>1 DEF Redemptions, RedemptionsExist, Remain
  <2>3. \A x \in Workers : x # w /\ pc[x] \in BeforeCoupon => Ord(x) # Ord(w) /\ Ord(x) \in Orders
    BY <2>1, CouponIsPrivate, OrderOfJob DEF BeforeCoupon
  <2> QED
    BY <1>2, <2>1, <2>2, <2>3
<1> QED
  BY <1>1, <1>3, <1>4, CouponSteps DEF Jobs

\* A set with an element more or less.
LEMMA LiveGains ==
    ASSUME IsFiniteSet(Orders), redemption \in [Orders -> RedemptionStatuses], NEW o \in Orders,
           NEW st \in {"RESERVED", "CONFIRMED"}, redemption' = [redemption EXCEPT ![o] = st]
    PROVE  /\ Cardinality(LiveRedemptions) \in Nat
           /\ Cardinality(LiveRedemptions)' =
                 IF o \in LiveRedemptions THEN Cardinality(LiveRedemptions)
                 ELSE Cardinality(LiveRedemptions) + 1
<1>1. LiveRedemptions' = LiveRedemptions \cup {o}
  BY DEF LiveRedemptions
<1>2. IsFiniteSet(LiveRedemptions)
  BY FS_Subset DEF LiveRedemptions
<1> QED
  BY <1>1, <1>2, FS_AddElement, FS_CardinalityType

LEMMA LiveLoses ==
    ASSUME IsFiniteSet(Orders), redemption \in [Orders -> RedemptionStatuses], NEW o \in Orders,
           redemption' = [redemption EXCEPT ![o] = "RELEASED"]
    PROVE  /\ Cardinality(LiveRedemptions) \in Nat
           /\ Cardinality(LiveRedemptions)' =
                 IF o \in LiveRedemptions THEN Cardinality(LiveRedemptions) - 1
                 ELSE Cardinality(LiveRedemptions)
<1>1. LiveRedemptions' = LiveRedemptions \ {o}
  BY DEF LiveRedemptions
<1>2. IsFiniteSet(LiveRedemptions)
  BY FS_Subset DEF LiveRedemptions
<1> QED
  BY <1>1, <1>2, FS_RemoveElement, FS_CardinalityType

LEMMA SlotStep ==
    ASSUME Jobs, Redemptions, IsFiniteSet(Orders), NoSlotLost, [Next]_vars
    PROVE  NoSlotLost'
<1>0. redemption \in [Orders -> RedemptionStatuses] /\ usedCount \in Nat
  BY DEF Jobs, Shape, RecordType
<1>1. CASE UNCHANGED couponVars
  BY <1>1 DEF couponVars, NoSlotLost, LiveRedemptions
<1>2. ASSUME NEW w \in Workers, ReserveCoupon(w), ~UNCHANGED couponVars PROVE NoSlotLost'
  <2>1. /\ Ord(w) \in Orders /\ Ord(w) \notin LiveRedemptions /\ usedCount' = usedCount + 1
        /\ redemption' = [redemption EXCEPT ![Ord(w)] = "RESERVED"]
    BY <1>2, ReserveCouponIs DEF LiveRedemptions
  <2>2. /\ Cardinality(LiveRedemptions) \in Nat
        /\ Cardinality(LiveRedemptions)' = Cardinality(LiveRedemptions) + 1
    BY <1>0, <2>1, LiveGains
  <2> QED
    BY <1>0, <2>1, <2>2 DEF NoSlotLost
<1>3. ASSUME NEW w \in Workers, WriteRedemption(w) PROVE NoSlotLost'
  <2>1. CASE Commits(task[w].op)
    <3>1. /\ Ord(w) \in Orders /\ usedCount' = usedCount
          /\ redemption' = [redemption EXCEPT ![Ord(w)] = "CONFIRMED"]
      BY <1>3, <2>1, WriteRedemptionIs
    <3>2. /\ Cardinality(LiveRedemptions) \in Nat
          /\ \/ Cardinality(LiveRedemptions)' = Cardinality(LiveRedemptions)
             \/ Cardinality(LiveRedemptions)' = Cardinality(LiveRedemptions) + 1
      BY <1>0, <3>1, LiveGains
    <3> QED
      BY <1>0, <3>1, <3>2 DEF NoSlotLost
  <2>2. CASE ~Commits(task[w].op)
    <3>1. /\ Ord(w) \in Orders /\ usedCount' = SlotReturned(usedCount)
          /\ redemption' = [redemption EXCEPT ![Ord(w)] = "RELEASED"]
      BY <1>3, <2>2, WriteRedemptionIs
    <3>2. /\ Cardinality(LiveRedemptions) \in Nat
          /\ \/ Cardinality(LiveRedemptions)' = Cardinality(LiveRedemptions)
             \/ Ord(w) \in LiveRedemptions
                /\ Cardinality(LiveRedemptions)' = Cardinality(LiveRedemptions) - 1
      BY <1>0, <3>1, LiveLoses
    <3>3. Cardinality(LiveRedemptions)' \in Nat
      BY <3>1, FS_Subset, FS_CardinalityType DEF LiveRedemptions
    <3> QED
      BY <1>0, <3>1, <3>2, <3>3 DEF NoSlotLost, SlotReturned
  <2> QED
    BY <2>1, <2>2
<1> QED
  BY <1>1, <1>2, <1>3, CouponSteps DEF CouponAside, Jobs

LEMMA NothingVanishes == Spec => [][Remain]_vars
<1>1. ASSUME NEW from \in OrderStatuses PROVE "NONE" \notin OrderTransitions[from]
  BY DEF OrderStatuses, OrderTransitions
<1>2. Shape /\ [\A o \in Orders : status'[o] # status[o] =>
                   \/ status[o] = "NONE" /\ status'[o] = "DRAFT"
                   \/ status[o] # "NONE" /\ CanTransition(status[o], status'[o])]_vars
      => [Remain]_vars
  <2> SUFFICES ASSUME Shape,
                      \A o \in Orders : status'[o] # status[o] =>
                         \/ status[o] = "NONE" /\ status'[o] = "DRAFT"
                         \/ status[o] # "NONE" /\ CanTransition(status[o], status'[o])
               PROVE  Remain
    OBVIOUS
  <2>1. \A o \in Orders : status[o] \in OrderStatuses \cup {"NONE"}
    BY DEF Shape, RecordType
  <2> QED
    BY <1>1, <2>1 DEF Remain, CanTransition
<1> QED
  BY <1>2, MovesAreLegal, ShapeInvariant, PTL DEF LegalMoves

\* For all carts, workers and handlers, and wherever they are killed: no use of the
\* coupon is lost, however confirmations and releases of a redemption race.
THEOREM NoUseIsLost ==
    ASSUME AdminStaysCommitted, IsFiniteSet(Orders)
    PROVE  Spec => []NoSlotLost
<1>1. Init => Redemptions /\ NoSlotLost
  <2>1. Init => LiveRedemptions = {} /\ usedCount = 0
    BY DEF Init, LiveRedemptions
  <2>2. Init => NoSlotLost
    BY <2>1, FS_EmptySet DEF NoSlotLost
  <2>3. Init => Redemptions
    BY DEF Init, Redemptions, RedemptionsExist, BeforeCoupon
  <2> QED
    BY <2>2, <2>3
<1>2. Jobs /\ Jobs' /\ Redemptions /\ NoSlotLost /\ [Next]_vars /\ [Remain]_vars
        => Redemptions' /\ NoSlotLost'
  <2>1. UNCHANGED vars => Remain
    BY DEF vars, database, orderVars, Remain
  <2> QED
    BY <2>1, RedemptionsStep, SlotStep
<1> QED
  BY <1>1, <1>2, NothingVanishes, EndingsInductive, PTL DEF Spec

-------------------------------------------------------------------------------
(* The coupon's counter while nothing but a refused placement releases *)

OnlyPlacesAndConfirms == Handlers \cap {"fail", "expire", "reconcile", "cancel"} = {}

\* No handler but a placement releases, and it does so before its payment is written.
FirstOps == PlacingOps \cup {"cod", "fail"}

Releasing(w) ==
    /\ task[w].op \notin {"expire", "reconcile", "cancel"} /\ pc[w] # "payfail"
    /\ task[w].op \in PlacingOps \cup {"fail"} => payment[Ord(w)] = "NONE"
    /\ task[w].op \in {"confirm", "authorize"} => payment[Ord(w)] # "NONE"
    /\ pc[w] = "redeemed" =>
          /\ redemption[Ord(w)] \in {"RESERVED", "CONFIRMED"}
          /\ ~Commits(task[w].op) => redemption[Ord(w)] = "RESERVED"

OneFirst ==
    \A w, x \in Workers :
       task[w].op \in FirstOps /\ task[x].op \in FirstOps /\ Ord(w) = Ord(x) => w = x

Releases == (\A w \in Workers : Releasing(w)) /\ OneFirst

\* What becomes of the job of w, and of the payment of its order.
EndsOrMoves(w) == task'[w].op \in {"idle", "admin"}
GoesOnWith(w) ==
    /\ pc[w] # "idle" /\ task'[w].order = task[w].order
    /\ \/ task'[w].op = task[w].op
       \/ task[w].op = "place" /\ task'[w].op = "fail"
       \/ task[w].op = "placeCod" /\ task'[w].op = "cod"
HearsOfPayment(w) ==
    /\ task'[w].op \in {"confirm", "authorize"} /\ task'[w].order \in Orders
    /\ payment[task'[w].order] # "NONE"
StartsPlacing(w) ==
    /\ task'[w].op \in PlacingOps /\ task'[w].order \in Orders
    /\ status[task'[w].order] = "NONE"
    /\ \A x \in Workers : task[x].order # task'[w].order
PaymentOf(w) ==
    \/ payment' = payment
    \/ /\ pc[w] # "idle"
       /\ \E st \in {"PENDING", "AUTHORIZED", "CAPTURED", "FAILED"} :
             payment' = [payment EXCEPT ![Ord(w)] = st]
       /\ \/ task[w].op \in {"cod", "confirm", "authorize"}
          \/ task[w].op = "place" /\ task'[w].op = "idle"

Turn(w) ==
    /\ OnlyJobOf(w)
    /\ PaymentOf(w)
    /\ \/ EndsOrMoves(w)
       \/ GoesOnWith(w)
       \/ (HearsOfPayment(w) \/ StartsPlacing(w)) /\ payment' = payment
    /\ pc'[w] # "payfail"
    /\ pc'[w] = "redeemed" =>
          /\ task'[w] = task[w] /\ pc[w] = "redeem"
          /\ redemption[Ord(w)] = "RESERVED" /\ UNCHANGED couponVars

LEMMA PlacementTurn ==
    ASSUME Shape, NEW w \in Workers, PlacementStep(w)
    PROVE  Turn(w)
<1> USE DEF At, Goto, Turn, EndsOrMoves, GoesOnWith, PaymentOf, OnlyJobOf, database, paymentVars, Shape,
        JobType, Ord
<1>0. OpAt(pc[w], task[w].op)
  BY DEF ControlOf
<1>1. CASE Create(w)
  BY <1>1 DEF Create
<1>2. CASE ReserveItem(w)
  BY <1>2 DEF ReserveItem
<1>3. CASE WriteReservation(w)
  BY <1>3 DEF WriteReservation
<1>4. CASE ReserveCoupon(w)
  BY <1>4 DEF ReserveCoupon
<1>5. CASE UndoReserve(w)
  BY <1>5 DEF UndoReserve
<1>6. CASE UndoRows(w)
  BY <1>6, FinishKeeps DEF UndoRows, NoTask
<1>7. CASE AttachSession(w)
  BY <1>7 DEF AttachSession
<1>8. CASE ProviderAccepts(w)
  BY <1>8 DEF ProviderAccepts
<1>9. CASE ProviderRefuses(w)
  BY <1>0, <1>9 DEF ProviderRefuses, OpAt, Job
<1>10. CASE WritePayment(w)
  BY <1>0, <1>10, FinishKeeps DEF WritePayment, OpAt, NoTask
<1>11. CASE WriteCodPayment(w)
  BY <1>0, <1>11 DEF WriteCodPayment, OpAt
<1> QED
  BY <1>1, <1>2, <1>3, <1>4, <1>5, <1>6, <1>7, <1>8, <1>9, <1>10, <1>11 DEF PlacementStep

LEMMA SettlementTurn ==
    ASSUME Shape, NEW w \in Workers, SettlementStep(w)
    PROVE  Turn(w)
<1> USE DEF At, Goto, Turn, EndsOrMoves, GoesOnWith, PaymentOf, OnlyJobOf, database, paymentVars, Shape,
        JobType, Ord
<1>1. CASE ListHolds(w)
  BY <1>1 DEF ListHolds
<1>2. CASE SettleHold(w)
  BY <1>2 DEF SettleHold, NextHold
<1>3. CASE GiveBack(w)
  BY <1>3 DEF GiveBack, NextHold
<1>4. CASE Deduct(w)
  BY <1>4 DEF Deduct, NextHold
<1>5. CASE ReadRedemption(w)
  BY <1>5 DEF ReadRedemption, AfterCoupon
<1>6. CASE WriteRedemption(w)
  BY <1>6 DEF WriteRedemption, AfterCoupon
<1>7. CASE ConvertCart(w)
  BY <1>7 DEF ConvertCart
<1>8. CASE MarkPayment(w)
  BY <1>8 DEF MarkPayment
<1>9. CASE Reload(w)
  BY <1>9 DEF Reload
<1>10. ASSUME pc[w] = "move", AfterMove(w) PROVE Turn(w) \/ payment' # payment
  <2>1. CASE task[w].op = "placeCod"
    BY <1>10, <2>1 DEF AfterMove, Job
  <2>2. CASE task[w].op \in {"place", "cancel"}
    BY <1>10, <2>2 DEF AfterMove
  <2>3. CASE task[w].op \notin {"place", "placeCod", "cancel"}
    BY <1>10, <2>3, FinishKeeps DEF AfterMove, NoTask
  <2> QED
    BY <2>1, <2>2, <2>3
<1>11. CASE Move(w)
  <2>1. pc[w] = "move" /\ AfterMove(w) /\ payment' = payment
    BY <1>11 DEF Move
  <2> QED
    BY <1>10, <2>1
<1>12. CASE MoveAlreadyMade(w)
  <2>1. pc[w] = "move" /\ AfterMove(w) /\ payment' = payment
    BY <1>12 DEF MoveAlreadyMade
  <2> QED
    BY <1>10, <2>1
<1>13. CASE MoveRefused(w)
  BY <1>13, FinishKeeps DEF MoveRefused, NoTask
<1> QED
  BY <1>1, <1>2, <1>3, <1>4, <1>5, <1>6, <1>7, <1>8, <1>9, <1>11, <1>12, <1>13 DEF SettlementStep

LEMMA PaymentTurn ==
    ASSUME Shape, NEW w \in Workers, Releasing(w), PaymentStep(w)
    PROVE  Turn(w)
<1> USE DEF At, Goto, Turn, EndsOrMoves, GoesOnWith, PaymentOf, OnlyJobOf, database, paymentVars, Shape,
        JobType, Ord
<1>0. OpAt(pc[w], task[w].op) /\ task[w].op \notin {"expire", "reconcile", "cancel"} /\ pc[w] # "payfail"
  BY DEF ControlOf, Releasing
<1>1. CASE WriteAuthorized(w)
  BY <1>0, <1>1, FinishKeeps DEF WriteAuthorized, OpAt, NoTask
<1>2. CASE WriteFailed(w)
  BY <1>0, <1>2 DEF WriteFailed
<1>3. CASE Capture(w)
  BY <1>0, <1>3, FinishKeeps DEF Capture, OpAt, NoTask
<1>4. CASE RecordPaid(w)
  BY <1>4 DEF RecordPaid
<1>5. CASE LookUpPayment(w)
  BY <1>0, <1>5 DEF LookUpPayment, OpAt
<1>6. CASE AskProvider(w)
  BY <1>0, <1>6 DEF AskProvider, OpAt
<1>7. CASE RequestRefund(w)
  BY <1>0, <1>7 DEF RequestRefund, OpAt
<1> QED
  BY <1>1, <1>2, <1>3, <1>4, <1>5, <1>6, <1>7 DEF PaymentStep

LEMMA StartTurn ==
    ASSUME OnlyPlacesAndConfirms, Shape, NEW w \in Workers, Start(w) \/ Crash(w)
    PROVE  Turn(w)
<1> USE DEF Begin, Goto, Job, Turn, OnlyPlacesAndConfirms, OnlyJobOf, PaymentOf, database, paymentVars,
        Shape, JobType
<1>1. ASSUME NEW s \in Sessions, NEW o \in Orders, NEW op \in {"place", "placeCod"},
             StartPlace(w, s, o, op)
      PROVE  Turn(w)
  BY <1>1 DEF StartPlace, StartsPlacing, PlacingOps
<1>2. ASSUME NEW o \in Orders, StartVerify(w, o) \/ DeliverCaptured(w, o) \/ DeliverAuthorized(w, o)
      PROVE  Turn(w)
  BY <1>2 DEF StartVerify, DeliverCaptured, DeliverAuthorized, HearsOfPayment
<1>3. ASSUME \/ \E s \in Sessions : Abandon(w, s)
             \/ \E o \in Orders : DeliverFailed(w, o) \/ Expire(w, o) \/ Reconcile(w, o) \/ Cancel(w, o)
      PROVE  FALSE
  BY <1>3 DEF Abandon, DeliverFailed, Expire, Reconcile, Cancel
<1>4. ASSUME NEW o \in Orders, NEW to \in AdminTargets, AdminSetStatus(w, o, to)
      PROVE  Turn(w)
  BY <1>4 DEF AdminSetStatus, EndsOrMoves
<1>5. CASE Crash(w)
  BY <1>5, FinishKeeps DEF Crash, EndsOrMoves, NoTask
<1> QED
  BY <1>1, <1>2, <1>3, <1>4, <1>5 DEF Start

LEMMA EveryTurn ==
    ASSUME OnlyPlacesAndConfirms, Shape, Releases, [Next]_vars
    PROVE  \/ UNCHANGED <<payment, pc, task, redemption, usedCount>>
           \/ \E w \in Workers : Turn(w)
<1>1. ASSUME NEW o \in Orders,
             Lapse(o) \/ \E event \in {"failed", "authorized", "captured"} : ProviderEvent(o, event)
      PROVE  UNCHANGED <<payment, pc, task, redemption, usedCount>>
  BY <1>1 DEF Lapse, ProviderEvent, database, couponVars, paymentVars, jobVars
<1>2. UNCHANGED vars => UNCHANGED <<payment, pc, task, redemption, usedCount>>
  BY DEF vars, database, couponVars, paymentVars, jobVars
<1> QED
  BY <1>1, <1>2, PlacementTurn, SettlementTurn, PaymentTurn, StartTurn DEF Next, JobStep, Releases

\* Nobody else writes the redemption that a job has read, unless both confirm.
LEMMA RedeemedStays ==
    ASSUME Jobs, Redemptions, Releases, [Next]_vars, NEW x \in Workers, pc[x] = "redeemed",
           pc'[x] = "redeemed"
    PROVE  /\ redemption'[Ord(x)] \in {"RESERVED", "CONFIRMED"}
           /\ ~Commits(task[x].op) => redemption'[Ord(x)] = "RESERVED"
<1> USE DEF couponVars
<1>0. /\ redemption \in [Orders -> RedemptionStatuses] /\ Ord(x) \in Orders
      /\ task[x].op \in HoldOps
  BY OrderOfJob DEF Jobs, Shape, RecordType, ControlOf, OpAt
<1>1. /\ redemption[Ord(x)] \in {"RESERVED", "CONFIRMED"}
      /\ ~Commits(task[x].op) => redemption[Ord(x)] = "RESERVED"
  BY DEF Releases, Releasing
<1>2. CASE redemption'[Ord(x)] = redemption[Ord(x)]
  BY <1>1, <1>2
<1>3. ASSUME NEW y \in Workers, ReserveCoupon(y) PROVE redemption'[Ord(x)] = redemption[Ord(x)]
  BY <1>0, <1>1, <1>3, ReserveCouponIs
<1>4. ASSUME NEW y \in Workers, WriteRedemption(y), redemption'[Ord(x)] # redemption[Ord(x)]
      PROVE  redemption'[Ord(x)] = "CONFIRMED" /\ Commits(task[x].op)
  <2>1. /\ pc[y] = "redeemed" /\ y # x /\ Ord(y) \in Orders /\ task[y].op \in HoldOps
        /\ IF Commits(task[y].op)
           THEN redemption' = [redemption EXCEPT ![Ord(y)] = "CONFIRMED"]
           ELSE redemption' = [redemption EXCEPT ![Ord(y)] = "RELEASED"]
    BY <1>4, WriteRedemptionIs DEF Jobs, Shape, ControlOf, OpAt
  <2>2. Ord(x) = Ord(y)
    BY <1>0, <1>4, <2>1
  <2>3. /\ task[x].op \in {"cod", "confirm", "fail"} /\ task[y].op \in {"cod", "confirm", "fail"}
        /\ task[x].op = "fail" => payment[Ord(x)] = "NONE"
        /\ task[y].op = "fail" => payment[Ord(y)] = "NONE"
        /\ task[x].op = "confirm" => payment[Ord(x)] # "NONE"
        /\ task[y].op = "confirm" => payment[Ord(y)] # "NONE"
    BY <1>0, <2>1 DEF Releases, Releasing, HoldOps
  <2>4. ~(task[x].op \in {"cod", "fail"} /\ task[y].op \in {"cod", "fail"})
    BY <2>1, <2>2 DEF Releases, OneFirst, FirstOps
  <2>5. Commits(task[x].op) /\ Commits(task[y].op)
    BY <2>2, <2>3, <2>4 DEF Commits
  <2> QED
    BY <1>0, <2>1, <2>2, <2>5
<1> QED
  BY <1>1, <1>2, <1>3, <1>4, CouponSteps DEF CouponAside, Jobs

LEMMA PaymentsStay ==
    ASSUME Jobs, Releases, NEW w \in Workers, Turn(w)
    PROVE  \A x \in Workers : pc[x] # "idle" =>
              /\ x # w /\ task[x].op \in PlacingOps \cup {"fail"} => payment'[Ord(x)] = payment[Ord(x)]
              /\ payment[Ord(x)] # "NONE" => payment'[Ord(x)] # "NONE"
<1> SUFFICES ASSUME NEW x \in Workers, pc[x] # "idle", payment' # payment
             PROVE  /\ x # w /\ task[x].op \in PlacingOps \cup {"fail"}
                          => payment'[Ord(x)] = payment[Ord(x)]
                    /\ payment[Ord(x)] # "NONE" => payment'[Ord(x)] # "NONE"
  OBVIOUS
<1>1. PICK st \in {"PENDING", "AUTHORIZED", "CAPTURED", "FAILED"} :
         payment' = [payment EXCEPT ![Ord(w)] = st]
  BY DEF Turn, PaymentOf
<1>2. /\ pc[w] # "idle" /\ task[w].op \in {"cod", "confirm", "authorize", "place"}
  BY DEF Turn, PaymentOf
<1>3. Ord(x) \in Orders /\ Ord(w) \in Orders /\ payment \in [Orders -> {"NONE", "PENDING", "AUTHORIZED", "CAPTURED", "FAILED"}]
  BY <1>2, OrderOfJob DEF Jobs, Shape, RecordType
<1>4. x # w /\ task[x].op \in PlacingOps \cup {"fail"} => Ord(x) # Ord(w)
  <2>1. task[w].op \in {"confirm", "authorize"} => payment[Ord(w)] # "NONE"
    BY DEF Releases, Releasing
  <2>2. task[x].op \in PlacingOps \cup {"fail"} => payment[Ord(x)] = "NONE"
    BY DEF Releases, Releasing
  <2>3. task[w].op \in {"cod", "place"} /\ task[x].op \in PlacingOps \cup {"fail"} /\ x # w
           => Ord(x) # Ord(w)
    BY DEF Releases, OneFirst, FirstOps, PlacingOps
  <2> QED
    BY <1>2, <2>1, <2>2, <2>3
<1> QED
  BY <1>1, <1>3, <1>4

LEMMA ReleasesStep ==
    ASSUME OnlyPlacesAndConfirms, Jobs, Redemptions, Releases, [Next]_vars
    PROVE  Releases'
<1>1. CASE UNCHANGED <<payment, pc, task, redemption, usedCount>>
  BY <1>1 DEF Releases, Releasing, OneFirst, Ord, Commits
<1>2. ASSUME NEW w \in Workers, Turn(w) PROVE Releases'
  <2>1. ASSUME NEW x \in Workers, x # w PROVE Releasing(x)'
    <3>1. pc'[x] = pc[x] /\ task'[x] = task[x] /\ Ord(x)' = Ord(x) /\ Releasing(x)
      BY <1>2, <2>1 DEF Turn, OnlyJobOf, Ord, Releases
    <3>2. pc[x] = "redeemed" =>
             /\ redemption'[Ord(x)] \in {"RESERVED", "CONFIRMED"}
             /\ ~Commits(task[x].op) => redemption'[Ord(x)] = "RESERVED"
      BY <3>1, RedeemedStays
    <3>3. task[x].op # "idle" => pc[x] # "idle"
      BY DEF Jobs, Shape, ControlOf
    <3>4. /\ task[x].op \in PlacingOps \cup {"fail"} => payment'[Ord(x)] = "NONE"
          /\ task[x].op \in {"confirm", "authorize"} => payment'[Ord(x)] # "NONE"
      BY <1>2, <2>1, <3>1, <3>3, PaymentsStay DEF Releasing, PlacingOps
    <3> QED
      BY <3>1, <3>2, <3>4 DEF Releasing, Commits
  <2>2. Releasing(w)'
    <3>1. Releasing(w) /\ pc'[w] # "payfail"
      BY <1>2 DEF Releases, Turn
    <3>2. pc'[w] = "redeemed" => Ord(w)' = Ord(w) /\ redemption'[Ord(w)] = "RESERVED"
      BY <1>2 DEF Turn, couponVars, Ord
    <3>3. CASE EndsOrMoves(w)
      BY <3>1, <3>2, <3>3 DEF EndsOrMoves, Releasing, PlacingOps, Ord
    <3>4. CASE GoesOnWith(w)
      <4>1. Ord(w)' = Ord(w) /\ pc[w] # "idle"
        BY <3>4 DEF GoesOnWith, Ord
      <4>2. task'[w].op \in PlacingOps \cup {"fail"} =>
               task[w].op \in PlacingOps \cup {"fail"} /\ payment' = payment
        BY <1>2, <3>4 DEF GoesOnWith, Turn, PaymentOf, PlacingOps
      <4>3. task'[w].op \in {"confirm", "authorize"} => task[w].op = task'[w].op
        BY <3>4 DEF GoesOnWith
      <4>4. task'[w].op \notin {"expire", "reconcile", "cancel"}
        BY <3>1, <3>4 DEF GoesOnWith, Releasing
      <4>5. payment[Ord(w)] # "NONE" => payment'[Ord(w)] # "NONE"
        BY <1>2, <4>1, PaymentsStay
      <4> QED
        BY <3>1, <3>2, <4>1, <4>2, <4>3, <4>4, <4>5 DEF Releasing
    <3>5. CASE HearsOfPayment(w) /\ payment' = payment
      BY <3>1, <3>2, <3>5 DEF HearsOfPayment, Releasing, PlacingOps, Ord
    <3>6. CASE StartsPlacing(w) /\ payment' = payment
      <4>1. payment[task'[w].order] = "NONE"
        BY <3>6 DEF StartsPlacing, Jobs, Shape, Placed
      <4> QED
        BY <3>1, <3>2, <3>6, <4>1 DEF StartsPlacing, Releasing, PlacingOps, Ord
    <3> QED
      BY <1>2, <3>3, <3>4, <3>5, <3>6 DEF Turn
  <2>3. OneFirst'
    <3>1. ASSUME NEW x \in Workers, x # w, task'[w].op \in FirstOps, task[x].op \in FirstOps
          PROVE  task'[w].order # task[x].order
      <4>1. CASE GoesOnWith(w)
        <5>1. task[w].op \in FirstOps /\ task'[w].order = task[w].order
          BY <3>1, <4>1 DEF GoesOnWith, FirstOps, PlacingOps
        <5> QED
          BY <3>1, <5>1 DEF Releases, OneFirst, Ord
      <4>2. CASE StartsPlacing(w)
        BY <4>2 DEF StartsPlacing
      <4>3. ~EndsOrMoves(w) /\ ~HearsOfPayment(w)
        BY <3>1 DEF EndsOrMoves, HearsOfPayment, FirstOps, PlacingOps
      <4> QED
        BY <1>2, <4>1, <4>2, <4>3 DEF Turn
    <3>2. \A x \in Workers : x # w => task'[x] = task[x]
      BY <1>2 DEF Turn, OnlyJobOf
    <3> QED
      BY <3>1, <3>2 DEF Releases, OneFirst, Ord
  <2> QED
    BY <2>1, <2>2, <2>3 DEF Releases
<1> QED
  BY <1>1, <1>2, EveryTurn DEF Jobs

LEMMA SlotsStep ==
    ASSUME Jobs, Redemptions, Releases, IsFiniteSet(Orders), CouponSlotsAccounted, [Next]_vars
    PROVE  CouponSlotsAccounted'
<1>0. redemption \in [Orders -> RedemptionStatuses] /\ usedCount \in Nat /\ CouponLimit \in Nat
  BY CheckoutAssumption DEF Jobs, Shape, RecordType
<1>1. CASE UNCHANGED couponVars
  BY <1>1 DEF couponVars, CouponSlotsAccounted, LiveRedemptions
<1>2. ASSUME NEW w \in Workers, ReserveCoupon(w), ~UNCHANGED couponVars PROVE CouponSlotsAccounted'
  <2>1. /\ Ord(w) \in Orders /\ Ord(w) \notin LiveRedemptions
        /\ usedCount' = usedCount + 1 /\ usedCount < CouponLimit
        /\ redemption' = [redemption EXCEPT ![Ord(w)] = "RESERVED"]
    BY <1>2, ReserveCouponIs DEF LiveRedemptions
  <2>2. Cardinality(LiveRedemptions)' = Cardinality(LiveRedemptions) + 1
    BY <1>0, <2>1, LiveGains
  <2> QED
    BY <1>0, <2>1, <2>2 DEF CouponSlotsAccounted
<1>3. ASSUME NEW w \in Workers, WriteRedemption(w) PROVE CouponSlotsAccounted'
  <2>1. Ord(w) \in Orders /\ redemption[Ord(w)] \in {"RESERVED", "CONFIRMED"}
    BY <1>3, WriteRedemptionIs DEF Releases, Releasing
  <2>2. Ord(w) \in LiveRedemptions
    BY <2>1 DEF LiveRedemptions
  <2>3. CASE Commits(task[w].op)
    <3>1. usedCount' = usedCount /\ redemption' = [redemption EXCEPT ![Ord(w)] = "CONFIRMED"]
      BY <1>3, <2>3, WriteRedemptionIs
    <3>2. Cardinality(LiveRedemptions)' = Cardinality(LiveRedemptions)
      BY <1>0, <2>1, <2>2, <3>1, LiveGains
    <3> QED
      BY <1>0, <3>1, <3>2 DEF CouponSlotsAccounted
  <2>4. CASE ~Commits(task[w].op)
    <3>1. usedCount' = SlotReturned(usedCount) /\ redemption' = [redemption EXCEPT ![Ord(w)] = "RELEASED"]
      BY <1>3, <2>4, WriteRedemptionIs
    <3>2. Cardinality(LiveRedemptions)' = Cardinality(LiveRedemptions) - 1
      BY <1>0, <2>1, <2>2, <3>1, LiveLoses
    <3>3. Cardinality(LiveRedemptions)' \in Nat
      BY <3>1, FS_Subset, FS_CardinalityType DEF LiveRedemptions
    <3> QED
      BY <1>0, <3>1, <3>2, <3>3 DEF CouponSlotsAccounted, SlotReturned
  <2> QED
    BY <2>3, <2>4
<1> QED
  BY <1>1, <1>2, <1>3, CouponSteps DEF CouponAside, Jobs

\* For all carts, limits and workers, wherever they are killed, where the handlers place,
\* confirm and administer orders: the coupon's counter is the number of its live
\* redemptions, a refused placement's use comes back once, and the limit holds.
THEOREM CouponIsAccounted ==
    ASSUME AdminStaysCommitted, IsFiniteSet(Orders), OnlyPlacesAndConfirms
    PROVE  Spec => []CouponSlotsAccounted
<1>1. Init => Redemptions /\ Releases /\ CouponSlotsAccounted
  <2>1. Init => LiveRedemptions = {} /\ usedCount = 0
    BY DEF Init, LiveRedemptions
  <2>2. Init => CouponSlotsAccounted
    <3>1. CouponLimit \in Nat /\ Cardinality({}) = 0
      BY CheckoutAssumption, FS_EmptySet
    <3> QED
      BY <2>1, <3>1 DEF CouponSlotsAccounted
  <2>3. Init => Redemptions
    BY DEF Init, Redemptions, RedemptionsExist, BeforeCoupon
  <2>4. Init => Releases
    BY DEF Init, Releases, Releasing, OneFirst, FirstOps, PlacingOps, NoTask
  <2> QED
    BY <2>2, <2>3, <2>4
<1>2. Jobs /\ Jobs' /\ Redemptions /\ Releases /\ CouponSlotsAccounted /\ [Next]_vars /\ [Remain]_vars
        => Redemptions' /\ Releases' /\ CouponSlotsAccounted'
  <2>1. UNCHANGED vars => Remain
    BY DEF vars, database, orderVars, Remain
  <2> QED
    BY <2>1, RedemptionsStep, ReleasesStep, SlotsStep
<1> QED
  BY <1>1, <1>2, NothingVanishes, EndingsInductive, PTL DEF Spec
==============================================================================
