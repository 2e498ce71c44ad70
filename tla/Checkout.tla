------------------------------- MODULE Checkout -------------------------------
(***************************************************************************)
(* From a checkout session to a settled order: placement, the stock and    *)
(* coupon holds, payment confirmation, and every path that gives the holds *)
(* back (payment failure, abandonment, cancellation, the expiry sweep and  *)
(* reconciliation).                                                        *)
(*                                                                         *)
(* The API runs as several workers over one MySQL database.  A handler is  *)
(* a job of a worker; every step of a job is one database statement (or    *)
(* one transaction), because other workers' statements interleave at each  *)
(* await.  What a handler has read and still relies on is kept in the job. *)
(* A worker may be killed between two steps, at most MaxCrashes times.     *)
(***************************************************************************)
EXTENDS Integers, FiniteSets, Functions, StockRules, OrderLifecycle

CONSTANTS
    Orders,          \* ids of the orders that may be created
    Sessions,        \* checkout sessions, one cart each
    Variants,        \* product variants
    Workers,         \* concurrent request handlers, webhook handlers and sweeps
    Qty,             \* Qty[s][v]: units of v in the cart of session s
    Opening,         \* Opening[v]: stock before the first order
    Backorder,       \* variants that may be oversold
    CouponSessions,  \* sessions whose cart carries the (one) coupon
    CouponLimit,     \* Coupon.usageLimit
    AdminTargets,    \* statuses an administrator sets by hand
    Handlers,        \* the handlers that run in this instance
    MaxCrashes,      \* bound: workers killed in the middle of a job
    None             \* no order, session or variant

\* What a worker may be doing: place() with an online or a cash payment, confirmCod(),
\* confirmPayment(), the authorized and failed webhooks, the expiry sweep,
\* reconciliation, a cancellation and an administrator's status change.
Ops == {"idle", "place", "placeCod", "cod", "confirm", "authorize", "fail", "expire",
        "reconcile", "cancel", "admin"}

ASSUME CheckoutAssumption ==
    /\ None \notin Orders /\ None \notin Sessions /\ None \notin Variants
    /\ Qty \in [Sessions -> [Variants -> Nat]]
    /\ Opening \in [Variants -> Nat]
    /\ CouponSessions \subseteq Sessions
    /\ CouponLimit \in Nat
    /\ AdminTargets \subseteq OrderStatuses
    /\ Handlers \subseteq Ops
    /\ MaxCrashes \in Nat

VARIABLES
    \* ProductVariant
    stockQty, reservedQty,
    \* Order: status, paymentStatus, paidPaise > 0, expiresAt, its session
    status, payStatus, paid, expiry, placedBy,
    \* StockReservation, Coupon.usedCount, CouponRedemption
    hold, usedCount, redemption,
    \* Payment: status, and whether providerPaymentId is recorded
    payment, payId,
    \* CheckoutSession.orderId and the order its cart was converted into
    sessionOrder, convertedTo,
    \* Refund rows requested by a cancellation
    refunds,
    \* what happened at the payment provider
    provider,
    \* the job of each worker
    pc, task, todo, cur, seen,
    crashes

stockVars   == <<stockQty, reservedQty>>
orderVars   == <<status, payStatus, paid, expiry, placedBy>>
couponVars  == <<usedCount, redemption>>
paymentVars == <<payment, payId>>
sessionVars == <<sessionOrder, convertedTo>>
jobVars     == <<pc, task, todo, cur, seen>>
database    == <<stockVars, orderVars, hold, couponVars, paymentVars, sessionVars>>
others      == <<refunds, provider, crashes>>
vars == <<database, jobVars, others>>

HoldStatuses == {"NONE", "RESERVED", "CONSUMED", "RELEASED", "EXPIRED"}
RedemptionStatuses == {"NONE", "RESERVED", "CONFIRMED", "RELEASED"}

Commits(op) == op \in {"cod", "confirm"}

Task == [op: Ops, order: Orders \cup {None}, session: Sessions \cup {None},
         to: OrderStatuses \cup {None}]
NoTask == [op |-> "idle", order |-> None, session |-> None, to |-> None]

\* The row under StockRules' view.
Row(v) == [stockQty |-> stockQty[v], reservedQty |-> reservedQty[v],
           allowBackorder |-> v \in Backorder]

\* The order items of a session's cart, and their quantities.
Lines(s) == {v \in Variants : Qty[s][v] > 0}
QtyOf(o, v) == Qty[placedBy[o]][v]

\* stockReservationRepository.active(): the reservations of an order still held.
Active(o) == {v \in Variants : hold[o][v] = "RESERVED"}

\* The columns of an order row that a handler goes on using after reading it.
Snapshot(o) == [status |-> status[o], pay |-> payStatus[o], paid |-> paid[o]]
NoSnapshot == [status |-> "DRAFT", pay |-> "PENDING", paid |-> FALSE]
Snapshots == [status: OrderStatuses, pay: PaymentStatuses, paid: BOOLEAN]

Init ==
    /\ stockQty = Opening
    /\ reservedQty = [v \in Variants |-> 0]
    /\ status = [o \in Orders |-> "NONE"]
    /\ payStatus = [o \in Orders |-> "PENDING"]
    /\ paid = [o \in Orders |-> FALSE]
    /\ expiry = [o \in Orders |-> "none"]
    /\ placedBy = [o \in Orders |-> None]
    /\ hold = [o \in Orders |-> [v \in Variants |-> "NONE"]]
    /\ usedCount = 0
    /\ redemption = [o \in Orders |-> "NONE"]
    /\ payment = [o \in Orders |-> "NONE"]
    /\ payId = [o \in Orders |-> FALSE]
    /\ sessionOrder = [s \in Sessions |-> None]
    /\ convertedTo = [s \in Sessions |-> None]
    /\ refunds = [o \in Orders |-> 0]
    /\ provider = [o \in Orders |-> {}]
    /\ pc = [w \in Workers |-> "idle"]
    /\ task = [w \in Workers |-> NoTask]
    /\ todo = [w \in Workers |-> {}]
    /\ cur = [w \in Workers |-> None]
    /\ seen = [w \in Workers |-> NoSnapshot]
    /\ crashes = 0

-------------------------------------------------------------------------------
(* Control of a job *)

\* The order of the job, and the statement it executes next.
Ord(w) == task[w].order
At(w, step) == pc[w] = step
Goto(w, step) == pc' = [pc EXCEPT ![w] = step]

\* Worker w, idle so far, starts handling t at a step.
Begin(w, t, step) ==
    /\ pc[w] = "idle"
    /\ Goto(w, step)
    /\ task' = [task EXCEPT ![w] = t]

\* The job returns or throws; nothing of it is left.
Finish(w) ==
    /\ Goto(w, "idle")
    /\ task' = [task EXCEPT ![w] = NoTask]
    /\ todo' = [todo EXCEPT ![w] = {}]
    /\ cur' = [cur EXCEPT ![w] = None]
    /\ seen' = [seen EXCEPT ![w] = NoSnapshot]

Job(op, o) == [op |-> op, order |-> o, session |-> None, to |-> None]

-------------------------------------------------------------------------------
(* Placement: checkout.service.ts place() and createOrder() *)

\* place(): a session that already has an order gets that order back, so only a
\* session without one goes on; o is the id the new order will have.
StartPlace(w, s, o, op) ==
    /\ op \in Handlers
    /\ sessionOrder[s] = None
    /\ status[o] = "NONE" /\ \A x \in Workers : task[x].order # o
    /\ Begin(w, [op |-> op, order |-> o, session |-> s, to |-> None], "create")
    /\ UNCHANGED <<todo, cur, seen, database, others>>

\* createOrder(), the transaction that writes the order.
Create(w) ==
    /\ At(w, "create")
    /\ status' = [status EXCEPT ![Ord(w)] = "DRAFT"]
    /\ expiry' = [expiry EXCEPT ![Ord(w)] = "set"]
    /\ placedBy' = [placedBy EXCEPT ![Ord(w)] = task[w].session]
    /\ todo' = [todo EXCEPT ![w] = Lines(task[w].session)]
    /\ seen' = [seen EXCEPT ![w] = NoSnapshot]
    /\ Goto(w, IF Lines(task[w].session) = {} THEN "coupon" ELSE "reserve")
    /\ UNCHANGED <<task, cur, stockVars, payStatus, paid, hold, couponVars, paymentVars,
                   sessionVars, others>>

\* takeHolds(): one item is reserved; a refusal turns to the undo path with the
\* items reserved so far.
ReserveItem(w) ==
    /\ At(w, "reserve")
    /\ \E v \in todo[w] :
          IF CanReserve(Row(v), QtyOf(Ord(w), v))
          THEN /\ reservedQty' = [reservedQty EXCEPT ![v] = ReservedAfter(Row(v), QtyOf(Ord(w), v))]
               /\ cur' = [cur EXCEPT ![w] = v]
               /\ Goto(w, "row")
               /\ UNCHANGED todo
          ELSE /\ todo' = [todo EXCEPT ![w] = Active(Ord(w))]
               /\ Goto(w, IF Active(Ord(w)) = {} THEN "unrow" ELSE "undo")
               /\ UNCHANGED <<reservedQty, cur>>
    /\ UNCHANGED <<task, seen, stockQty, orderVars, hold, couponVars, paymentVars, sessionVars,
                   others>>

\* ... and its StockReservation row is written.
WriteReservation(w) ==
    /\ At(w, "row")
    /\ hold' = [hold EXCEPT ![Ord(w)][cur[w]] = "RESERVED"]
    /\ todo' = [todo EXCEPT ![w] = @ \ {cur[w]}]
    /\ cur' = [cur EXCEPT ![w] = None]
    /\ Goto(w, IF todo[w] = {cur[w]} THEN "coupon" ELSE "reserve")
    /\ UNCHANGED <<task, seen, stockVars, orderVars, couponVars, paymentVars, sessionVars, others>>

\* The WHERE clause of the increment, and a faulty one that is off by one.
OffByOneRoom(n) == n <= CouponLimit
CouponHasRoom(n) == n < CouponLimit

\* couponRedemptionService.reserve(): the limit is tested in the WHERE clause of
\* the increment, and the redemption row commits with it.
ReserveCoupon(w) ==
    /\ At(w, "coupon")
    /\ IF placedBy[Ord(w)] \notin CouponSessions
       THEN /\ Goto(w, "attach")
            /\ UNCHANGED <<couponVars, todo>>
       ELSE IF CouponHasRoom(usedCount)
       THEN /\ usedCount' = usedCount + 1
            /\ redemption' = [redemption EXCEPT ![Ord(w)] = "RESERVED"]
            /\ Goto(w, "attach")
            /\ UNCHANGED todo
       ELSE /\ todo' = [todo EXCEPT ![w] = Active(Ord(w))]
            /\ Goto(w, IF Active(Ord(w)) = {} THEN "unrow" ELSE "undo")
            /\ UNCHANGED couponVars
    /\ UNCHANGED <<task, cur, seen, stockVars, orderVars, hold, paymentVars, sessionVars, others>>

\* takeHolds(), the catch block: the units go back one item at a time ...
UndoReserve(w) ==
    /\ At(w, "undo")
    /\ \E v \in todo[w] :
          /\ reservedQty' = [reservedQty EXCEPT ![v] = ReleasedAfter(Row(v), QtyOf(Ord(w), v))]
          /\ todo' = [todo EXCEPT ![w] = @ \ {v}]
          /\ Goto(w, IF todo[w] = {v} THEN "unrow" ELSE "undo")
    /\ UNCHANGED <<task, cur, seen, stockQty, orderVars, hold, couponVars, paymentVars,
                   sessionVars, others>>

\* ... then the rows are marked RELEASED and the placement fails.
UndoRows(w) ==
    /\ At(w, "unrow")
    /\ hold' = [hold EXCEPT ![Ord(w)] =
                  [v \in Variants |-> IF @[v] = "RESERVED" THEN "RELEASED" ELSE @[v]]]
    /\ Finish(w)
    /\ UNCHANGED <<stockVars, orderVars, couponVars, paymentVars, sessionVars, others>>

\* The session is tied to its order.
AttachSession(w) ==
    /\ At(w, "attach")
    /\ sessionOrder' = [sessionOrder EXCEPT ![task[w].session] = Ord(w)]
    /\ Goto(w, "move")
    /\ UNCHANGED <<task, todo, cur, seen, stockVars, orderVars, hold, couponVars, paymentVars,
                   convertedTo, others>>

\* paymentDriver.createOrder() succeeds ...
ProviderAccepts(w) ==
    /\ At(w, "provider")
    /\ provider' = [provider EXCEPT ![Ord(w)] = @ \cup {"order"}]
    /\ Goto(w, "payrow")
    /\ UNCHANGED <<task, todo, cur, seen, database, refunds, crashes>>

\* ... or throws, and failOrder() gives the holds back.
ProviderRefuses(w) ==
    /\ At(w, "provider")
    /\ task' = [task EXCEPT ![w] = Job("fail", Ord(w))]
    /\ Goto(w, "list")
    /\ UNCHANGED <<todo, cur, seen, database, others>>

\* The PENDING payment row, after which place() returns to the browser.
WritePayment(w) ==
    /\ At(w, "payrow")
    /\ payment' = [payment EXCEPT ![Ord(w)] = "PENDING"]
    /\ Finish(w)
    /\ UNCHANGED <<stockVars, orderVars, hold, couponVars, payId, sessionVars, others>>

\* confirmCod(): the cash payment row, then the holds are committed.
WriteCodPayment(w) ==
    /\ At(w, "codpay")
    /\ payment' = [payment EXCEPT ![Ord(w)] = "PENDING"]
    /\ Goto(w, "list")
    /\ UNCHANGED <<task, todo, cur, seen, stockVars, orderVars, hold, couponVars, payId,
                   sessionVars, others>>

-------------------------------------------------------------------------------
(* orderStateMachine.transition() *)

\* The status the handler moves its order to.
Target(w) ==
    CASE task[w].op \in {"place", "placeCod"}   -> "PENDING_PAYMENT"
      [] task[w].op \in {"cod", "confirm"}      -> "CONFIRMED"
      [] task[w].op = "fail"                    -> "PAYMENT_FAILED"
      [] task[w].op \in {"expire", "reconcile"} -> "EXPIRED"
      [] task[w].op = "cancel"                  -> "CANCELLED"
      [] OTHER                                  -> task[w].to

\* The table and the guards are applied to the order as the handler read it.
LegalFrom(from, w) ==
    /\ CanTransition(from.status, Target(w))
    /\ GuardHolds(Target(w), from.pay, from.paid, task[w].op = "cod")

\* A faulty transition that writes without comparing.
SwapsBlindly(w) == seen[w].status # Target(w) /\ LegalFrom(seen[w], w)

\* The write is a compare-and-set on the status that was read.
SwapsStatus(w) ==
    /\ seen[w].status # Target(w)
    /\ LegalFrom(seen[w], w)
    /\ status[Ord(w)] = seen[w].status

\* Nothing to write: the order was read in that status already, or another
\* handler made this exact move first.
AlreadyThere(w) ==
    \/ seen[w].status = Target(w)
    \/ /\ LegalFrom(seen[w], w)
       /\ status[Ord(w)] # seen[w].status
       /\ status[Ord(w)] = Target(w)

\* What the handler does once the transition has returned.
AfterMove(w) ==
    CASE task[w].op = "place" ->
            Goto(w, "provider") /\ UNCHANGED <<task, todo, cur, seen>>
      [] task[w].op = "placeCod" ->
            /\ task' = [task EXCEPT ![w] = Job("cod", Ord(w))]
            /\ Goto(w, "reload")
            /\ UNCHANGED <<todo, cur, seen>>
      [] task[w].op = "cancel" ->
            Goto(w, "refund") /\ UNCHANGED <<task, todo, cur, seen>>
      [] OTHER -> Finish(w)

Move(w) ==
    /\ At(w, "move")
    /\ SwapsStatus(w)
    /\ status' = [status EXCEPT ![Ord(w)] = Target(w)]
    /\ AfterMove(w)
    /\ UNCHANGED <<stockVars, payStatus, paid, expiry, placedBy, hold, couponVars, paymentVars,
                   sessionVars, others>>

MoveAlreadyMade(w) ==
    /\ At(w, "move")
    /\ AlreadyThere(w)
    /\ AfterMove(w)
    /\ UNCHANGED <<database, others>>

\* 409: the move is illegal, or the order has moved elsewhere.  The error leaves
\* the handler with whatever it did before.
MoveRefused(w) ==
    /\ At(w, "move")
    /\ ~SwapsStatus(w) /\ ~AlreadyThere(w)
    /\ Finish(w)
    /\ UNCHANGED <<database, others>>

-------------------------------------------------------------------------------
(* commitHolds() and releaseHolds() of checkout.service.ts *)

\* The reservations still RESERVED are read once, before the loop.
ListHolds(w) ==
    /\ At(w, "list")
    /\ todo' = [todo EXCEPT ![w] = Active(Ord(w))]
    /\ Goto(w, IF Active(Ord(w)) = {} THEN "redeem" ELSE "settle")
    /\ UNCHANGED <<task, cur, seen, database, others>>

\* On to the next reservation, or to the coupon after the last one.
NextHold(w, v) ==
    /\ todo' = [todo EXCEPT ![w] = @ \ {v}]
    /\ Goto(w, IF todo[w] = {v} THEN "redeem" ELSE "settle")

SettledAs(w) ==
    CASE Commits(task[w].op)    -> "CONSUMED"
      [] task[w].op = "expire"  -> "EXPIRED"
      [] OTHER                  -> "RELEASED"

\* The WHERE clause of settle(), and a faulty one that does not look at the status.
AnyReservation(o, v) == TRUE
StillReserved(o, v) == hold[o][v] = "RESERVED"

\* stockReservationRepository.settle(): a compare-and-set; the loser skips the row.
SettleHold(w) ==
    /\ At(w, "settle")
    /\ \E v \in todo[w] :
          IF StillReserved(Ord(w), v)
          THEN /\ hold' = [hold EXCEPT ![Ord(w)][v] = SettledAs(w)]
               /\ cur' = [cur EXCEPT ![w] = v]
               /\ Goto(w, "giveback")
               /\ UNCHANGED todo
          ELSE NextHold(w, v) /\ UNCHANGED <<hold, cur>>
    /\ UNCHANGED <<task, seen, stockVars, orderVars, couponVars, paymentVars, sessionVars, others>>

\* inventoryService.release() of the settled units.
GiveBack(w) ==
    /\ At(w, "giveback")
    /\ reservedQty' = [reservedQty EXCEPT ![cur[w]] = ReleasedAfter(Row(cur[w]), QtyOf(Ord(w), cur[w]))]
    /\ IF Commits(task[w].op)
       THEN Goto(w, "deduct") /\ UNCHANGED <<todo, cur>>
       ELSE NextHold(w, cur[w]) /\ cur' = [cur EXCEPT ![w] = None]
    /\ UNCHANGED <<task, seen, stockQty, orderVars, hold, couponVars, paymentVars, sessionVars,
                   others>>

\* commitHolds(): inventoryService.adjust(-qty, ORDER_FULFILLED); a refusal is
\* logged and the loop goes on.
Deduct(w) ==
    /\ At(w, "deduct")
    /\ LET v == cur[w]
           sold == -QtyOf(Ord(w), v)
       IN  /\ stockQty' = IF CanAdjust(Row(v), sold)
                          THEN [stockQty EXCEPT ![v] = AdjustedQty(Row(v), sold)]
                          ELSE stockQty
           /\ NextHold(w, v)
    /\ cur' = [cur EXCEPT ![w] = None]
    /\ UNCHANGED <<task, seen, reservedQty, orderVars, hold, couponVars, paymentVars, sessionVars,
                   others>>

\* Where a handler goes after the coupon.
AfterCoupon(w) ==
    IF Commits(task[w].op) THEN "cart" ELSE IF task[w].op = "cancel" THEN "move" ELSE "mark"

\* settleCoupon(): nothing to do unless the redemption is read as RESERVED ...
ReadRedemption(w) ==
    /\ At(w, "redeem")
    /\ Goto(w, IF redemption[Ord(w)] = "RESERVED" THEN "redeemed" ELSE AfterCoupon(w))
    /\ UNCHANGED <<task, todo, cur, seen, database, others>>

\* The decrement of the coupon's counter, and faulty ones without its floor and
\* without the decrement.
SlotReturnedBlindly(n) == n - 1
SlotKept(n) == n
SlotReturned(n) == IF n > 0 THEN n - 1 ELSE n

\* ... and then couponRedemptionService.confirm() or release() writes it, without
\* looking at its status again.
WriteRedemption(w) ==
    /\ At(w, "redeemed")
    /\ IF Commits(task[w].op)
       THEN /\ redemption' = [redemption EXCEPT ![Ord(w)] = "CONFIRMED"]
            /\ UNCHANGED usedCount
       ELSE /\ redemption' = [redemption EXCEPT ![Ord(w)] = "RELEASED"]
            /\ usedCount' = SlotReturned(usedCount)
    /\ Goto(w, AfterCoupon(w))
    /\ UNCHANGED <<task, todo, cur, seen, stockVars, orderVars, hold, paymentVars, sessionVars,
                   others>>

\* markCartConverted(): only an ACTIVE cart is converted.
ConvertCart(w) ==
    /\ At(w, "cart")
    /\ LET s == placedBy[Ord(w)] IN
          convertedTo' = IF convertedTo[s] = None THEN [convertedTo EXCEPT ![s] = Ord(w)] ELSE convertedTo
    /\ Goto(w, "move")
    /\ UNCHANGED <<task, todo, cur, seen, stockVars, orderVars, hold, couponVars, paymentVars,
                   sessionOrder, others>>

\* failOrder(), the sweep and reconciliation: the payment status is overwritten ...
MarkPayment(w) ==
    /\ At(w, "mark")
    /\ payStatus' = [payStatus EXCEPT ![Ord(w)] = IF task[w].op = "fail" THEN "FAILED" ELSE "EXPIRED"]
    /\ Goto(w, "reload")
    /\ UNCHANGED <<task, todo, cur, seen, stockVars, status, paid, expiry, placedBy, hold, couponVars,
                   paymentVars, sessionVars, others>>

\* ... and the order is read again for the transition.  confirmPayment() reads it
\* again before it commits the holds, and confirmCod() is handed what the transition
\* to PENDING_PAYMENT read back.
Reload(w) ==
    /\ At(w, "reload")
    /\ seen' = [seen EXCEPT ![w] = Snapshot(Ord(w))]
    /\ Goto(w, CASE task[w].op = "confirm" -> "list"
                 [] task[w].op = "cod"     -> "codpay"
                 [] OTHER                  -> "move")
    /\ UNCHANGED <<task, todo, cur, database, others>>

-------------------------------------------------------------------------------
(* verifyPayment(), confirmPayment() and the payment webhooks *)

\* What the payment provider knows about order o.
ProviderSays(o, event) == event \in provider[o]

\* The browser's signed confirmation, which it has once the payment is authorized.
StartVerify(w, o) ==
    /\ "confirm" \in Handlers
    /\ ProviderSays(o, "authorized") /\ payment[o] # "NONE"
    /\ Begin(w, Job("confirm", o), "capture")
    /\ UNCHANGED <<todo, cur, seen, database, others>>

\* onPaymentCaptured(): an order already CAPTURED is left alone.
DeliverCaptured(w, o) ==
    /\ "confirm" \in Handlers
    /\ ProviderSays(o, "captured") /\ payment[o] # "NONE"
    /\ payStatus[o] # "CAPTURED"
    /\ Begin(w, Job("confirm", o), "capture")
    /\ UNCHANGED <<todo, cur, seen, database, others>>

\* onPaymentAuthorized(): a payment read as CAPTURED is left alone ...
DeliverAuthorized(w, o) ==
    /\ "authorize" \in Handlers
    /\ ProviderSays(o, "authorized") /\ payment[o] \notin {"NONE", "CAPTURED"}
    /\ Begin(w, Job("authorize", o), "authorize")
    /\ UNCHANGED <<todo, cur, seen, database, others>>

\* ... and the write that follows does not look again.
WriteAuthorized(w) ==
    /\ At(w, "authorize")
    /\ payment' = [payment EXCEPT ![Ord(w)] = "AUTHORIZED"]
    /\ payId' = [payId EXCEPT ![Ord(w)] = TRUE]
    /\ Finish(w)
    /\ UNCHANGED <<stockVars, orderVars, hold, couponVars, sessionVars, others>>

\* onPaymentFailed(): an order read as CAPTURED is left alone ...
DeliverFailed(w, o) ==
    /\ "fail" \in Handlers
    /\ ProviderSays(o, "failed") /\ payment[o] # "NONE"
    /\ payStatus[o] # "CAPTURED"
    /\ Begin(w, Job("fail", o), "payfail")
    /\ UNCHANGED <<todo, cur, seen, database, others>>

\* ... otherwise the payment is marked FAILED, and failOrder() follows.
WriteFailed(w) ==
    /\ At(w, "payfail")
    /\ payment' = [payment EXCEPT ![Ord(w)] = "FAILED"]
    /\ Goto(w, "list")
    /\ UNCHANGED <<task, todo, cur, seen, stockVars, orderVars, hold, couponVars, payId, sessionVars,
                   others>>

\* paymentRepository.markCaptured(): the compare-and-set that decides who confirms.
Capture(w) ==
    /\ At(w, "capture")
    /\ IF payment[Ord(w)] \in {"PENDING", "AUTHORIZED"}
       THEN /\ payment' = [payment EXCEPT ![Ord(w)] = "CAPTURED"]
            /\ payId' = [payId EXCEPT ![Ord(w)] = TRUE]
            /\ Goto(w, "paid")
            /\ UNCHANGED <<task, todo, cur, seen>>
       ELSE Finish(w) /\ UNCHANGED paymentVars
    /\ UNCHANGED <<stockVars, orderVars, hold, couponVars, sessionVars, others>>

\* confirmPayment(): the winner records the money on the order.
RecordPaid(w) ==
    /\ At(w, "paid")
    /\ payStatus' = [payStatus EXCEPT ![Ord(w)] = "CAPTURED"]
    /\ paid' = [paid EXCEPT ![Ord(w)] = TRUE]
    /\ expiry' = [expiry EXCEPT ![Ord(w)] = "none"]
    /\ Goto(w, "reload")
    /\ UNCHANGED <<task, todo, cur, seen, stockVars, status, placedBy, hold, couponVars, paymentVars,
                   sessionVars, others>>

-------------------------------------------------------------------------------
(* The other ways an order gives its holds back *)

\* abandon(): the shopper closes the tab while the session's order is unpaid.
Abandon(w, s) ==
    /\ "fail" \in Handlers
    /\ sessionOrder[s] # None /\ status[sessionOrder[s]] = "PENDING_PAYMENT"
    /\ Begin(w, Job("fail", sessionOrder[s]), "list")
    /\ UNCHANGED <<todo, cur, seen, database, others>>

\* orderRepository.findExpired().
Stale(o) == status[o] = "PENDING_PAYMENT" /\ expiry[o] = "lapsed"

\* A faulty sweep that moves the order without releasing its holds.
ExpireWithoutRelease(w, o) ==
    /\ Stale(o)
    /\ Begin(w, Job("expire", o), "mark")
    /\ UNCHANGED <<todo, cur, seen, database, others>>

\* expireStaleOrders(), one job for each order that the query returned.
Expire(w, o) ==
    /\ "expire" \in Handlers
    /\ Stale(o)
    /\ Begin(w, Job("expire", o), "list")
    /\ UNCHANGED <<todo, cur, seen, database, others>>

\* reconciliationService.run(), one job for each order that the query returned.
Reconcile(w, o) ==
    /\ "reconcile" \in Handlers
    /\ Stale(o)
    /\ Begin(w, Job("reconcile", o), "lookup")
    /\ UNCHANGED <<todo, cur, seen, database, others>>

\* The payment row tells whether there is a provider order to ask about, and
\* whether the id of a payment is known.
LookUpPayment(w) ==
    /\ At(w, "lookup")
    /\ Goto(w, IF payment[Ord(w)] # "NONE" /\ ProviderSays(Ord(w), "order")
               THEN IF payId[Ord(w)] THEN "fetchById" ELSE "fetch"
               ELSE "list")
    /\ UNCHANGED <<task, todo, cur, seen, database, others>>

\* paymentDriver.fetchOrder(): a paid order whose payment is known is confirmed, an
\* unreachable provider leaves the order alone, and every other order expires.
AskProvider(w) ==
    /\ pc[w] \in {"fetch", "fetchById"}
    /\ \/ Finish(w)
       \/ /\ IF At(w, "fetchById") /\ ProviderSays(Ord(w), "captured")
             THEN task' = [task EXCEPT ![w] = Job("confirm", Ord(w))] /\ Goto(w, "capture")
             ELSE UNCHANGED task /\ Goto(w, "list")
          /\ UNCHANGED <<todo, cur, seen>>
    /\ UNCHANGED <<database, others>>

\* A faulty cancellation that moves the order without releasing its holds.
CancelWithoutRelease(w, o) ==
    /\ status[o] \in {"PENDING_PAYMENT", "CONFIRMED", "PROCESSING"}
    /\ Begin(w, Job("cancel", o), "move")
    /\ seen' = [seen EXCEPT ![w] = Snapshot(o)]
    /\ UNCHANGED <<todo, cur, database, others>>

\* cancelForCustomer(): the order is read once, and judged and moved as read.
Cancel(w, o) ==
    /\ "cancel" \in Handlers
    /\ status[o] \in {"PENDING_PAYMENT", "CONFIRMED", "PROCESSING"}
    /\ Begin(w, Job("cancel", o), "list")
    /\ seen' = [seen EXCEPT ![w] = Snapshot(o)]
    /\ UNCHANGED <<todo, cur, database, others>>

\* requestRefundFor(): a refund row for an order that has been paid.
RequestRefund(w) ==
    /\ At(w, "refund")
    /\ refunds' = [refunds EXCEPT ![Ord(w)] =
                     IF paid[Ord(w)] /\ payment[Ord(w)] = "CAPTURED" THEN @ + 1 ELSE @]
    /\ Finish(w)
    /\ UNCHANGED <<database, provider, crashes>>

\* adminOrderController.setStatus(): the order is read, then moved.
AdminSetStatus(w, o, to) ==
    /\ "admin" \in Handlers
    /\ status[o] # "NONE"
    /\ Begin(w, [op |-> "admin", order |-> o, session |-> None, to |-> to], "move")
    /\ seen' = [seen EXCEPT ![w] = Snapshot(o)]
    /\ UNCHANGED <<todo, cur, database, others>>

-------------------------------------------------------------------------------
(* Time, the payment provider and crashes *)

\* The payment window of an order closes.
Lapse(o) ==
    /\ expiry[o] = "set"
    /\ expiry' = [expiry EXCEPT ![o] = "lapsed"]
    /\ UNCHANGED <<stockVars, status, payStatus, paid, placedBy, hold, couponVars, paymentVars,
                   sessionVars, jobVars, others>>

\* The shopper, who has the provider's order id once place() has returned, makes
\* attempts at the provider; one may fail before another is authorized, and an
\* authorized payment may be captured.
ProviderEvent(o, event) ==
    /\ payment[o] # "NONE" /\ ProviderSays(o, "order")
    /\ event = "captured" => ProviderSays(o, "authorized")
    /\ provider' = [provider EXCEPT ![o] = @ \cup {event}]
    /\ UNCHANGED <<database, jobVars, refunds, crashes>>

\* A worker is killed: its job is forgotten, what it wrote stays.
Crash(w) ==
    /\ pc[w] # "idle"
    /\ crashes < MaxCrashes
    /\ crashes' = crashes + 1
    /\ Finish(w)
    /\ UNCHANGED <<database, refunds, provider>>

-------------------------------------------------------------------------------
PlacementStep(w) ==
    \/ Create(w) \/ ReserveItem(w) \/ WriteReservation(w) \/ ReserveCoupon(w)
    \/ UndoReserve(w) \/ UndoRows(w) \/ AttachSession(w)
    \/ ProviderAccepts(w) \/ ProviderRefuses(w) \/ WritePayment(w) \/ WriteCodPayment(w)

SettlementStep(w) ==
    \/ ListHolds(w) \/ SettleHold(w) \/ GiveBack(w) \/ Deduct(w)
    \/ ReadRedemption(w) \/ WriteRedemption(w) \/ ConvertCart(w)
    \/ MarkPayment(w) \/ Reload(w)
    \/ Move(w) \/ MoveAlreadyMade(w) \/ MoveRefused(w)

PaymentStep(w) ==
    \/ WriteAuthorized(w) \/ WriteFailed(w) \/ Capture(w) \/ RecordPaid(w)
    \/ LookUpPayment(w) \/ AskProvider(w) \/ RequestRefund(w)

JobStep(w) == PlacementStep(w) \/ SettlementStep(w) \/ PaymentStep(w)

Start(w) ==
    \/ \E s \in Sessions :
          \/ \E o \in Orders, op \in {"place", "placeCod"} : StartPlace(w, s, o, op)
          \/ Abandon(w, s)
    \/ \E o \in Orders :
          \/ StartVerify(w, o) \/ DeliverCaptured(w, o) \/ DeliverAuthorized(w, o)
          \/ DeliverFailed(w, o)
          \/ Expire(w, o) \/ Reconcile(w, o) \/ Cancel(w, o)
          \/ \E to \in AdminTargets : AdminSetStatus(w, o, to)

Next ==
    \/ \E w \in Workers : JobStep(w) \/ Start(w) \/ Crash(w)
    \/ \E o \in Orders :
          \/ Lapse(o)
          \/ \E event \in {"failed", "authorized", "captured"} : ProviderEvent(o, event)

Spec == Init /\ [][Next]_vars

\* Every job runs to its end and the sweep keeps being run.  The source has no
\* timer for it: that somebody runs it is an assumption about the deployment.
FairSpec ==
    /\ Spec
    /\ \A w \in Workers : WF_vars(JobStep(w))
    /\ \A o \in Orders : SF_vars(\E w \in Workers : Expire(w, o))

-------------------------------------------------------------------------------
Steps == {"idle", "create", "reserve", "row", "coupon", "undo", "unrow", "attach", "move",
          "provider", "payrow", "codpay", "list", "settle", "giveback", "deduct", "redeem",
          "redeemed", "cart", "mark", "reload", "authorize", "payfail", "capture", "paid",
          "lookup", "fetch", "fetchById", "refund"}

StockType ==
    /\ stockQty \in [Variants -> Int]
    /\ reservedQty \in [Variants -> Nat]

RecordType ==
    /\ status \in [Orders -> OrderStatuses \cup {"NONE"}]
    /\ payStatus \in [Orders -> PaymentStatuses]
    /\ paid \in [Orders -> BOOLEAN]
    /\ expiry \in [Orders -> {"none", "set", "lapsed"}]
    /\ placedBy \in [Orders -> Sessions \cup {None}]
    /\ hold \in [Orders -> [Variants -> HoldStatuses]]
    /\ usedCount \in Nat
    /\ redemption \in [Orders -> RedemptionStatuses]
    /\ payment \in [Orders -> {"NONE", "PENDING", "AUTHORIZED", "CAPTURED", "FAILED"}]
    /\ payId \in [Orders -> BOOLEAN]
    /\ sessionOrder \in [Sessions -> Orders \cup {None}]
    /\ convertedTo \in [Sessions -> Orders \cup {None}]

OutsideType ==
    /\ refunds \in [Orders -> Nat]
    /\ provider \in [Orders -> SUBSET {"order", "failed", "authorized", "captured"}]
    /\ crashes \in Nat

JobType ==
    /\ pc \in [Workers -> Steps]
    /\ task \in [Workers -> Task]
    /\ todo \in [Workers -> SUBSET Variants]
    /\ cur \in [Workers -> Variants \cup {None}]
    /\ seen \in [Workers -> Snapshots]

TypeOK == StockType /\ RecordType /\ OutsideType /\ JobType

-------------------------------------------------------------------------------
(* What the placement and settlement of orders promises *)

\* Units of v over a set of orders.
Units(orders, v) == SumFunctionOnSet([o \in orders |-> QtyOf(o, v)], orders)

HoldersOf(v) == {o \in Orders : hold[o][v] = "RESERVED"}
BuyersOf(v) == {o \in Orders : hold[o][v] = "CONSUMED"}

\* Orders whose units of v are reserved without a RESERVED row: the row is about
\* to be written, or is settled and the units are about to go back ...
InFlight(v) == {Ord(w) : w \in {x \in Workers : pc[x] \in {"row", "giveback"} /\ cur[x] = v}}

\* ... and orders of an abandoned placement that gave the units back but still
\* have the row.
Undone(v) == {Ord(w) : w \in {x \in Workers :
                 pc[x] \in {"undo", "unrow"} /\ v \notin todo[x] /\ hold[Ord(x)][v] = "RESERVED"}}

\* reservedQty is exactly the units of the live reservations, through every
\* interleaving of placements, confirmations, failures, cancellations and sweeps:
\* no unit is given back twice and none is stranded.
HoldsAccounted ==
    \A v \in Variants :
       reservedQty[v] = Units(HoldersOf(v), v) + Units(InFlight(v), v) - Units(Undone(v), v)

\* A variant that takes no backorders never has more reserved than it has.
StockFloor ==
    \A v \in Variants \ Backorder : 0 <= reservedQty[v] /\ reservedQty[v] <= stockQty[v]

\* commitHolds() sells a reservation at most once, however many confirmations of
\* its order run: the stock that left is covered by consumed reservations.
SoldAtMostOnce ==
    \A v \in Variants : Opening[v] - stockQty[v] <= Units(BuyersOf(v), v)

\* An order in a status of RELEASING_STATUSES holds no stock (L5), as long as only
\* the handlers that release move it there.
NoHoldAfterRelease == \A o \in Orders : status[o] \in ReleasingStatuses => Active(o) = {}

\* An order is committed only when the provider has authorized its payment and the
\* capture is recorded, or when it is a cash order that is still to be paid.
CommittedMeansPaid ==
    \A o \in Orders : status[o] \in CommittedStatuses =>
       \/ paid[o] /\ ProviderSays(o, "authorized")
       \/ ~paid[o] /\ payment[o] = "PENDING" /\ provider[o] = {}

\* Whatever handlers race, an order only ever moves along ORDER_TRANSITIONS.
LegalMoves ==
    [][\A o \in Orders : status'[o] # status[o] =>
          \/ status[o] = "NONE" /\ status'[o] = "DRAFT"
          \/ status[o] # "NONE" /\ CanTransition(status[o], status'[o])]_vars

\* The coupon counter is the number of redemptions that are reserved or confirmed,
\* and stays within the coupon's limit.
LiveRedemptions == {o \in Orders : redemption[o] \in {"RESERVED", "CONFIRMED"}}
CouponSlotsAccounted == usedCount = Cardinality(LiveRedemptions) /\ usedCount <= CouponLimit

\* Even when confirmations and releases of one redemption race, no use of the coupon
\* is lost: it never runs out while fewer redemptions than counted are live.
NoSlotLost == usedCount <= Cardinality(LiveRedemptions)

\* An order past its payment window that the sweep can see ends up holding nothing.
LapsedHoldsComeBack == \A o \in Orders : Stale(o) ~> Active(o) = {}

-------------------------------------------------------------------------------
(* The order contract this module implements *)

PhaseOf(st) ==
    CASE st = "NONE"                       -> "none"
      [] st \in {"DRAFT", "PENDING_PAYMENT"} -> "open"
      [] st \in ReleasingStatuses          -> "released"
      [] OTHER                             -> "committed"

FateOf(h) ==
    CASE h = "NONE"     -> "none"
      [] h = "RESERVED" -> "held"
      [] h = "CONSUMED" -> "sold"
      [] OTHER          -> "returned"

Contract == INSTANCE OrderContract WITH
    phase <- [o \in Orders |-> PhaseOf(status[o])],
    hold  <- [o \in Orders |-> [v \in Variants |-> FateOf(hold[o][v])]]

\* Placement, confirmation, failure, abandonment, sweep, reconciliation and
\* cancellation, interleaved at every statement and killed anywhere, are steps of
\* the contract: each hold ends once, and no order is decided while it holds.
KeepsContract == Contract!Spec

-------------------------------------------------------------------------------
(* What the documentation promises and the handlers, raced, do not keep *)

\* checkout.service.ts place(): "the same session must never create two orders".
OneOrderPerSession ==
    \A o1, o2 \in Orders : placedBy[o1] # None /\ placedBy[o1] = placedBy[o2] => o1 = o2

\* reconciliation.service.ts: it never expires an order the provider was paid for.
PaidAtProviderNeverExpires ==
    [][\A o \in Orders :
          ProviderSays(o, "captured") /\ status'[o] = "EXPIRED" => status[o] = "EXPIRED"]_vars
===============================================================================
