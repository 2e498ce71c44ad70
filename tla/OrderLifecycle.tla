---------------------------- MODULE OrderLifecycle ----------------------------
(***************************************************************************)
(* The order lifecycle of orderStateMachine.ts, as data: the legal edges   *)
(* and the guards a legal edge still has to satisfy.                       *)
(***************************************************************************)

OrderStatuses ==
    {"DRAFT", "PENDING_PAYMENT", "PAYMENT_FAILED", "CONFIRMED", "PROCESSING",
     "READY_TO_SHIP", "SHIPPED", "OUT_FOR_DELIVERY", "DELIVERED", "RETURN_REQUESTED",
     "RETURNED", "PARTIALLY_REFUNDED", "CANCELLED", "REFUNDED", "EXPIRED"}

PaymentStatuses ==
    {"PENDING", "AUTHORIZED", "CAPTURED", "FAILED", "EXPIRED", "REFUNDED", "PARTIALLY_REFUNDED"}

\* ORDER_TRANSITIONS: the successors of each status.
OrderTransitions ==
    [DRAFT              |-> {"PENDING_PAYMENT", "CONFIRMED", "CANCELLED", "EXPIRED"},
     PENDING_PAYMENT    |-> {"CONFIRMED", "PAYMENT_FAILED", "CANCELLED", "EXPIRED"},
     PAYMENT_FAILED     |-> {"PENDING_PAYMENT", "CONFIRMED", "CANCELLED", "EXPIRED"},
     CONFIRMED          |-> {"PROCESSING", "READY_TO_SHIP", "CANCELLED", "REFUNDED", "PARTIALLY_REFUNDED"},
     PROCESSING         |-> {"READY_TO_SHIP", "CANCELLED", "REFUNDED", "PARTIALLY_REFUNDED"},
     READY_TO_SHIP      |-> {"SHIPPED", "CANCELLED", "REFUNDED", "PARTIALLY_REFUNDED"},
     SHIPPED            |-> {"OUT_FOR_DELIVERY", "DELIVERED", "RETURN_REQUESTED", "PARTIALLY_REFUNDED"},
     OUT_FOR_DELIVERY   |-> {"DELIVERED", "RETURN_REQUESTED"},
     DELIVERED          |-> {"RETURN_REQUESTED", "PARTIALLY_REFUNDED", "REFUNDED"},
     RETURN_REQUESTED   |-> {"RETURNED", "DELIVERED"},
     RETURNED           |-> {"REFUNDED", "PARTIALLY_REFUNDED"},
     PARTIALLY_REFUNDED |-> {"REFUNDED"},
     CANCELLED          |-> {},
     REFUNDED           |-> {},
     EXPIRED            |-> {}]

CanTransition(from, to) == to \in OrderTransitions[from]

\* Statuses after which stock and coupon holds must no longer exist (L5).
ReleasingStatuses == {"PAYMENT_FAILED", "CANCELLED", "EXPIRED"}

\* Statuses that mean the order is real and must never be swept.
CommittedStatuses ==
    {"CONFIRMED", "PROCESSING", "READY_TO_SHIP", "SHIPPED", "OUT_FOR_DELIVERY", "DELIVERED",
     "RETURN_REQUESTED", "RETURNED", "REFUNDED", "PARTIALLY_REFUNDED"}

\* Faulty guards that let anybody confirm an unpaid order.
RefundGuardOnly(to, paymentStatus, paid, unpaidConfirmation) == to = "REFUNDED" => paid

\* GUARDS: an order is confirmed once captured, or unpaid when the caller is the
\* cash-on-delivery path; an order with nothing paid cannot be refunded.
GuardHolds(to, paymentStatus, paid, unpaidConfirmation) ==
    CASE to = "CONFIRMED" -> \/ paymentStatus = "CAPTURED"
                             \/ unpaidConfirmation /\ paymentStatus = "PENDING"
      [] to = "REFUNDED"  -> paid
      [] OTHER            -> TRUE
===============================================================================
