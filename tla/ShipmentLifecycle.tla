--------------------------- MODULE ShipmentLifecycle ---------------------------
(***************************************************************************)
(* The rules of shipmentStateMachine.ts: the legal edges of one parcel and *)
(* what all parcels of an order together say about the order.              *)
(***************************************************************************)
EXTENDS Integers, FiniteSets, Functions

\* SHIPMENT_TRANSITIONS: the successors of each status.
ShipmentTransitions ==
    [DRAFT                  |-> {"READY", "CANCELLED"},
     READY                  |-> {"AWB_ASSIGNED", "CANCELLED"},
     AWB_ASSIGNED           |-> {"PICKUP_SCHEDULED", "PICKED_UP", "CANCELLATION_REQUESTED", "CANCELLED"},
     PICKUP_SCHEDULED       |-> {"PICKED_UP", "CANCELLATION_REQUESTED", "CANCELLED"},
     PICKED_UP              |-> {"IN_TRANSIT", "OUT_FOR_DELIVERY", "DELIVERED", "UNDELIVERED", "LOST",
                                 "CANCELLATION_REQUESTED"},
     IN_TRANSIT             |-> {"OUT_FOR_DELIVERY", "DELIVERED", "UNDELIVERED", "RTO_INITIATED", "LOST",
                                 "CANCELLATION_REQUESTED"},
     OUT_FOR_DELIVERY       |-> {"DELIVERED", "UNDELIVERED", "IN_TRANSIT", "LOST"},
     UNDELIVERED            |-> {"OUT_FOR_DELIVERY", "IN_TRANSIT", "DELIVERED", "RTO_INITIATED", "LOST"},
     RTO_INITIATED          |-> {"RTO_DELIVERED", "IN_TRANSIT", "LOST"},
     CANCELLATION_REQUESTED |-> {"CANCELLED", "IN_TRANSIT", "DELIVERED", "RTO_INITIATED"},
     DELIVERED              |-> {},
     RTO_DELIVERED          |-> {},
     CANCELLED              |-> {},
     LOST                   |-> {}]

ShipmentStatuses == DOMAIN ShipmentTransitions

ShipmentCanMove(from, to) == to \in ShipmentTransitions[from]

\* assertTransition()
ShipmentMayMove(from, to) == from = to \/ ShipmentCanMove(from, to)

\* DISPATCHED_STATUSES: the unit has left us and is not coming back.
DispatchedStatuses ==
    {"PICKED_UP", "IN_TRANSIT", "OUT_FOR_DELIVERY", "UNDELIVERED", "DELIVERED", "CANCELLATION_REQUESTED"}

\* What mapProviderStatus() can make of a courier's words; "unknown" for the rest.
CourierStatuses ==
    {"READY", "AWB_ASSIGNED", "PICKUP_SCHEDULED", "PICKED_UP", "IN_TRANSIT", "OUT_FOR_DELIVERY",
     "DELIVERED", "UNDELIVERED", "RTO_INITIATED", "RTO_DELIVERED", "CANCELLED", "LOST", "unknown"}

\* The order while a parcel of it that is still `there` has not been delivered.
DeriveUndelivered(there) ==
    IF there = {} THEN "none"
    ELSE IF "OUT_FOR_DELIVERY" \in there THEN "OUT_FOR_DELIVERY"
    ELSE IF there \cap {"PICKED_UP", "IN_TRANSIT", "UNDELIVERED", "RTO_INITIATED", "DELIVERED"} # {} THEN "SHIPPED"
    ELSE IF there \cap {"AWB_ASSIGNED", "PICKUP_SCHEDULED", "READY"} # {} THEN "READY_TO_SHIP"
    ELSE "PROCESSING"

\* deriveOrderStatus(), from the statuses of the order's forward parcels.
DeriveOrderStatus(statuses, allItemsShipped) ==
    LET there == statuses \ {"CANCELLED"} IN
    IF allItemsShipped /\ there = {"DELIVERED"} THEN "DELIVERED" ELSE DeriveUndelivered(there)

\* The units of a line in those parcels whose status is one of a set.
UnitsIn(parcels, line, statuses) ==
    SumFunctionOnSet([p \in DOMAIN parcels |-> parcels[p].items[line]],
                     {p \in DOMAIN parcels : parcels[p].status \in statuses})
===============================================================================
