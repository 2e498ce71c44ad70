------------------------------- MODULE Shipments -------------------------------
(***************************************************************************)
(* The parcels of one confirmed order (shipment.service.ts, the journal of *)
(* providerGateway.service.ts, tracking.service.ts). Staff create, label,  *)
(* cancel and move parcels; the courier's webhooks and polls move them     *)
(* too, in any order. Whoever changed a parcel then derives the order's    *)
(* fulfilment and status from all of them. A step of a worker is one       *)
(* statement; a worker may die between two.                                *)
(***************************************************************************)
EXTENDS ShipmentLifecycle, OrderLifecycle

CONSTANTS
    Lines,           \* the order's lines
    Ordered,         \* units of each line, less the cancelled ones
    MaxParcels,      \* bound: shipment rows of the order
    Desks,           \* workers: requests of staff, webhook deliveries, polls
    CourierFailures, \* how the courier's createOrder may fail
    ByHand,          \* statuses staff set by hand
    Says,            \* statuses a courier reports
    CashOnDelivery,  \* the order has a COD payment
    MaxShipmentCrashes

Parcels == 1..MaxParcels

ASSUME ShipmentsAssumption ==
    /\ Lines # {} /\ Ordered \in [Lines -> Nat \ {0}]
    /\ MaxParcels \in Nat \ {0}
    /\ CourierFailures \subseteq {"VALIDATION", "TIMEOUT"}
    /\ ByHand \subseteq ShipmentStatuses
    /\ Says \subseteq CourierStatuses
    /\ CashOnDelivery \in BOOLEAN
    /\ MaxShipmentCrashes \in Nat

VARIABLES
    orderStatus,     \* Order.status
    fulfilled,       \* OrderItem.fulfilledQty
    parcel,          \* Shipment rows with their items
    journal,         \* ProviderOperation of each parcel's createOrder
    courierParcels,  \* orders the courier made for each shipment (external)
    desk,            \* what each worker does, and what it has read
    shipmentCrashes

shipmentVars ==
    <<orderStatus, fulfilled, parcel, journal, courierParcels, desk, shipmentCrashes>>
parcelRows == <<parcel, journal, courierParcels>>
orderRow == <<orderStatus, fulfilled>>

NoItems == [l \in Lines |-> 0]
NoParcel == [status |-> "NONE", items |-> NoItems, registered |-> FALSE, awb |-> FALSE, cod |-> FALSE]

ParcelRow ==
    [status: ShipmentStatuses \cup {"NONE"}, items: [Lines -> Nat],
     registered: BOOLEAN,   \* providerShipmentId is set
     awb: BOOLEAN,          \* awbNumber is set
     cod: BOOLEAN]          \* codAmountPaise > 0

JournalStates == {"none", "PENDING", "SUCCESS", "VALIDATION", "TIMEOUT"}

DeskSteps ==
    {"idle", "count", "insert", "ready", "reread", "claim", "call", "finish", "record", "label",
     "courier", "write", "sync", "fulfil", "book", "derive", "move"}

DeskRecord ==
    [at: DeskSteps,
     of: Parcels,                               \* the parcel it is about
     row: ParcelRow,                            \* that parcel as it was read
     to: ShipmentStatuses \cup OrderStatuses \cup JournalStates \cup {"manual", "courier"},
     owns: BOOLEAN,                             \* it claimed the journal entry itself
     saw: OrderStatuses, statuses: SUBSET ShipmentStatuses, \* what the derivation has read
     units: [Lines -> Nat]]

AtRest ==
    [at |-> "idle", of |-> 1, row |-> NoParcel, to |-> "none", owns |-> FALSE,
     saw |-> "CONFIRMED", statuses |-> {}, units |-> NoItems]

ShipmentsTypeOK ==
    /\ orderStatus \in OrderStatuses
    /\ fulfilled \in [Lines -> Nat]
    /\ parcel \in [Parcels -> ParcelRow]
    /\ journal \in [Parcels -> JournalStates]
    /\ courierParcels \in [Parcels -> Nat]
    /\ desk \in [Desks -> DeskRecord]
    /\ shipmentCrashes \in 0..MaxShipmentCrashes

ShipmentsInit ==
    /\ orderStatus = "CONFIRMED"
    /\ fulfilled = NoItems
    /\ parcel = [p \in Parcels |-> NoParcel]
    /\ journal = [p \in Parcels |-> "none"]
    /\ courierParcels = [p \in Parcels |-> 0]
    /\ desk = [d \in Desks |-> AtRest]
    /\ shipmentCrashes = 0

At(d, step) == desk[d].at = step
GoTo(d, step) == desk' = [desk EXCEPT ![d].at = step]
Stop(d) == desk' = [desk EXCEPT ![d] = AtRest]

Written == {p \in Parcels : parcel[p].status # "NONE"}

-------------------------------------------------------------------------------
(* create() *)

\* A faulty pool that takes units back before the courier agreed to cancel.
Reclaimed == {"NONE", "CANCELLED", "CANCELLATION_REQUESTED"}
\* shippedQtyByOrderItem(): everything but cancelled parcels counts.
NotShipped == {"NONE", "CANCELLED"}

Remaining(line) ==
    LET shipped == UnitsIn(parcel, line, ShipmentStatuses \ NotShipped) IN
    IF shipped < Ordered[line] THEN Ordered[line] - shipped ELSE 0

ShippableStatuses == {"CONFIRMED", "PROCESSING", "READY_TO_SHIP", "SHIPPED", "OUT_FOR_DELIVERY"}

\* Reads the order and what remains of it, and validates the lines asked for.
CreateParcel(d, items) ==
    /\ At(d, "idle")
    /\ Written # Parcels
    /\ orderStatus \in ShippableStatuses
    /\ items # NoItems /\ \A l \in Lines : items[l] <= Remaining(l)
    /\ desk' = [desk EXCEPT ![d].at = "count", ![d].row.items = items]
    /\ UNCHANGED <<parcelRows, orderRow, shipmentCrashes>>

\* A faulty count of the parcels that are on the road.
OnTheRoad == {p \in Parcels : parcel[p].status \in DispatchedStatuses}
\* COD is collected on the first parcel only, counting those that are not cancelled.
CountedParcels == {p \in Parcels : parcel[p].status \notin {"NONE", "CANCELLED"}}

CountParcels(d) ==
    /\ At(d, "count")
    /\ desk' = [desk EXCEPT ![d].at = "insert",
                            ![d].row.cod = CashOnDelivery /\ CountedParcels = {}]
    /\ UNCHANGED <<parcelRows, orderRow, shipmentCrashes>>

InsertParcel(d) ==
    /\ At(d, "insert")
    /\ Written # Parcels
    /\ \E p \in Parcels \ Written :
       /\ \A q \in Parcels \ Written : p <= q
       /\ parcel' = [parcel EXCEPT ![p] = [desk[d].row EXCEPT !.status = "DRAFT"]]
       /\ desk' = [desk EXCEPT ![d] = [AtRest EXCEPT !.at = "sync", !.of = p]]
    /\ UNCHANGED <<journal, courierParcels, orderRow, shipmentCrashes>>

-------------------------------------------------------------------------------
(* assignAwb() and the operation journal *)

\* Every handler of an existing parcel starts from the row it reads.
Take(d, p, step, to) ==
    /\ At(d, "idle") /\ p \in Written
    /\ desk' = [desk EXCEPT ![d] = [AtRest EXCEPT !.at = step, !.of = p, !.row = parcel[p], !.to = to]]
    /\ UNCHANGED <<parcelRows, orderRow, shipmentCrashes>>

\* With the courier's system, or with a docket number somebody wrote down.
AssignAwb(d, p, by) ==
    /\ ~parcel[p].awb
    /\ Take(d, p, IF parcel[p].status = "DRAFT" THEN "ready" ELSE "reread", by)

PromoteDraft(d) ==
    /\ At(d, "ready")
    /\ parcel' = [parcel EXCEPT ![desk[d].of].status = "READY"]
    /\ GoTo(d, "reread")
    /\ UNCHANGED <<journal, courierParcels, orderRow, shipmentCrashes>>

\* The row is read again for the assertion; registration is judged on the first read.
RereadParcel(d) ==
    /\ At(d, "reread")
    /\ IF ShipmentMayMove(parcel[desk[d].of].status, "AWB_ASSIGNED")
       THEN GoTo(d, IF desk[d].to = "manual" \/ desk[d].row.registered THEN "label" ELSE "claim")
       ELSE Stop(d)
    /\ UNCHANGED <<parcelRows, orderRow, shipmentCrashes>>

\* A faulty journal that takes a timeout for a refusal.
AnyFailureRepeats(entry) == entry \in {"VALIDATION", "TIMEOUT"}
\* Only a call the courier refused as invalid may be repeated.
SafeToRepeat(entry) == entry = "VALIDATION"

\* The key is unique: whoever repeats a call has no entry of its own to finish.
ClaimOperation(d) ==
    LET entry == journal[desk[d].of] IN
    /\ At(d, "claim")
    /\ IF entry = "none"
       THEN /\ journal' = [journal EXCEPT ![desk[d].of] = "PENDING"]
            /\ desk' = [desk EXCEPT ![d].at = "call", ![d].owns = TRUE]
       ELSE /\ IF SafeToRepeat(entry) THEN GoTo(d, "call") ELSE Stop(d)
            /\ UNCHANGED journal
    /\ UNCHANGED <<parcel, courierParcels, orderRow, shipmentCrashes>>

\* A call that times out may have succeeded all the same.
CallCourier(d) ==
    /\ At(d, "call")
    /\ \E outcome \in CourierFailures \cup {"SUCCESS"} :
          /\ desk' = [desk EXCEPT ![d].at = "finish", ![d].to = outcome]
          /\ \E made \in CASE outcome = "SUCCESS"    -> {1}
                           [] outcome = "TIMEOUT"    -> {0, 1}
                           [] outcome = "VALIDATION" -> {0} :
                courierParcels' = [courierParcels EXCEPT ![desk[d].of] = @ + made]
    /\ UNCHANGED <<parcel, journal, orderRow, shipmentCrashes>>

FinishOperation(d) ==
    /\ At(d, "finish")
    /\ journal' = IF desk[d].owns THEN [journal EXCEPT ![desk[d].of] = desk[d].to] ELSE journal
    /\ IF desk[d].to = "SUCCESS" THEN GoTo(d, "record") ELSE Stop(d)
    /\ UNCHANGED <<parcel, courierParcels, orderRow, shipmentCrashes>>

RecordRegistration(d) ==
    /\ At(d, "record")
    /\ parcel' = [parcel EXCEPT ![desk[d].of].registered = TRUE, ![desk[d].of].status = "READY"]
    /\ GoTo(d, "label")
    /\ UNCHANGED <<journal, courierParcels, orderRow, shipmentCrashes>>

\* The courier refuses the number, or it is written by id.
LabelParcel(d) ==
    /\ At(d, "label")
    /\ \/ /\ parcel' = [parcel EXCEPT ![desk[d].of].awb = TRUE, ![desk[d].of].status = "AWB_ASSIGNED"]
          /\ GoTo(d, "sync")
       \/ desk[d].to # "manual" /\ Stop(d) /\ UNCHANGED parcel
    /\ UNCHANGED <<journal, courierParcels, orderRow, shipmentCrashes>>

-------------------------------------------------------------------------------
(* schedulePickup(), cancel(), setStatus(), and what the courier reports *)

KnownToCourier(p) == parcel[p].registered \/ parcel[p].awb

SchedulePickup(d, p) ==
    /\ parcel[p].status # "NONE" /\ ShipmentMayMove(parcel[p].status, "PICKUP_SCHEDULED")
    /\ parcel[p].registered
    /\ Take(d, p, "courier", "PICKUP_SCHEDULED")

CollectedStatuses == {"PICKED_UP", "IN_TRANSIT", "OUT_FOR_DELIVERY", "UNDELIVERED"}

CancelParcel(d, p) ==
    LET to == IF parcel[p].status \in CollectedStatuses THEN "CANCELLATION_REQUESTED" ELSE "CANCELLED" IN
    /\ parcel[p].status \notin {"NONE", "CANCELLED", "DELIVERED", "RTO_DELIVERED"}
    /\ ShipmentMayMove(parcel[p].status, to)
    /\ Take(d, p, IF KnownToCourier(p) THEN "courier" ELSE "write", to)

\* The courier is asked; a refusal stops everything but a mere request.
AskCourier(d) ==
    /\ At(d, "courier")
    /\ \/ GoTo(d, "write")
       \/ desk[d].to # "CANCELLATION_REQUESTED" /\ Stop(d)
    /\ UNCHANGED <<parcelRows, orderRow, shipmentCrashes>>

\* Staff's form offers every status; the edge is all that is asked.
SetParcelStatus(d, p, to) ==
    /\ parcel[p].status # "NONE" /\ ShipmentMayMove(parcel[p].status, to)
    /\ Take(d, p, "write", to)

\* findByProviderRef: by either id, or by the reference a forgotten order carries.
FoundByCourier(p) == KnownToCourier(p) \/ courierParcels[p] > 0

\* applyUpdate(): unknown, repeated and illegal statuses leave the parcel alone.
CourierReports(d, p, to) ==
    /\ parcel[p].status # "NONE" /\ FoundByCourier(p)
    /\ to # "unknown" /\ ShipmentCanMove(parcel[p].status, to)
    /\ Take(d, p, "write", to)

\* A faulty write that leaves the order to the next change.
WriteQuietly(d) ==
    /\ At(d, "write")
    /\ parcel' = [parcel EXCEPT ![desk[d].of].status = desk[d].to]
    /\ Stop(d)
    /\ UNCHANGED <<journal, courierParcels, orderRow, shipmentCrashes>>

\* The new status is written by id, whatever the row says by now.
WriteStatus(d) ==
    /\ At(d, "write")
    /\ parcel' = [parcel EXCEPT ![desk[d].of].status = desk[d].to]
    /\ GoTo(d, "sync")
    /\ UNCHANGED <<journal, courierParcels, orderRow, shipmentCrashes>>

-------------------------------------------------------------------------------
(* syncOrderStatus() and syncFulfillment() *)

\* Reads the order and its parcels.
ReadParcels(d) ==
    /\ At(d, "sync")
    /\ desk' = [desk EXCEPT ![d] = [AtRest EXCEPT !.at = "fulfil", !.saw = orderStatus,
                                                  !.statuses = {parcel[p].status : p \in Written}]]
    /\ UNCHANGED <<parcelRows, orderRow, shipmentCrashes>>

Lesser(m, n) == IF m < n THEN m ELSE n
UnitsOut(line) == Lesser(UnitsIn(parcel, line, DispatchedStatuses), Ordered[line])

\* syncFulfillment() reads the parcels again.
ReadFulfilment(d) ==
    /\ At(d, "fulfil")
    /\ desk' = [desk EXCEPT ![d].at = "book", ![d].units = [l \in Lines |-> UnitsOut(l)]]
    /\ UNCHANGED <<parcelRows, orderRow, shipmentCrashes>>

\* A faulty counter that only ever grows.
BookOnlyMore(d) ==
    /\ At(d, "book")
    /\ fulfilled' = [l \in Lines |-> Lesser(Ordered[l], fulfilled[l] + desk[d].units[l])]
    /\ GoTo(d, "derive")
    /\ UNCHANGED <<parcelRows, orderStatus, shipmentCrashes>>

BookFulfilment(d) ==
    /\ At(d, "book")
    /\ fulfilled' = desk[d].units
    /\ GoTo(d, "derive")
    /\ UNCHANGED <<parcelRows, orderStatus, shipmentCrashes>>

\* What remains is read now, the statuses were read before the fulfilment.
DeriveStatus(d) ==
    LET to == DeriveOrderStatus(desk[d].statuses, \A l \in Lines : Remaining(l) = 0) IN
    /\ At(d, "derive")
    /\ IF to # "none" /\ to # desk[d].saw /\ CanTransition(desk[d].saw, to)
       THEN desk' = [desk EXCEPT ![d].at = "move", ![d].to = to]
       ELSE Stop(d)
    /\ UNCHANGED <<parcelRows, orderRow, shipmentCrashes>>

\* orderRepository.transitionStatus(): a compare-and-set on the status it saw.
MoveOrder(d) ==
    /\ At(d, "move")
    /\ orderStatus' = IF orderStatus = desk[d].saw THEN desk[d].to ELSE orderStatus
    /\ Stop(d)
    /\ UNCHANGED <<parcelRows, fulfilled, shipmentCrashes>>

-------------------------------------------------------------------------------

\* The customer or an administrator cancels the order; the parcels are not asked.
CancelOrder ==
    /\ CanTransition(orderStatus, "CANCELLED")
    /\ orderStatus' = "CANCELLED"
    /\ UNCHANGED <<parcelRows, fulfilled, desk, shipmentCrashes>>

DeskDies(d) ==
    /\ shipmentCrashes < MaxShipmentCrashes /\ ~At(d, "idle")
    /\ Stop(d)
    /\ shipmentCrashes' = shipmentCrashes + 1
    /\ UNCHANGED <<parcelRows, orderRow>>

Deciding(d) ==
    \/ \E items \in [Lines -> UNION {0..Ordered[l] : l \in Lines}] : CreateParcel(d, items)
    \/ \E p \in Parcels :
          \/ \E by \in {"manual", "courier"} : AssignAwb(d, p, by)
          \/ SchedulePickup(d, p) \/ CancelParcel(d, p)
          \/ \E to \in ByHand : SetParcelStatus(d, p, to)
          \/ \E to \in Says : CourierReports(d, p, to)

Working(d) ==
    \/ CountParcels(d) \/ InsertParcel(d)
    \/ PromoteDraft(d) \/ RereadParcel(d) \/ ClaimOperation(d) \/ CallCourier(d)
    \/ FinishOperation(d) \/ RecordRegistration(d) \/ LabelParcel(d)
    \/ AskCourier(d) \/ WriteStatus(d)
    \/ ReadParcels(d) \/ ReadFulfilment(d) \/ BookFulfilment(d) \/ DeriveStatus(d) \/ MoveOrder(d)

ShipmentsNext ==
    \/ \E d \in Desks : Deciding(d) \/ Working(d) \/ DeskDies(d)
    \/ CancelOrder

ShipmentsSpec == ShipmentsInit /\ [][ShipmentsNext]_shipmentVars

-------------------------------------------------------------------------------
\* "The entire defence against over-shipping" (shipment.repository.ts:99): the parcels
\* that are not cancelled never hold more of a line than was ordered, whatever is
\* cancelled, returned to its origin or lost on the way, and whoever dies halfway. And
\* "COD is collected once, on the first parcel" (create): the courier is never asked to
\* collect the amount with two parcels that are both under way.
NeverOverShipped ==
    /\ \A l \in Lines : UnitsIn(parcel, l, ShipmentStatuses \ {"CANCELLED"}) <= Ordered[l]
    /\ \A p, q \in CountedParcels : parcel[p].cod /\ parcel[q].cod => p = q

Quiet == shipmentCrashes = 0 /\ \A d \in Desks : At(d, "idle")

EverythingArrived == \A l \in Lines : UnitsIn(parcel, l, {"DELIVERED"}) = Ordered[l]

OnTheWay == {"PICKED_UP", "IN_TRANSIT", "OUT_FOR_DELIVERY", "UNDELIVERED", "RTO_INITIATED"}

\* Staff may ask a parcel back that the courier has not collected; cancel() never does.
AskedBackByHand == "CANCELLATION_REQUESTED" \in ByHand

\* "Delivered" stays honest when one of three boxes is still in transit
\* (syncOrderStatus): an order is DELIVERED only when every unit of it has arrived. Once
\* nobody is at work, an order with a parcel on the road has been told so, on whatever
\* path the parcels went: a status without an edge to SHIPPED would keep it open for
\* good. Once everything has arrived it is DELIVERED, with one exception that the code
\* makes: READY_TO_SHIP has no edge to DELIVERED, so an order whose only parcel staff
\* asked back from its label and the courier then delivered all the same stays
\* READY_TO_SHIP. "A stored counter drifts" (deriveFulfilledQuantities): after any
\* sequence of moves, cancellations and returns to origin the stored fulfilledQty is
\* what the parcels say.
OrderFollowsParcels ==
    /\ orderStatus = "DELIVERED" => EverythingArrived
    /\ Quiet /\ (\E p \in Parcels : parcel[p].status \in OnTheWay) =>
          orderStatus \in {"SHIPPED", "OUT_FOR_DELIVERY", "DELIVERED", "CANCELLED"}
    /\ Quiet /\ EverythingArrived =>
          \/ orderStatus \in {"DELIVERED", "CANCELLED"}
          \/ /\ AskedBackByHand /\ orderStatus = "READY_TO_SHIP"
             /\ \A p, q \in CountedParcels : p = q
    /\ Quiet => \A l \in Lines : fulfilled[l] = UnitsOut(l)

\* "The same key must never create a second provider order" (schema.prisma:2375): the
\* courier holds at most one order for a shipment, however often its label is asked
\* for, also when calls time out after they succeeded and workers die after a call.
OneOrderAtCourier == \A p \in Parcels : courierParcels[p] <= 1
===============================================================================
