-------------------------------- MODULE Returns --------------------------------
(***************************************************************************)
(* Returns of one line of a delivered order (return.service.ts). A request *)
(* is judged on a row read before, and written by id. complete() puts the  *)
(* goods back on the shelf, raises the refund and only then closes the     *)
(* return; the refund may be refused, and a clerk may try again or inspect *)
(* again. Refunds land later, on their own.                                *)
(***************************************************************************)
EXTENDS OrderLifecycle, Integers, FiniteSets, Functions

CONSTANTS
    ReturnIds,         \* return requests that may be raised
    UnitsSold,         \* OrderItem.qty, less the cancelled units
    Clerks,            \* requests in progress
    RefundRows,        \* refunds that returns may raise
    MaxReturnCrashes   \* bound: workers that die

ASSUME ReturnsAssumption ==
    /\ IsFiniteSet(ReturnIds) /\ IsFiniteSet(RefundRows)
    /\ UnitsSold \in Nat \ {0}
    /\ MaxReturnCrashes \in Nat

VARIABLES
    soldOrder,      \* the order: its status and the line's refundedQty
    return,         \* ReturnRequest rows with their item
    shelved,        \* units each return put back into stock
    owed,           \* refunds raised for returns
    clerk,          \* what each clerk does, and the row it has read
    returnCrashes

returnVars == <<soldOrder, return, shelved, owed, clerk, returnCrashes>>

ReturnStatuses ==
    {"NONE", "REQUESTED", "APPROVED", "PICKUP_SCHEDULED", "IN_TRANSIT", "RECEIVED", "INSPECTED",
     "COMPLETED", "REJECTED", "CANCELLED"}

\* RETURN_TRANSITIONS
ReturnTransitions ==
    [NONE             |-> {},
     REQUESTED        |-> {"APPROVED", "REJECTED", "CANCELLED"},
     APPROVED         |-> {"PICKUP_SCHEDULED", "IN_TRANSIT", "RECEIVED", "CANCELLED"},
     PICKUP_SCHEDULED |-> {"IN_TRANSIT", "RECEIVED", "CANCELLED"},
     IN_TRANSIT       |-> {"RECEIVED", "CANCELLED"},
     RECEIVED         |-> {"INSPECTED"},
     INSPECTED        |-> {"COMPLETED", "REJECTED"},
     COMPLETED        |-> {}, REJECTED |-> {}, CANCELLED |-> {}]

\* assertTransition: the status it already has is not refused.
MayTurn(from, to) == from = to \/ to \in ReturnTransitions[from]

ReturnRow ==
    [status: ReturnStatuses, asked: 0..UnitsSold, approved: 0..UnitsSold, received: 0..UnitsSold,
     fit: BOOLEAN,          \* RESELLABLE, and the inspector asked for a restock
     restocked: 0..UnitsSold]
NoReturn ==
    [status |-> "NONE", asked |-> 0, approved |-> 0, received |-> 0, fit |-> FALSE, restocked |-> 0]

ClerkSteps ==
    {"idle", "insert", "flag", "write", "restock", "count", "refund", "close", "restore"}
NoRefund == [of |-> "nobody", qty |-> 0, landed |-> FALSE]

ReturnsTypeOK ==
    /\ soldOrder \in [status: OrderStatuses, refunded: 0..UnitsSold]
    /\ return \in [ReturnIds -> ReturnRow]
    /\ shelved \in [ReturnIds -> Nat]
    /\ owed \in [RefundRows -> [of: ReturnIds \cup {"nobody"}, qty: 0..UnitsSold, landed: BOOLEAN]]
    /\ clerk \in [Clerks -> [at: ClerkSteps, of: ReturnIds \cup {"nobody"}, row: ReturnRow, saw: OrderStatuses]]
    /\ returnCrashes \in 0..MaxReturnCrashes

ClerkIdle ==
    [at |-> "idle", of |-> "nobody", row |-> NoReturn, saw |-> "DELIVERED"]

ReturnsInit ==
    /\ soldOrder = [status |-> "DELIVERED", refunded |-> 0]
    /\ return = [r \in ReturnIds |-> NoReturn]
    /\ shelved = [r \in ReturnIds |-> 0]
    /\ owed = [f \in RefundRows |-> NoRefund]
    /\ clerk = [c \in Clerks |-> ClerkIdle]
    /\ returnCrashes = 0

ClerkAt(c, step) == clerk[c].at = step
ClerkTo(c, step) == clerk' = [clerk EXCEPT ![c].at = step]
Finish(c) == clerk' = [clerk EXCEPT ![c] = ClerkIdle]
Settled == {"REJECTED", "CANCELLED", "COMPLETED"}

-------------------------------------------------------------------------------
(* create() *)

AskedBy(rows) == SumFunctionOnSet([r \in ReturnIds |-> return[r].asked], rows)

\* A faulty pool that forgets the returns that are complete.
AskedInOpen ==
    AskedBy({r \in ReturnIds : return[r].status \notin Settled})
\* returnedQtyByOrderItem: rejected and cancelled requests go back into the pool.
AskedFor ==
    AskedBy({r \in ReturnIds : return[r].status \notin {"REJECTED", "CANCELLED"}})
\* returnableQuantities
StillReturnable(qty) == qty + AskedFor + soldOrder.refunded <= UnitsSold

RaiseReturn(c, r, qty) ==
    /\ ClerkAt(c, "idle") /\ return[r].status = "NONE"
    /\ \A d \in Clerks : clerk[d].of = r => ~ClerkAt(d, "insert")
    /\ soldOrder.status \in {"DELIVERED", "RETURN_REQUESTED", "PARTIALLY_REFUNDED"}
    /\ StillReturnable(qty)
    /\ clerk' = [clerk EXCEPT ![c] = [at |-> "insert", of |-> r,
                    row |-> [NoReturn EXCEPT !.status = "REQUESTED", !.asked = qty],
                    saw |-> soldOrder.status]]
    /\ UNCHANGED <<soldOrder, return, shelved, owed, returnCrashes>>

InsertReturn(c) ==
    /\ ClerkAt(c, "insert")
    /\ return' = [return EXCEPT ![clerk[c].of] = clerk[c].row]
    /\ IF CanTransition(clerk[c].saw, "RETURN_REQUESTED") THEN ClerkTo(c, "flag") ELSE Finish(c)
    /\ UNCHANGED <<soldOrder, shelved, owed, returnCrashes>>

\* orderStateMachine.transition on the order as it was read.
FlagOrder(c) ==
    /\ ClerkAt(c, "flag")
    /\ soldOrder' = IF soldOrder.status = clerk[c].saw
                    THEN [soldOrder EXCEPT !.status = "RETURN_REQUESTED"] ELSE soldOrder
    /\ Finish(c)
    /\ UNCHANGED <<return, shelved, owed, returnCrashes>>

-------------------------------------------------------------------------------
(* approve(), markReceived(), inspect(), reject(), cancel() *)

\* The row as it was read, and what the clerk decides about it.
Decide(c, r, row) ==
    /\ ClerkAt(c, "idle")
    /\ MayTurn(return[r].status, row.status) /\ return[r].status # "NONE"
    /\ clerk' = [clerk EXCEPT ![c] = [ClerkIdle EXCEPT !.at = "write", !.of = r, !.row = row]]
    /\ UNCHANGED <<soldOrder, return, shelved, owed, returnCrashes>>

ApproveReturn(c, r, qty) ==
    qty <= return[r].asked /\ Decide(c, r, [return[r] EXCEPT !.status = "APPROVED", !.approved = qty])
ReceiveReturn(c, r) == Decide(c, r, [return[r] EXCEPT !.status = "RECEIVED"])
InspectReturn(c, r, qty, fit) ==
    /\ qty <= return[r].approved
    /\ Decide(c, r, [return[r] EXCEPT !.status = "INSPECTED", !.received = qty, !.fit = fit])
RejectReturn(c, r) == Decide(c, r, [return[r] EXCEPT !.status = "REJECTED"])
CancelReturn(c, r) == Decide(c, r, [return[r] EXCEPT !.status = "CANCELLED"])

\* A faulty cancellation that leaves the order waiting.
RestoreRejectedOnly(status) == status = "REJECTED"
RestoresOrder(status) == status \in {"REJECTED", "CANCELLED"}

\* Written by id, each handler its own columns.
WriteDecision(c) ==
    LET row == clerk[c].row  r == clerk[c].of IN
    /\ ClerkAt(c, "write")
    /\ return' = [return EXCEPT ![r].status = row.status,
                                ![r].approved = IF row.status = "APPROVED" THEN row.approved ELSE @,
                                ![r].received = IF row.status = "INSPECTED" THEN row.received ELSE @,
                                ![r].fit = IF row.status = "INSPECTED" THEN row.fit ELSE @]
    /\ IF RestoresOrder(row.status) THEN ClerkTo(c, "restore") ELSE Finish(c)
    /\ UNCHANGED <<soldOrder, shelved, owed, returnCrashes>>

\* restoreOrderStatus: when no return is outstanding any more.
RestoreOrder(c) ==
    /\ ClerkAt(c, "restore")
    /\ soldOrder' = IF /\ soldOrder.status = "RETURN_REQUESTED"
                       /\ \A r \in ReturnIds : return[r].status \in Settled \cup {"NONE"}
                    THEN [soldOrder EXCEPT !.status = "DELIVERED"] ELSE soldOrder
    /\ Finish(c)
    /\ UNCHANGED <<return, shelved, owed, returnCrashes>>

-------------------------------------------------------------------------------
(* complete() *)

StartComplete(c, r) ==
    /\ ClerkAt(c, "idle")
    /\ MayTurn(return[r].status, "COMPLETED") /\ return[r].status # "NONE"
    /\ clerk' = [clerk EXCEPT ![c] = [ClerkIdle EXCEPT !.at = "restock", !.of = r, !.row = return[r]]]
    /\ UNCHANGED <<soldOrder, return, shelved, owed, returnCrashes>>

\* A faulty restock that does not look at what is back already.
RestockAll(row) == row.received
Restockable(row) == IF row.fit /\ row.received > row.restocked THEN row.received - row.restocked ELSE 0

\* inventoryService.adjust; its failure is logged and the return goes on.
Restock(c) ==
    LET qty == Restockable(clerk[c].row) IN
    /\ ClerkAt(c, "restock")
    /\ IF qty = 0 THEN ClerkTo(c, "refund") /\ UNCHANGED shelved
       ELSE \/ ClerkTo(c, "count") /\ shelved' = [shelved EXCEPT ![clerk[c].of] = @ + qty]
            \/ ClerkTo(c, "refund") /\ UNCHANGED shelved
    /\ UNCHANGED <<soldOrder, return, owed, returnCrashes>>

CountRestocked(c) ==
    /\ ClerkAt(c, "count")
    /\ return' = [return EXCEPT ![clerk[c].of].restocked = clerk[c].row.received]
    /\ ClerkTo(c, "refund")
    /\ UNCHANGED <<soldOrder, shelved, owed, returnCrashes>>

\* refundService.request for the units received, if the clerk wants a refund. It is
\* judged on what has landed, and may be refused; then complete() ends here.
RaiseRefund(c) ==
    LET qty == clerk[c].row.received IN
    /\ ClerkAt(c, "refund")
    /\ \/ ClerkTo(c, "close") /\ UNCHANGED owed
       \/ /\ qty > 0
          /\ \/ Finish(c) /\ UNCHANGED owed
             \/ \E f \in RefundRows :
                   /\ owed[f] = NoRefund /\ soldOrder.refunded + qty <= UnitsSold
                   /\ owed' = [owed EXCEPT ![f] = [of |-> clerk[c].of, qty |-> qty, landed |-> FALSE]]
                   /\ ClerkTo(c, "close")
    /\ UNCHANGED <<soldOrder, return, shelved, returnCrashes>>

CloseReturn(c) ==
    /\ ClerkAt(c, "close")
    /\ return' = [return EXCEPT ![clerk[c].of].status = "COMPLETED"]
    /\ Finish(c)
    /\ UNCHANGED <<soldOrder, shelved, owed, returnCrashes>>


\* A refund is executed (module Refunds): refundedQty, bounded by the line, and the order.
RefundLands(f) ==
    /\ owed[f] # NoRefund /\ ~owed[f].landed
    /\ owed' = [owed EXCEPT ![f].landed = TRUE]
    /\ \E to \in {"PARTIALLY_REFUNDED", "REFUNDED"} :
          soldOrder' =
             [status |-> IF CanTransition(soldOrder.status, to) THEN to ELSE soldOrder.status,
              refunded |-> IF soldOrder.refunded + owed[f].qty <= UnitsSold
                           THEN soldOrder.refunded + owed[f].qty ELSE soldOrder.refunded]
    /\ UNCHANGED <<return, shelved, clerk, returnCrashes>>

ClerkDies(c) ==
    /\ returnCrashes < MaxReturnCrashes /\ ~ClerkAt(c, "idle")
    /\ Finish(c)
    /\ returnCrashes' = returnCrashes + 1
    /\ UNCHANGED <<soldOrder, return, shelved, owed>>

ReturnsNext ==
    \/ \E c \in Clerks, r \in ReturnIds, qty \in 0..UnitsSold :
          \/ qty > 0 /\ RaiseReturn(c, r, qty)
          \/ ApproveReturn(c, r, qty)
          \/ \E fit \in BOOLEAN : InspectReturn(c, r, qty, fit)
    \/ \E c \in Clerks, r \in ReturnIds :
          \/ ReceiveReturn(c, r) \/ RejectReturn(c, r) \/ CancelReturn(c, r) \/ StartComplete(c, r)
    \/ \E c \in Clerks :
          \/ InsertReturn(c) \/ FlagOrder(c) \/ WriteDecision(c) \/ RestoreOrder(c) \/ Restock(c)
          \/ CountRestocked(c) \/ RaiseRefund(c) \/ CloseReturn(c) \/ ClerkDies(c)
    \/ \E f \in RefundRows : RefundLands(f)

ReturnsSpec == ReturnsInit /\ [][ReturnsNext]_returnVars

-------------------------------------------------------------------------------
\* "The same chair cannot be returned twice" (rule 1): however returns are raised,
\* refused, completed, refunded and raised again, no more units are on their way back
\* or back than the line sold. And goods go back on the shelf once: whatever is completed
\* again after a refused refund or inspected again, a return never shelves more units than
\* were approved. (A worker that dies between the adjustment and the count of it makes the
\* code shelve them again.)
NeverOverReturned ==
    LET kept == {r \in ReturnIds : return[r].status \in ReturnStatuses \ {"NONE", "REJECTED", "CANCELLED"}}
    IN  /\ AskedBy(kept) <= UnitsSold
        /\ returnCrashes = 0 => \A r \in ReturnIds : shelved[r] <= return[r].approved

\* restoreOrderStatus: an order does not wait for goods nobody sends; once the clerks
\* rest and none of them died, an order in RETURN_REQUESTED has a return that was
\* neither rejected nor cancelled.
WaitsForGoods ==
    (soldOrder.status = "RETURN_REQUESTED" /\ returnCrashes = 0 /\ \A c \in Clerks : ClerkAt(c, "idle"))
    => \E r \in ReturnIds : return[r].status \notin {"NONE", "REJECTED", "CANCELLED"}

\* A return refunds the units that came back, once: COMPLETED is terminal.
RefundedOnce ==
    \A r \in ReturnIds :
        SumFunctionOnSet([f \in RefundRows |-> owed[f].qty], {f \in RefundRows : owed[f].of = r}) <= return[r].approved
===============================================================================
