------------------------------ MODULE StockRules ------------------------------
(***************************************************************************)
(* The rules inventory.service.ts applies to one ProductVariant row while  *)
(* it holds that row's lock: what an adjustment, a reservation and a       *)
(* release check, and what they write.  A row is any record with at least  *)
(* the fields stockQty, reservedQty and allowBackorder.                    *)
(***************************************************************************)
EXTENDS Integers

\* A faulty adjust() that forgets the active reservations.
CanAdjustToZero(row, delta) == row.allowBackorder \/ row.stockQty + delta >= 0

\* adjust(): both floors, skipped together when the variant takes backorders.
CanAdjust(row, delta) ==
    \/ row.allowBackorder
    \/ /\ row.stockQty + delta >= 0
       /\ row.stockQty + delta >= row.reservedQty

AdjustedQty(row, delta) == row.stockQty + delta

\* A faulty reserve() that forgets what other orders hold.
CanReserveAlone(row, qty) == row.allowBackorder \/ qty <= row.stockQty

\* reserve(): the hold must fit in what is in stock.
CanReserve(row, qty) ==
    row.allowBackorder \/ row.reservedQty + qty <= row.stockQty

ReservedAfter(row, qty) == row.reservedQty + qty

\* release(): never more than the variant's active reservation.
Releasable(row, qty) == IF qty <= row.reservedQty THEN qty ELSE row.reservedQty

\* A faulty release() that trusts the quantity it is given.
ReleasedUnclamped(row, qty) == row.reservedQty - qty

ReleasedAfter(row, qty) == row.reservedQty - Releasable(row, qty)
===============================================================================
