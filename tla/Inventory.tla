------------------------------- MODULE Inventory -------------------------------
(***************************************************************************)
(* The stock ledger of the catalogue: the ProductVariant row, the          *)
(* append-only InventoryLedger, and everybody who writes them.             *)
(*                                                                         *)
(* inventory.service.ts runs adjust, reserve and release in one            *)
(* transaction opened by SELECT ... FOR UPDATE on the variant row, so each *)
(* is one atomic action here.  variant.admin.service.ts takes the          *)
(* *product* lock instead and reads the variant before it writes it, so    *)
(* its update and its removal are two steps with the read value kept in    *)
(* between.  A refused call changes nothing and is a stuttering step.      *)
(***************************************************************************)
EXTENDS Integers, Sequences, StockRules

CONSTANTS
    Variants,       \* variant ids of one product
    MadeToOrder,    \* the variants whose product is built per order
    Admins,         \* administrators editing variants concurrently
    Deltas,         \* stock movements an operator may enter
    Targets,        \* absolute balances an operator or a CSV row may set
    Quantities,     \* quantities an order reserves or releases
    LowStock,       \* lowStockThreshold of every variant
    Unchecked,      \* the absent expectedBalance
    MaxMoves,       \* bound: ledger rows per variant
    MaxQty,         \* bound: |stockQty| and reservedQty
    MaxVersion      \* bound: edits of one variant

ASSUME InventoryAssumption ==
    /\ MadeToOrder \subseteq Variants
    /\ Deltas \subseteq Int
    /\ Targets \subseteq Nat
    /\ Quantities \subseteq Nat \ {0}
    /\ LowStock \in Nat
    /\ MaxVersion \in Nat
    /\ MaxMoves \in Nat
    /\ MaxQty \in Nat

VARIABLES
    row,      \* ProductVariant: balance, holds, policy, derived status
    ledger,   \* InventoryLedger rows of each variant, oldest first
    edit,     \* the update() each administrator has in flight
    removal   \* the variant whose remove() holds the product lock, if any

vars == <<row, ledger, edit, removal>>

StockStatuses == {"IN_STOCK", "LOW_STOCK", "OUT_OF_STOCK", "PREORDER", "MADE_TO_ORDER"}

\* stockStatusFor(): the display status of a balance under a policy.
StockStatusFor(v, qty, backorder) ==
    IF v \in MadeToOrder THEN "MADE_TO_ORDER"
    ELSE IF qty <= 0 THEN IF backorder THEN "PREORDER" ELSE "OUT_OF_STOCK"
    ELSE IF qty <= LowStock THEN "LOW_STOCK"
    ELSE "IN_STOCK"

NoEdit == [state |-> "idle"]

Row == [stockQty: Int, reservedQty: Nat, allowBackorder: BOOLEAN,
        stockStatus: StockStatuses, version: Nat, deleted: BOOLEAN]

Entry == [delta: Int, balanceAfter: Int]

Edit == {NoEdit} \cup
        [state: {"read"}, variant: Variants, version: Nat,
         allowBackorder: BOOLEAN, stockStatus: StockStatuses]

\* A variant is created with an empty position; its opening stock is an adjust().
Init ==
    /\ \E policy \in [Variants -> BOOLEAN] :
          row = [v \in Variants |->
                   [stockQty |-> 0, reservedQty |-> 0, allowBackorder |-> policy[v],
                    stockStatus |-> StockStatusFor(v, 0, policy[v]),
                    version |-> 0, deleted |-> FALSE]]
    /\ ledger = [v \in Variants |-> <<>>]
    /\ edit = [a \in Admins |-> NoEdit]
    /\ removal = {}

-------------------------------------------------------------------------------
(* inventory.service.ts *)

\* adjust(): balance, derived status and ledger row commit together.
Adjust(v, delta, expected) ==
    /\ ~row[v].deleted
    /\ expected = Unchecked \/ expected = row[v].stockQty
    /\ CanAdjust(row[v], delta)
    /\ Len(ledger[v]) < MaxMoves /\ AdjustedQty(row[v], delta) \in -MaxQty..MaxQty
    /\ LET next == AdjustedQty(row[v], delta) IN
       /\ row' = [row EXCEPT ![v].stockQty = next,
                             ![v].stockStatus = StockStatusFor(v, next, row[v].allowBackorder)]
       /\ ledger' = [ledger EXCEPT ![v] = Append(@, [delta |-> delta, balanceAfter |-> next])]
    /\ UNCHANGED <<edit, removal>>

\* adjust() called with an absolute figure: setAbsolute() and the CSV import.
SetAbsolute(v, target, expected) == Adjust(v, target - row[v].stockQty, expected)

\* A faulty reserve() that takes the units out of the stock itself.
ReserveFromStock(v, qty) ==
    /\ ~row[v].deleted
    /\ CanReserve(row[v], qty)
    /\ row' = [row EXCEPT ![v].stockQty = row[v].stockQty - qty]
    /\ UNCHANGED <<ledger, edit, removal>>

Reserve(v, qty) ==
    /\ ~row[v].deleted
    /\ CanReserve(row[v], qty)
    /\ ReservedAfter(row[v], qty) <= MaxQty
    /\ row' = [row EXCEPT ![v].reservedQty = ReservedAfter(row[v], qty)]
    /\ UNCHANGED <<ledger, edit, removal>>

Release(v, qty) ==
    /\ ~row[v].deleted
    /\ Releasable(row[v], qty) # 0
    /\ row' = [row EXCEPT ![v].reservedQty = ReleasedAfter(row[v], qty)]
    /\ UNCHANGED <<ledger, edit, removal>>

-------------------------------------------------------------------------------
(* variant.admin.service.ts *)

\* update(), up to the product lock: the row is read and the new status derived
\* from that balance.  The version is the one the administrator's form carries.
ReadForUpdate(a, v, backorder) ==
    /\ edit[a] = NoEdit
    /\ ~row[v].deleted /\ row[v].version < MaxVersion
    /\ \E version \in 0..row[v].version :
          edit' = [edit EXCEPT ![a] =
                     [state |-> "read", variant |-> v, version |-> version,
                      allowBackorder |-> backorder,
                      stockStatus |-> StockStatusFor(v, row[v].stockQty, backorder)]]
    /\ UNCHANGED <<row, ledger, removal>>

EditedRow(r, e) == [r EXCEPT !.allowBackorder = e.allowBackorder,
                             !.stockStatus = e.stockStatus,
                             !.version = @ + 1]

\* update(), under the product lock: updateVersioned() writes only when the
\* version still matches; a mismatch is 409 STALE_RESOURCE.
WriteUpdate(a) ==
    /\ edit[a] # NoEdit
    /\ removal = {}
    /\ LET v == edit[a].variant IN
          row' = IF edit[a].version = row[v].version
                 THEN [row EXCEPT ![v] = EditedRow(row[v], edit[a])]
                 ELSE row
    /\ edit' = [edit EXCEPT ![a] = NoEdit]
    /\ UNCHANGED <<ledger, removal>>

\* remove(), under the product lock: the check reads the variant row without
\* locking that row ...
CheckRemovable(v) ==
    /\ removal = {}
    /\ ~row[v].deleted
    /\ row[v].reservedQty = 0
    /\ removal' = {v}
    /\ UNCHANGED <<row, ledger, edit>>

\* ... and the soft delete follows in the same transaction.
Remove(v) ==
    /\ v \in removal
    /\ row' = [row EXCEPT ![v].deleted = TRUE]
    /\ removal' = {}
    /\ UNCHANGED <<ledger, edit>>

-------------------------------------------------------------------------------
Expectations == {Unchecked} \cup (-MaxQty..MaxQty)

Next ==
    \/ \E v \in Variants, expected \in Expectations :
          \/ \E delta \in Deltas : Adjust(v, delta, expected)
          \/ \E target \in Targets : SetAbsolute(v, target, expected)
    \/ \E v \in Variants, qty \in Quantities : Reserve(v, qty) \/ Release(v, qty)
    \/ \E a \in Admins, v \in Variants, backorder \in BOOLEAN : ReadForUpdate(a, v, backorder)
    \/ \E a \in Admins : WriteUpdate(a)
    \/ \E v \in Variants : CheckRemovable(v) \/ Remove(v)

Spec == Init /\ [][Next]_vars

-------------------------------------------------------------------------------
TypeOK ==
    /\ row \in [Variants -> Row]
    /\ ledger \in [Variants -> Seq(Entry)]
    /\ edit \in [Admins -> Edit]
    /\ removal \subseteq Variants

Balance(v, i) == IF i = 0 THEN 0 ELSE ledger[v][i].balanceAfter

\* The ledger is self-auditing: every row's balanceAfter is the previous
\* balance plus its delta, and the last one is the variant's stockQty.  Nothing
\* but adjust() may move the balance, whatever edits and holds interleave.
LedgerIsRunningTotal ==
    \A v \in Variants :
       /\ \A i \in 1..Len(ledger[v]) :
             ledger[v][i].balanceAfter = Balance(v, i - 1) + ledger[v][i].delta
       /\ row[v].stockQty = Balance(v, Len(ledger[v]))

\* 0 <= reservedQty <= stockQty while the variant takes no backorders.
WithinFloor(r) == r.allowBackorder \/ (0 <= r.reservedQty /\ r.reservedQty <= r.stockQty)

\* No stock movement takes a variant from inside its floor to outside it: an
\* oversold position can only come from a change of the backorder policy.
MovesKeepFloor ==
    [][\A v \in Variants :
          /\ WithinFloor(row[v])
          /\ row'[v].allowBackorder = row[v].allowBackorder
          => WithinFloor(row'[v])]_vars
===============================================================================
