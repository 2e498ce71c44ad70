----------------------------- MODULE GoodsProofs -----------------------------
(***************************************************************************)
(* Goods: the stock ledger of the variants, the parcels of an order, the   *)
(* returns of a line.                                                      *)
(***************************************************************************)
EXTENDS Inventory, Shipments, Returns, SumTheorems, SequenceTheorems

-------------------------------------------------------------------------------
(***************************************************************************)
(* Stock                                                                   *)
(***************************************************************************)

\* The status a balance is given is one of the five statuses.
LEMMA StatusType ==
    ASSUME NEW v, NEW qty, NEW backorder
    PROVE  StockStatusFor(v, qty, backorder) \in StockStatuses
BY DEF StockStatusFor, StockStatuses

\* What update() writes keeps the row a row.
LEMMA EditedRowType ==
    ASSUME NEW r \in Row, NEW e \in Edit, e # NoEdit
    PROVE  EditedRow(r, e) \in Row
<1>1. r.version + 1 \in Nat
  BY DEF Row
<1>2. e.allowBackorder \in BOOLEAN /\ e.stockStatus \in StockStatuses
  BY DEF Edit, NoEdit
<1> QED
  BY <1>1, <1>2, Zenon DEF Row, EditedRow

\* Type correctness of the rows, the ledger and the edits in flight.
THEOREM TypeCorrect == Spec => []TypeOK
<1>1. Init => TypeOK
  <2> SUFFICES ASSUME Init PROVE TypeOK
    OBVIOUS
  <2>1. row \in [Variants -> Row]
    BY StatusType DEF Init, Row
  <2> QED
    BY <2>1 DEF Init, TypeOK, Edit
<1>2. TypeOK /\ [Next]_vars => TypeOK'
  <2> SUFFICES ASSUME TypeOK, [Next]_vars PROVE TypeOK'
    OBVIOUS
  <2>0. \A v \in Variants : row[v] \in Row
    BY DEF TypeOK
  <2>1. ASSUME NEW v \in Variants, NEW delta \in Int, NEW expected, Adjust(v, delta, expected)
        PROVE  TypeOK'
    <3> DEFINE next == AdjustedQty(row[v], delta)
    <3>1. next \in Int
      BY <2>0 DEF Row, AdjustedQty
    <3>2. StockStatusFor(v, next, row[v].allowBackorder) \in StockStatuses
      BY StatusType
    <3>3. row' \in [Variants -> Row]
      BY <2>0, <2>1, <3>1, <3>2 DEF TypeOK, Adjust, Row
    <3>4. [delta |-> delta, balanceAfter |-> next] \in Entry
      BY <3>1 DEF Entry
    <3>5. ledger' \in [Variants -> Seq(Entry)]
      BY <2>1, <3>4 DEF TypeOK, Adjust
    <3> QED
      BY <2>1, <3>3, <3>5 DEF TypeOK, Adjust
  <2>2. ASSUME NEW v \in Variants, NEW target \in Targets, NEW expected, SetAbsolute(v, target, expected)
        PROVE  TypeOK'
    <3>1. target - row[v].stockQty \in Int
      BY <2>0, InventoryAssumption DEF Row
    <3> QED
      BY <2>1, <2>2, <3>1 DEF SetAbsolute
  <2>3. ASSUME NEW v \in Variants, NEW qty \in Quantities, Reserve(v, qty)
        PROVE  TypeOK'
    <3>1. ReservedAfter(row[v], qty) \in Nat
      BY <2>0, InventoryAssumption DEF Row, ReservedAfter
    <3> QED
      BY <2>0, <2>3, <3>1 DEF TypeOK, Reserve, Row
  <2>4. ASSUME NEW v \in Variants, NEW qty \in Quantities, Release(v, qty)
        PROVE  TypeOK'
    <3>1. ReleasedAfter(row[v], qty) \in Nat
      BY <2>0, InventoryAssumption DEF Row, ReleasedAfter, Releasable
    <3> QED
      BY <2>0, <2>4, <3>1 DEF TypeOK, Release, Row
  <2>5. ASSUME NEW a \in Admins, NEW v \in Variants, NEW backorder \in BOOLEAN,
               ReadForUpdate(a, v, backorder)
        PROVE  TypeOK'
    <3>1. PICK version \in 0..row[v].version :
             edit' = [edit EXCEPT ![a] =
                        [state |-> "read", variant |-> v, version |-> version,
                         allowBackorder |-> backorder,
                         stockStatus |-> StockStatusFor(v, row[v].stockQty, backorder)]]
      BY <2>5 DEF ReadForUpdate
    <3>2. version \in Nat
      BY <2>0 DEF Row
    <3>3. [state |-> "read", variant |-> v, version |-> version, allowBackorder |-> backorder,
           stockStatus |-> StockStatusFor(v, row[v].stockQty, backorder)] \in Edit
      BY <3>2, StatusType DEF Edit
    <3> QED
      BY <2>5, <3>1, <3>3 DEF TypeOK, ReadForUpdate
  <2>6. ASSUME NEW a \in Admins, WriteUpdate(a)
        PROVE  TypeOK'
    <3>1. edit[a] \in Edit /\ edit[a] # NoEdit /\ edit[a].variant \in Variants
      BY <2>6 DEF TypeOK, WriteUpdate, Edit, NoEdit
    <3>2. EditedRow(row[edit[a].variant], edit[a]) \in Row
      BY <2>0, <3>1, EditedRowType
    <3>3. row' \in [Variants -> Row]
      BY <2>6, <3>2 DEF TypeOK, WriteUpdate
    <3> QED
      BY <2>6, <3>3 DEF TypeOK, WriteUpdate, Edit
  <2>7. ASSUME NEW v \in Variants, CheckRemovable(v)
        PROVE  TypeOK'
    BY <2>7 DEF TypeOK, CheckRemovable
  <2>8. ASSUME NEW v \in Variants, Remove(v)
        PROVE  TypeOK'
    BY <2>0, <2>8 DEF TypeOK, Remove, Row
  <2>9. ASSUME UNCHANGED vars
        PROVE  TypeOK'
    BY <2>9 DEF TypeOK, vars
  <2> QED
    BY <2>1, <2>2, <2>3, <2>4, <2>5, <2>6, <2>7, <2>8, <2>9, InventoryAssumption DEF Next
<1> QED
  BY <1>1, <1>2, PTL DEF Spec

\* Only adjust() moves a balance, and it appends the row that explains the move.
LEMMA AdjustExtendsLedger ==
    ASSUME TypeOK, LedgerIsRunningTotal,
           NEW v \in Variants, NEW delta \in Int, NEW expected, Adjust(v, delta, expected)
    PROVE  LedgerIsRunningTotal'
<1> DEFINE next == AdjustedQty(row[v], delta)
           entry == [delta |-> delta, balanceAfter |-> next]
<1>1. ledger[v] \in Seq(Entry) /\ row[v] \in Row
  BY DEF TypeOK
<1>2. next \in Int /\ entry \in Entry
  BY <1>1 DEF Row, Entry, AdjustedQty
<1>3. ledger'[v] = Append(ledger[v], entry) /\ row'[v].stockQty = next
  BY DEF Adjust, TypeOK
<1>4. /\ Len(ledger'[v]) = Len(ledger[v]) + 1
      /\ \A i \in 1..Len(ledger[v]) : ledger'[v][i] = ledger[v][i]
      /\ ledger'[v][Len(ledger[v]) + 1] = entry
      /\ Len(ledger[v]) \in Nat
  BY <1>1, <1>2, <1>3, AppendProperties
<1>5. row[v].stockQty = Balance(v, Len(ledger[v]))
  BY DEF LedgerIsRunningTotal
<1>6. SUFFICES ASSUME NEW w \in Variants
               PROVE  /\ \A i \in 1..Len(ledger'[w]) :
                            ledger'[w][i].balanceAfter = Balance(w, i - 1)' + ledger'[w][i].delta
                      /\ row'[w].stockQty = Balance(w, Len(ledger[w]))'
  BY DEF LedgerIsRunningTotal
<1>7. CASE w # v
  <2>1. ledger'[w] = ledger[w] /\ row'[w] = row[w]
    BY <1>7 DEF Adjust, TypeOK
  <2> QED
    BY <2>1 DEF LedgerIsRunningTotal, Balance
<1>8. CASE w = v
  <2>1. ASSUME NEW i \in 1..Len(ledger[v])
        PROVE  ledger'[v][i].balanceAfter = Balance(v, i - 1)' + ledger'[v][i].delta
    <3>1. Balance(v, i - 1)' = Balance(v, i - 1)
      BY <1>4 DEF Balance
    <3> QED
      BY <1>4, <3>1 DEF LedgerIsRunningTotal
  <2>2. Balance(v, Len(ledger[v]))' = next
    BY <1>3, <1>4 DEF Balance
  <2>3. entry.balanceAfter = row[v].stockQty + entry.delta
    BY DEF AdjustedQty
  <2>4. IF Len(ledger[v]) = 0 THEN row[v].stockQty = 0
        ELSE row[v].stockQty = ledger'[v][Len(ledger[v])].balanceAfter
    BY <1>4, <1>5 DEF Balance
  <2>5. ASSUME NEW i \in 1..Len(ledger'[v]), i = Len(ledger[v]) + 1
        PROVE  ledger'[v][i].balanceAfter = Balance(v, i - 1)' + ledger'[v][i].delta
    BY <1>4, <2>3, <2>4, <2>5 DEF Balance
  <2>6. ASSUME NEW i \in 1..Len(ledger'[v])
        PROVE  i \in 1..Len(ledger[v]) \/ i = Len(ledger[v]) + 1
    BY <1>4
  <2>7. \A i \in 1..Len(ledger'[v]) :
           ledger'[v][i].balanceAfter = Balance(v, i - 1)' + ledger'[v][i].delta
    BY <2>1, <2>5, <2>6
  <2> QED
    BY <1>3, <1>8, <2>2, <2>7
<1> QED
  BY <1>7, <1>8

\* The ledger is a true running total of every balance (the header of
\* inventory.service.ts and the comment on InventoryLedger in schema.prisma).
THEOREM LedgerCorrect == Spec => []LedgerIsRunningTotal
<1>1. Init => LedgerIsRunningTotal
  BY DEF Init, LedgerIsRunningTotal, Balance
<1>2. TypeOK /\ LedgerIsRunningTotal /\ [Next]_vars => LedgerIsRunningTotal'
  <2> SUFFICES ASSUME TypeOK, LedgerIsRunningTotal, [Next]_vars PROVE LedgerIsRunningTotal'
    OBVIOUS
  <2>0. \A v \in Variants : row[v] \in Row
    BY DEF TypeOK
  <2>1. ASSUME ledger' = ledger, \A v \in Variants : row'[v].stockQty = row[v].stockQty
        PROVE  LedgerIsRunningTotal'
    BY <2>1 DEF LedgerIsRunningTotal, Balance
  <2>2. ASSUME NEW v \in Variants, NEW delta \in Deltas, NEW expected, Adjust(v, delta, expected)
        PROVE  LedgerIsRunningTotal'
    BY <2>2, AdjustExtendsLedger, InventoryAssumption
  <2>3. ASSUME NEW v \in Variants, NEW target \in Targets, NEW expected, SetAbsolute(v, target, expected)
        PROVE  LedgerIsRunningTotal'
    <3>1. target - row[v].stockQty \in Int
      BY <2>0, InventoryAssumption DEF Row
    <3> QED
      BY <2>3, <3>1, AdjustExtendsLedger DEF SetAbsolute
  <2>4. ASSUME NEW v \in Variants, NEW qty \in Quantities, Reserve(v, qty) \/ Release(v, qty)
        PROVE  LedgerIsRunningTotal'
    <3>1. ledger' = ledger /\ \A w \in Variants : row'[w].stockQty = row[w].stockQty
      <4>1. CASE Reserve(v, qty)
        BY <4>1 DEF Reserve, TypeOK
      <4>2. CASE Release(v, qty)
        BY <4>2 DEF Release, TypeOK
      <4> QED
        BY <2>4, <4>1, <4>2
    <3> QED
      BY <2>1, <3>1
  <2>5. ASSUME NEW a \in Admins, WriteUpdate(a)
        PROVE  LedgerIsRunningTotal'
    <3>1. ledger' = ledger /\ \A w \in Variants : row'[w].stockQty = row[w].stockQty
      BY <2>0, <2>5 DEF WriteUpdate, EditedRow, TypeOK, Row
    <3> QED
      BY <2>1, <3>1
  <2>6. ASSUME NEW v \in Variants, Remove(v)
        PROVE  LedgerIsRunningTotal'
    <3>1. ledger' = ledger /\ \A w \in Variants : row'[w].stockQty = row[w].stockQty
      BY <2>0, <2>6 DEF Remove, TypeOK, Row
    <3> QED
      BY <2>1, <3>1
  <2>7. ASSUME UNCHANGED <<row, ledger>>
        PROVE  LedgerIsRunningTotal'
    BY <2>1, <2>7
  <2> QED
    BY <2>2, <2>3, <2>4, <2>5, <2>6, <2>7 DEF Next, ReadForUpdate, CheckRemovable, vars
<1> QED
  BY <1>1, <1>2, TypeCorrect, PTL DEF Spec

\* No movement takes a variant out of its floor under an unchanged policy:
\* adjust()'s two checks and reserve()'s check are sufficient on their own.
THEOREM FloorIsKept == Spec => MovesKeepFloor
<1> DEFINE Kept == \A v \in Variants :
                      /\ WithinFloor(row[v])
                      /\ row'[v].allowBackorder = row[v].allowBackorder
                      => WithinFloor(row'[v])
<1>1. TypeOK /\ [Next]_vars => [Kept]_vars
  <2> SUFFICES ASSUME TypeOK, Next PROVE Kept
    OBVIOUS
  <2>0. \A v \in Variants : row[v] \in Row
    BY DEF TypeOK
  <2>1. ASSUME NEW v \in Variants, NEW delta \in Int, NEW expected, Adjust(v, delta, expected)
        PROVE  Kept
    BY <2>0, <2>1 DEF Adjust, CanAdjust, AdjustedQty, WithinFloor, TypeOK, Row
  <2>2. ASSUME NEW v \in Variants, NEW target \in Targets, NEW expected, SetAbsolute(v, target, expected)
        PROVE  Kept
    <3>1. target - row[v].stockQty \in Int
      BY <2>0, InventoryAssumption DEF Row
    <3> QED
      BY <2>1, <2>2, <3>1 DEF SetAbsolute
  <2>3. ASSUME NEW v \in Variants, NEW qty \in Quantities, Reserve(v, qty)
        PROVE  Kept
    BY <2>0, <2>3, InventoryAssumption DEF Reserve, CanReserve, ReservedAfter, WithinFloor, TypeOK, Row
  <2>4. ASSUME NEW v \in Variants, NEW qty \in Quantities, Release(v, qty)
        PROVE  Kept
    BY <2>0, <2>4, InventoryAssumption DEF Release, Releasable, ReleasedAfter, WithinFloor, TypeOK, Row
  <2>5. ASSUME NEW a \in Admins, WriteUpdate(a)
        PROVE  Kept
    <3>1. \A v \in Variants : /\ row'[v].stockQty = row[v].stockQty
                               /\ row'[v].reservedQty = row[v].reservedQty
      BY <2>5, Zenon DEF WriteUpdate, EditedRow, TypeOK, Row
    <3> QED
      BY <3>1 DEF WithinFloor
  <2>6. ASSUME NEW v \in Variants, Remove(v)
        PROVE  Kept
    BY <2>0, <2>6 DEF Remove, WithinFloor, TypeOK, Row
  <2>7. ASSUME row' = row
        PROVE  Kept
    BY <2>7
  <2> QED
    BY <2>1, <2>2, <2>3, <2>4, <2>5, <2>6, <2>7, InventoryAssumption DEF Next, ReadForUpdate, CheckRemovable
<1> QED
  BY <1>1, TypeCorrect, PTL DEF Spec, MovesKeepFloor

-------------------------------------------------------------------------------
(***************************************************************************)
(* Parcels                                                                 *)
(***************************************************************************)

\* What a desk has in hand at each step.
DeskAgrees(d) ==
    /\ At(d, "courier") \/ At(d, "write") => desk[d].to \in ShipmentStatuses
    /\ At(d, "finish") => desk[d].to \in CourierFailures \cup {"SUCCESS"}
    /\ At(d, "move") => desk[d].to \in OrderStatuses

ShipmentTypes == ShipmentsTypeOK /\ \A d \in Desks : DeskAgrees(d)

Answers == {"VALIDATION", "TIMEOUT", "SUCCESS"}
DeskTargets == ShipmentStatuses \cup OrderStatuses \cup JournalStates \cup {"manual", "courier"}
StatusSets == SUBSET ShipmentStatuses
UnitCounts == [Lines -> Nat]

LEMMA DeskRecordIs ==
    DeskRecord = [at: DeskSteps, of: Parcels, row: ParcelRow, to: DeskTargets, owns: BOOLEAN,
                  saw: OrderStatuses, statuses: StatusSets, units: UnitCounts]
BY DEF DeskRecord, DeskTargets, StatusSets, UnitCounts

LEMMA NoParcelIsRow == NoParcel \in ParcelRow
BY DEF NoParcel, ParcelRow, NoItems

LEMMA FirstParcel == 1 \in Parcels
BY ShipmentsAssumption DEF Parcels

LEMMA AtRestIsRecord == AtRest \in DeskRecord
<1>1. /\ "idle" \in DeskSteps /\ 1 \in Parcels /\ NoParcel \in ParcelRow /\ "none" \in DeskTargets
      /\ "CONFIRMED" \in OrderStatuses /\ {} \in StatusSets /\ NoItems \in UnitCounts
  BY FirstParcel, NoParcelIsRow
     DEF DeskSteps, DeskTargets, JournalStates, OrderStatuses, StatusSets, UnitCounts, NoItems
<1> QED
  BY <1>1, DeskRecordIs DEF AtRest

\* Only desk d's record changes, and it becomes x.
DeskBecomes(d, x) ==
    /\ desk' \in [Desks -> DeskRecord] /\ desk'[d] = x
    /\ \A e \in Desks : e # d => desk'[e] = desk[e]

LEMMA DeskWrites ==
    ASSUME desk \in [Desks -> DeskRecord], NEW d \in Desks, NEW x \in DeskRecord,
           desk' = [desk EXCEPT ![d] = x]
    PROVE  DeskBecomes(d, x)
BY DEF DeskBecomes

\* It goes on with everything it has.
Continues(d, step) ==
    /\ desk' \in [Desks -> DeskRecord]
    /\ \A e \in Desks : e # d => desk'[e] = desk[e]
    /\ desk'[d].at = step /\ desk'[d].of = desk[d].of /\ desk'[d].row = desk[d].row
    /\ desk'[d].to = desk[d].to /\ desk'[d].owns = desk[d].owns /\ desk'[d].saw = desk[d].saw
    /\ desk'[d].statuses = desk[d].statuses /\ desk'[d].units = desk[d].units

LEMMA DeskGoesOn ==
    ASSUME desk \in [Desks -> DeskRecord], NEW d \in Desks, NEW step \in DeskSteps, GoTo(d, step)
    PROVE  Continues(d, step)
<1> DEFINE x == [desk[d] EXCEPT !.at = step]
<1>1. desk[d] \in [at: DeskSteps, of: Parcels, row: ParcelRow, to: DeskTargets, owns: BOOLEAN,
                   saw: OrderStatuses, statuses: StatusSets, units: UnitCounts]
  BY DeskRecordIs
<1>2. /\ x \in [at: DeskSteps, of: Parcels, row: ParcelRow, to: DeskTargets, owns: BOOLEAN,
                saw: OrderStatuses, statuses: StatusSets, units: UnitCounts]
      /\ x.at = step /\ x.of = desk[d].of /\ x.row = desk[d].row /\ x.to = desk[d].to
      /\ x.owns = desk[d].owns /\ x.saw = desk[d].saw /\ x.statuses = desk[d].statuses
      /\ x.units = desk[d].units
  BY <1>1
<1>3. desk' = [desk EXCEPT ![d] = x]
  BY DEF GoTo
<1> HIDE DEF x
<1>4. x \in DeskRecord
  BY <1>2, DeskRecordIs
<1>5. DeskBecomes(d, x)
  BY <1>3, <1>4, DeskWrites
<1> QED
  BY <1>2, <1>5 DEF Continues, DeskBecomes

LEMMA DeskStops ==
    ASSUME desk \in [Desks -> DeskRecord], NEW d \in Desks, Stop(d)
    PROVE  DeskBecomes(d, AtRest)
BY AtRestIsRecord, DeskWrites DEF Stop

\* A handler that starts from the row it reads.
TakesUp(d, p, step, to) ==
    /\ desk' \in [Desks -> DeskRecord]
    /\ \A e \in Desks : e # d => desk'[e] = desk[e]
    /\ desk'[d].at = step /\ desk'[d].of = p /\ desk'[d].row = parcel[p] /\ desk'[d].to = to
    /\ p \in Written /\ UNCHANGED <<parcelRows, orderRow, shipmentCrashes>>

LEMMA DeskTakes ==
    ASSUME ShipmentsTypeOK, NEW d \in Desks, NEW p \in Parcels, NEW step \in DeskSteps,
           NEW to \in DeskTargets, Take(d, p, step, to)
    PROVE  TakesUp(d, p, step, to)
<1> DEFINE x == [AtRest EXCEPT !.at = step, !.of = p, !.row = parcel[p], !.to = to]
<1>1. x = [AtRest EXCEPT !.at = step, !.of = p, !.row = parcel[p], !.to = to]
  OBVIOUS
<1>2. parcel[p] \in ParcelRow /\ AtRest \in DeskRecord
  BY AtRestIsRecord DEF ShipmentsTypeOK
<1>3. desk' = [desk EXCEPT ![d] = x]
  BY DEF Take
<1> HIDE DEF x
<1>4. /\ x \in DeskRecord
      /\ x.at = step /\ x.of = p /\ x.row = parcel[p] /\ x.to = to
  BY <1>1, <1>2, DeskRecordIs
<1>5. DeskBecomes(d, x)
  BY <1>3, <1>4, DeskWrites DEF ShipmentsTypeOK
<1> QED
  BY <1>4, <1>5 DEF TakesUp, DeskBecomes, Take

LEMMA CreateDoes ==
    ASSUME ShipmentsTypeOK, NEW d \in Desks, NEW items \in UnitCounts, CreateParcel(d, items)
    PROVE  /\ desk' \in [Desks -> DeskRecord] /\ \A e \in Desks : e # d => desk'[e] = desk[e]
           /\ desk'[d].at = "count" /\ desk'[d].row.items = items
           /\ UNCHANGED <<parcelRows, orderRow, shipmentCrashes>>
<1> DEFINE y == [desk[d].row EXCEPT !.items = items]
           x == [desk[d] EXCEPT !.at = "count", !.row = y]
<1>1. desk[d] \in DeskRecord /\ desk[d].row \in ParcelRow /\ "count" \in DeskSteps
  BY DEF ShipmentsTypeOK, DeskRecord, DeskSteps
<1>2. y \in ParcelRow /\ y.items = items
  BY <1>1 DEF ParcelRow, UnitCounts
<1>3. x = [desk[d] EXCEPT !.at = "count", !.row = y]
  OBVIOUS
<1>4. desk' = [desk EXCEPT ![d] = x]
  BY <1>1 DEF CreateParcel, DeskRecord
<1> HIDE DEF x, y
<1>5. x \in DeskRecord /\ x.at = "count" /\ x.row = y
  BY <1>1, <1>2, <1>3, DeskRecordIs
<1>6. DeskBecomes(d, x)
  BY <1>4, <1>5, DeskWrites DEF ShipmentsTypeOK
<1> QED
  BY <1>2, <1>5, <1>6 DEF DeskBecomes, CreateParcel

LEMMA CountDoes ==
    ASSUME ShipmentsTypeOK, NEW d \in Desks, CountParcels(d)
    PROVE  /\ desk' \in [Desks -> DeskRecord] /\ \A e \in Desks : e # d => desk'[e] = desk[e]
           /\ desk'[d].at = "insert" /\ desk'[d].row.items = desk[d].row.items
           /\ desk'[d].row.cod => CountedParcels = {}
           /\ UNCHANGED <<parcelRows, orderRow, shipmentCrashes>>
<1> DEFINE z == CashOnDelivery /\ CountedParcels = {}
           y == [desk[d].row EXCEPT !.cod = z]
           x == [desk[d] EXCEPT !.at = "insert", !.row = y]
<1>1. desk[d] \in DeskRecord /\ desk[d].row \in ParcelRow /\ "insert" \in DeskSteps
  BY DEF ShipmentsTypeOK, DeskRecord, DeskSteps
<1>0. z \in BOOLEAN
  BY ShipmentsAssumption
<1>4. desk' = [desk EXCEPT ![d] = x]
  BY <1>1 DEF CountParcels, DeskRecord
<1>7. z => CountedParcels = {}
  OBVIOUS
<1> HIDE DEF z
<1>2. y \in ParcelRow /\ y.items = desk[d].row.items /\ y.cod = z
  BY <1>0, <1>1 DEF ParcelRow
<1>3. x = [desk[d] EXCEPT !.at = "insert", !.row = y]
  OBVIOUS
<1> HIDE DEF x, y
<1>5. x \in DeskRecord /\ x.at = "insert" /\ x.row = y
  BY <1>1, <1>2, <1>3, DeskRecordIs
<1>6. DeskBecomes(d, x)
  BY <1>4, <1>5, DeskWrites DEF ShipmentsTypeOK
<1> QED
  BY <1>2, <1>5, <1>6, <1>7 DEF DeskBecomes, CountParcels

\* One parcel's row changes, and becomes x.
ParcelBecomes(p, x) ==
    /\ parcel' \in [Parcels -> ParcelRow] /\ parcel'[p] = x
    /\ \A q \in Parcels : q # p => parcel'[q] = parcel[q]

LEMMA ParcelWrites ==
    ASSUME parcel \in [Parcels -> ParcelRow], NEW p \in Parcels, NEW x \in ParcelRow,
           parcel' = [parcel EXCEPT ![p] = x]
    PROVE  ParcelBecomes(p, x)
BY DEF ParcelBecomes

\* The desk's parcel gets a status, whatever it had, and keeps its items.
StatusSet(d, status) ==
    /\ parcel' \in [Parcels -> ParcelRow]
    /\ \A q \in Parcels : q # desk[d].of => parcel'[q] = parcel[q]
    /\ parcel'[desk[d].of].status = status
    /\ parcel'[desk[d].of].items = parcel[desk[d].of].items
    /\ parcel'[desk[d].of].cod = parcel[desk[d].of].cod

LEMMA StatusOnly ==
    ASSUME ShipmentsTypeOK, NEW d \in Desks, NEW status \in ShipmentStatuses,
           parcel' = [parcel EXCEPT ![desk[d].of].status = status]
    PROVE  StatusSet(d, status)
<1> DEFINE p == desk[d].of
           x == [parcel[p] EXCEPT !.status = status]
<1>1. p \in Parcels /\ parcel[p] \in ParcelRow /\ parcel \in [Parcels -> ParcelRow]
  BY DEF ShipmentsTypeOK, DeskRecord
<1>2. /\ x \in ParcelRow
      /\ x.status = status /\ x.items = parcel[p].items /\ x.cod = parcel[p].cod
  BY <1>1 DEF ParcelRow
<1>3. parcel' = [parcel EXCEPT ![p] = x]
  OBVIOUS
<1> HIDE DEF x, p
<1>4. ParcelBecomes(p, x)
  BY <1>1, <1>2, <1>3, ParcelWrites
<1> QED
  BY <1>2, <1>4 DEF StatusSet, ParcelBecomes, p

LEMMA RegistrationDoes ==
    ASSUME ShipmentsTypeOK, NEW d \in Desks, RecordRegistration(d)
    PROVE  /\ StatusSet(d, "READY") /\ Continues(d, "label")
           /\ UNCHANGED <<journal, courierParcels, orderRow, shipmentCrashes>>
<1> DEFINE p == desk[d].of
           x == [parcel[p] EXCEPT !.registered = TRUE, !.status = "READY"]
<1>1. p \in Parcels /\ parcel[p] \in ParcelRow /\ parcel \in [Parcels -> ParcelRow]
  BY DEF ShipmentsTypeOK, DeskRecord
<1>2. /\ x \in ParcelRow
      /\ x.status = "READY" /\ x.items = parcel[p].items /\ x.cod = parcel[p].cod
  BY <1>1 DEF ParcelRow, ShipmentStatuses, ShipmentTransitions
<1>3. parcel' = [parcel EXCEPT ![p] = x]
  BY <1>1 DEF RecordRegistration, ParcelRow
<1> HIDE DEF x, p
<1>4. ParcelBecomes(p, x)
  BY <1>1, <1>2, <1>3, ParcelWrites
<1>5. Continues(d, "label")
  BY DeskGoesOn DEF RecordRegistration, ShipmentsTypeOK, DeskSteps
<1>6. StatusSet(d, "READY")
  BY <1>2, <1>4 DEF StatusSet, ParcelBecomes, p
<1> QED
  BY <1>5, <1>6 DEF RecordRegistration

LEMMA LabelDoes ==
    ASSUME ShipmentsTypeOK, NEW d \in Desks, LabelParcel(d)
    PROVE  /\ \/ StatusSet(d, "AWB_ASSIGNED") /\ Continues(d, "sync")
              \/ DeskBecomes(d, AtRest) /\ UNCHANGED parcel
           /\ UNCHANGED <<journal, courierParcels, orderRow, shipmentCrashes>>
<1>a. CASE desk[d].to # "manual" /\ Stop(d) /\ UNCHANGED parcel
  BY <1>a, DeskStops DEF LabelParcel, ShipmentsTypeOK
<1>b. CASE /\ parcel' = [parcel EXCEPT ![desk[d].of].awb = TRUE, ![desk[d].of].status = "AWB_ASSIGNED"]
           /\ GoTo(d, "sync")
  <2> DEFINE p == desk[d].of
             x == [parcel[p] EXCEPT !.awb = TRUE, !.status = "AWB_ASSIGNED"]
  <2>1. p \in Parcels /\ parcel[p] \in ParcelRow /\ parcel \in [Parcels -> ParcelRow]
    BY DEF ShipmentsTypeOK, DeskRecord
  <2>2. /\ x \in ParcelRow
        /\ x.status = "AWB_ASSIGNED" /\ x.items = parcel[p].items /\ x.cod = parcel[p].cod
    BY <2>1 DEF ParcelRow, ShipmentStatuses, ShipmentTransitions
  <2>3. parcel' = [parcel EXCEPT ![p] = x]
    BY <1>b, <2>1 DEF ParcelRow
  <2> HIDE DEF x, p
  <2>4. ParcelBecomes(p, x)
    BY <2>1, <2>2, <2>3, ParcelWrites
  <2>5. Continues(d, "sync")
    BY <1>b, DeskGoesOn DEF ShipmentsTypeOK, DeskSteps
  <2>6. StatusSet(d, "AWB_ASSIGNED")
    BY <2>2, <2>4 DEF StatusSet, ParcelBecomes, p
  <2> QED
    BY <2>5, <2>6 DEF LabelParcel
<1> QED
  BY <1>a, <1>b DEF LabelParcel

LEMMA PromoteDoes ==
    ASSUME ShipmentsTypeOK, NEW d \in Desks, PromoteDraft(d)
    PROVE  /\ StatusSet(d, "READY") /\ Continues(d, "reread")
           /\ UNCHANGED <<journal, courierParcels, orderRow, shipmentCrashes>>
<1>1. Continues(d, "reread")
  BY DeskGoesOn DEF PromoteDraft, ShipmentsTypeOK, DeskSteps
<1>2. StatusSet(d, "READY")
  BY StatusOnly DEF PromoteDraft, ShipmentStatuses, ShipmentTransitions
<1> QED
  BY <1>1, <1>2 DEF PromoteDraft

LEMMA WriteDoes ==
    ASSUME ShipmentsTypeOK, NEW d \in Desks, DeskAgrees(d), WriteStatus(d)
    PROVE  /\ StatusSet(d, desk[d].to) /\ Continues(d, "sync") /\ desk[d].to \in ShipmentStatuses
           /\ UNCHANGED <<journal, courierParcels, orderRow, shipmentCrashes>>
<1>1. Continues(d, "sync")
  BY DeskGoesOn DEF WriteStatus, ShipmentsTypeOK, DeskSteps
<1>2. desk[d].to \in ShipmentStatuses
  BY DEF DeskAgrees, WriteStatus
<1>3. StatusSet(d, desk[d].to)
  BY <1>2, StatusOnly DEF WriteStatus
<1> QED
  BY <1>1, <1>2, <1>3 DEF WriteStatus

\* The new parcel takes a free place with the items the desk had, not yet on its way.
Inserted(d) ==
    \E p \in Parcels \ Written :
        /\ parcel' \in [Parcels -> ParcelRow]
        /\ \A q \in Parcels : q # p => parcel'[q] = parcel[q]
        /\ parcel'[p].status = "DRAFT" /\ parcel'[p].items = desk[d].row.items
        /\ parcel'[p].cod = desk[d].row.cod

LEMMA InsertDoes ==
    ASSUME ShipmentsTypeOK, NEW d \in Desks, InsertParcel(d)
    PROVE  /\ Inserted(d)
           /\ desk' \in [Desks -> DeskRecord] /\ \A e \in Desks : e # d => desk'[e] = desk[e]
           /\ desk'[d].at = "sync"
           /\ UNCHANGED <<journal, courierParcels, orderRow, shipmentCrashes>>
<1>1. PICK p \in Parcels \ Written :
         /\ parcel' = [parcel EXCEPT ![p] = [desk[d].row EXCEPT !.status = "DRAFT"]]
         /\ desk' = [desk EXCEPT ![d] = [AtRest EXCEPT !.at = "sync", !.of = p]]
  BY DEF InsertParcel
<1> DEFINE x == [desk[d].row EXCEPT !.status = "DRAFT"]
           y == [AtRest EXCEPT !.at = "sync", !.of = p]
<1>2. desk[d].row \in ParcelRow /\ parcel \in [Parcels -> ParcelRow]
  BY DEF ShipmentsTypeOK, DeskRecord
<1>3. x \in ParcelRow /\ x.status = "DRAFT" /\ x.items = desk[d].row.items /\ x.cod = desk[d].row.cod
  BY <1>2 DEF ParcelRow, ShipmentStatuses, ShipmentTransitions
<1>4. y \in DeskRecord /\ y.at = "sync"
  BY AtRestIsRecord, DeskRecordIs DEF DeskSteps
<1>5. parcel' = [parcel EXCEPT ![p] = x] /\ desk' = [desk EXCEPT ![d] = y]
  BY <1>1
<1> HIDE DEF x, y
<1>6. ParcelBecomes(p, x)
  BY <1>2, <1>3, <1>5, ParcelWrites
<1>7. DeskBecomes(d, y)
  BY <1>4, <1>5, DeskWrites DEF ShipmentsTypeOK
<1>8. Inserted(d)
  BY <1>3, <1>6 DEF Inserted, ParcelBecomes
<1> QED
  BY <1>4, <1>7, <1>8 DEF DeskBecomes, InsertParcel

LEMMA RereadDoes ==
    ASSUME ShipmentsTypeOK, NEW d \in Desks, RereadParcel(d)
    PROVE  /\ \/ \E step \in {"label", "claim"} :
                    /\ ShipmentMayMove(parcel[desk[d].of].status, "AWB_ASSIGNED")
                    /\ Continues(d, step)
              \/ DeskBecomes(d, AtRest)
           /\ UNCHANGED <<parcelRows, orderRow, shipmentCrashes>>
<1>1. CASE ShipmentMayMove(parcel[desk[d].of].status, "AWB_ASSIGNED")
  <2>1. PICK step \in {"label", "claim"} : GoTo(d, step)
    BY <1>1 DEF RereadParcel
  <2>2. Continues(d, step)
    BY <2>1, DeskGoesOn DEF ShipmentsTypeOK, DeskSteps
  <2> QED
    BY <1>1, <2>2 DEF RereadParcel
<1>2. CASE ~ShipmentMayMove(parcel[desk[d].of].status, "AWB_ASSIGNED")
  BY <1>2, DeskStops DEF RereadParcel, ShipmentsTypeOK
<1> QED
  BY <1>1, <1>2

\* The desk's parcel, and what the others leave of its journal.
LEMMA ClaimDoes ==
    ASSUME ShipmentsTypeOK, NEW d \in Desks, ClaimOperation(d)
    PROVE  /\ desk' \in [Desks -> DeskRecord] /\ \A e \in Desks : e # d => desk'[e] = desk[e]
           /\ \/ /\ journal[desk[d].of] = "none"
                 /\ journal' = [journal EXCEPT ![desk[d].of] = "PENDING"]
                 /\ desk'[d].at = "call" /\ desk'[d].of = desk[d].of
              \/ /\ journal[desk[d].of] = "VALIDATION" /\ journal' = journal
                 /\ desk'[d].at = "call" /\ desk'[d].of = desk[d].of
              \/ journal' = journal /\ desk'[d] = AtRest
           /\ UNCHANGED <<parcel, courierParcels, orderRow, shipmentCrashes>>
<1>1. CASE journal[desk[d].of] = "none"
  <2> DEFINE x == [desk[d] EXCEPT !.at = "call", !.owns = TRUE]
  <2>1. x \in DeskRecord /\ x.at = "call" /\ x.of = desk[d].of
    <3>1. desk[d] \in DeskRecord /\ "call" \in DeskSteps
      BY DEF ShipmentsTypeOK, DeskSteps
    <3> QED
      BY <3>1, DeskRecordIs
  <2>2. desk' = [desk EXCEPT ![d] = x] /\ journal' = [journal EXCEPT ![desk[d].of] = "PENDING"]
    BY <1>1 DEF ClaimOperation
  <2> HIDE DEF x
  <2>3. DeskBecomes(d, x)
    BY <2>1, <2>2, DeskWrites DEF ShipmentsTypeOK
  <2> QED
    BY <1>1, <2>1, <2>2, <2>3 DEF DeskBecomes, ClaimOperation
<1>2. CASE journal[desk[d].of] = "VALIDATION"
  <2>1. GoTo(d, "call") /\ journal' = journal
    BY <1>2 DEF ClaimOperation, SafeToRepeat
  <2>2. Continues(d, "call")
    BY <2>1, DeskGoesOn DEF ShipmentsTypeOK, DeskSteps
  <2> QED
    BY <1>2, <2>1, <2>2 DEF Continues, ClaimOperation
<1>3. CASE journal[desk[d].of] \notin {"none", "VALIDATION"}
  <2>1. Stop(d) /\ journal' = journal
    BY <1>3 DEF ClaimOperation, SafeToRepeat
  <2>2. DeskBecomes(d, AtRest)
    BY <2>1, DeskStops DEF ShipmentsTypeOK
  <2> QED
    BY <2>1, <2>2 DEF DeskBecomes, ClaimOperation
<1> QED
  BY <1>1, <1>2, <1>3

LEMMA CallDoes ==
    ASSUME ShipmentsTypeOK, NEW d \in Desks, CallCourier(d)
    PROVE  /\ desk' \in [Desks -> DeskRecord] /\ \A e \in Desks : e # d => desk'[e] = desk[e]
           /\ desk'[d].at = "finish" /\ desk'[d].of = desk[d].of
           /\ desk'[d].to \in CourierFailures \cup {"SUCCESS"}
           /\ \E made \in {0, 1} : courierParcels' = [courierParcels EXCEPT ![desk[d].of] = @ + made]
           /\ UNCHANGED <<parcel, journal, orderRow, shipmentCrashes>>
<1>1. PICK outcome \in CourierFailures \cup {"SUCCESS"} :
         /\ desk' = [desk EXCEPT ![d].at = "finish", ![d].to = outcome]
         /\ \E made \in CASE outcome = "SUCCESS"    -> {1}
                          [] outcome = "TIMEOUT"    -> {0, 1}
                          [] outcome = "VALIDATION" -> {0} :
                courierParcels' = [courierParcels EXCEPT ![desk[d].of] = @ + made]
  BY DEF CallCourier
<1>2. outcome \in {"SUCCESS", "TIMEOUT", "VALIDATION"}
  BY ShipmentsAssumption
<1>3. \E made \in {0, 1} : courierParcels' = [courierParcels EXCEPT ![desk[d].of] = @ + made]
  BY <1>1, <1>2
<1> DEFINE x == [desk[d] EXCEPT !.at = "finish", !.to = outcome]
<1>4. x \in DeskRecord /\ x.at = "finish" /\ x.of = desk[d].of /\ x.to = outcome
  <2>1. desk[d] \in DeskRecord /\ "finish" \in DeskSteps /\ outcome \in DeskTargets
    BY <1>2 DEF ShipmentsTypeOK, DeskSteps, DeskTargets, JournalStates
  <2> QED
    BY <2>1, DeskRecordIs
<1>5. desk' = [desk EXCEPT ![d] = x]
  BY <1>1
<1> HIDE DEF x
<1>6. DeskBecomes(d, x)
  BY <1>4, <1>5, DeskWrites DEF ShipmentsTypeOK
<1> QED
  BY <1>3, <1>4, <1>6 DEF DeskBecomes, CallCourier

LEMMA FinishDoes ==
    ASSUME ShipmentsTypeOK, NEW d \in Desks, FinishOperation(d)
    PROVE  /\ Continues(d, "record") \/ DeskBecomes(d, AtRest)
           /\ journal' = journal \/ journal' = [journal EXCEPT ![desk[d].of] = desk[d].to]
           /\ UNCHANGED <<parcel, courierParcels, orderRow, shipmentCrashes>>
<1>1. CASE desk[d].to = "SUCCESS"
  BY <1>1, DeskGoesOn DEF FinishOperation, ShipmentsTypeOK, DeskSteps
<1>2. CASE desk[d].to # "SUCCESS"
  BY <1>2, DeskStops DEF FinishOperation, ShipmentsTypeOK
<1> QED
  BY <1>1, <1>2

LEMMA AskDoes ==
    ASSUME ShipmentsTypeOK, NEW d \in Desks, AskCourier(d)
    PROVE  /\ Continues(d, "write") \/ DeskBecomes(d, AtRest)
           /\ UNCHANGED <<parcelRows, orderRow, shipmentCrashes>>
<1>1. CASE GoTo(d, "write")
  BY <1>1, DeskGoesOn DEF AskCourier, ShipmentsTypeOK, DeskSteps
<1>2. CASE Stop(d)
  BY <1>2, DeskStops DEF AskCourier, ShipmentsTypeOK
<1> QED
  BY <1>1, <1>2 DEF AskCourier

\* The statuses of the parcels there are.
ParcelStatuses == {parcel[p].status : p \in Written}

LEMMA ReadDoes ==
    ASSUME ShipmentsTypeOK, NEW d \in Desks, ReadParcels(d)
    PROVE  /\ desk' \in [Desks -> DeskRecord] /\ \A e \in Desks : e # d => desk'[e] = desk[e]
           /\ desk'[d].at = "fulfil" /\ desk'[d].saw = orderStatus
           /\ desk'[d].statuses = ParcelStatuses
           /\ UNCHANGED <<parcelRows, orderRow, shipmentCrashes>>
<1> DEFINE read == ParcelStatuses
           x == [AtRest EXCEPT !.at = "fulfil", !.saw = orderStatus, !.statuses = read]
<1>1. desk' = [desk EXCEPT ![d] = x]
  BY DEF ReadParcels, ParcelStatuses
<1>2. read \in StatusSets
  BY DEF StatusSets, ParcelStatuses, Written, ShipmentsTypeOK, ParcelRow
<1> HIDE DEF read
<1>3. x \in DeskRecord /\ x.at = "fulfil" /\ x.saw = orderStatus /\ x.statuses = read
  <2>1. AtRest \in DeskRecord /\ "fulfil" \in DeskSteps /\ orderStatus \in OrderStatuses
    BY AtRestIsRecord DEF DeskSteps, ShipmentsTypeOK
  <2> QED
    BY <1>2, <2>1, DeskRecordIs
<1> HIDE DEF x
<1>4. DeskBecomes(d, x)
  BY <1>1, <1>3, DeskWrites DEF ShipmentsTypeOK
<1> QED
  BY <1>3, <1>4 DEF DeskBecomes, ReadParcels, read

-------------------------------------------------------------------------------
\* The units of one line that the parcels in one of these statuses hold.
Holds(parcels, line, statuses, p) == IF parcels[p].status \in statuses THEN parcels[p].items[line] ELSE 0

LEMMA ParcelsAreFinite == IsFiniteSet(Parcels)
BY FS_Interval, ShipmentsAssumption DEF Parcels

LEMMA HeldUnits ==
    ASSUME NEW parcels \in [Parcels -> ParcelRow], NEW line \in Lines, NEW statuses
    PROVE  /\ \A p \in Parcels : parcels[p].items[line] \in Nat /\ Holds(parcels, line, statuses, p) \in Nat
           /\ UnitsIn(parcels, line, statuses)
                = SumFunctionOnSet([p \in Parcels |-> Holds(parcels, line, statuses, p)], Parcels)
           /\ UnitsIn(parcels, line, statuses) \in Nat
<1> DEFINE held == [p \in Parcels |-> Holds(parcels, line, statuses, p)]
           units == [p \in Parcels |-> parcels[p].items[line]]
           In == {p \in Parcels : parcels[p].status \in statuses}
<1>1. \A p \in Parcels : parcels[p].items[line] \in Nat
  BY DEF ParcelRow
<1>2. \A p \in Parcels : held[p] \in Nat /\ held[p] = Holds(parcels, line, statuses, p)
  BY <1>1 DEF Holds
<1>3. UnitsIn(parcels, line, statuses) = SumFunctionOnSet(units, In)
  BY DEF UnitsIn
<1>4. /\ \A p \in In : units[p] = held[p] /\ units[p] \in Nat
      /\ \A p \in Parcels \ In : held[p] = 0
  BY <1>1 DEF Holds
<1>5. IsFiniteSet(In) /\ IsFiniteSet(Parcels \ In) /\ In \cup (Parcels \ In) = Parcels
      /\ In \cap (Parcels \ In) = {}
  BY ParcelsAreFinite, FS_Subset
<1>6. \A p \in In \cup (Parcels \ In) : held[p] \in Int
  BY <1>2, <1>5
<1> HIDE DEF held, units, In
<1>7. SumFunctionOnSet(units, In) = SumFunctionOnSet(held, In) /\ SumFunctionOnSet(units, In) \in Nat
  BY <1>4, <1>5, SumOfEqual, SumIsNat
<1>8. SumFunctionOnSet(held, Parcels \ In) = 0
  BY <1>4, <1>5, SumOfNothings
<1>9. SumFunctionOnSet(held, Parcels) = SumFunctionOnSet(held, In) + SumFunctionOnSet(held, Parcels \ In)
  BY <1>5, <1>6, SumOfTwoParts
<1>10. SumFunctionOnSet(held, Parcels) = SumFunctionOnSet(units, In)
  BY <1>7, <1>8, <1>9
<1> QED
  BY <1>1, <1>2, <1>3, <1>7, <1>10 DEF held

\* One parcel changes.
LEMMA OneParcelChanges ==
    ASSUME NEW before \in [Parcels -> ParcelRow], NEW after \in [Parcels -> ParcelRow], NEW p \in Parcels,
           \A q \in Parcels : q # p => after[q] = before[q],
           NEW line \in Lines, NEW statuses
    PROVE  UnitsIn(after, line, statuses)
             = UnitsIn(before, line, statuses) - Holds(before, line, statuses, p) + Holds(after, line, statuses, p)
<1> DEFINE f == [q \in Parcels |-> Holds(before, line, statuses, q)]
           g == [q \in Parcels |-> Holds(after, line, statuses, q)]
<1>1. \A q \in Parcels : f[q] \in Int /\ g[q] \in Int
  <2>1. /\ \A q \in Parcels : Holds(before, line, statuses, q) \in Nat
        /\ \A q \in Parcels : Holds(after, line, statuses, q) \in Nat
    BY HeldUnits
  <2> QED
    BY <2>1
<1>2. \A q \in Parcels \ {p} : f[q] = g[q]
  BY DEF Holds
<1>3. f[p] = Holds(before, line, statuses, p) /\ g[p] = Holds(after, line, statuses, p)
  OBVIOUS
<1>4. ChangesAt(Parcels, f, g, p)
  BY <1>1, <1>2 DEF ChangesAt
<1>5. UnitsIn(before, line, statuses) = SumFunctionOnSet(f, Parcels)
      /\ UnitsIn(after, line, statuses) = SumFunctionOnSet(g, Parcels)
  BY HeldUnits
<1> HIDE DEF f, g
<1>6. SumFunctionOnSet(g, Parcels) = SumFunctionOnSet(f, Parcels) - f[p] + g[p]
  BY <1>4, ParcelsAreFinite, SumWithOneChanged
<1> QED
  BY <1>3, <1>5, <1>6

\* More statuses hold more units.
LEMMA MoreStatuses ==
    ASSUME NEW parcels \in [Parcels -> ParcelRow], NEW line \in Lines, NEW S, NEW T, S \subseteq T
    PROVE  UnitsIn(parcels, line, S) <= UnitsIn(parcels, line, T)
<1> DEFINE f == [q \in Parcels |-> Holds(parcels, line, S, q)]
           g == [q \in Parcels |-> Holds(parcels, line, T, q)]
<1>1. \A q \in Parcels : f[q] \in Int /\ g[q] \in Int /\ f[q] <= g[q]
  <2> SUFFICES ASSUME NEW q \in Parcels PROVE f[q] \in Int /\ g[q] \in Int /\ f[q] <= g[q]
    OBVIOUS
  <2>1. parcels[q].items[line] \in Nat
    BY DEF ParcelRow
  <2> QED
    BY <2>1 DEF Holds
<1>2. /\ UnitsIn(parcels, line, S) = SumFunctionOnSet(f, Parcels)
      /\ UnitsIn(parcels, line, T) = SumFunctionOnSet(g, Parcels)
  BY HeldUnits
<1> HIDE DEF f, g
<1> QED
  BY <1>1, <1>2, ParcelsAreFinite, SumAtMost

LEMMA FulfilDoes ==
    ASSUME ShipmentsTypeOK, NEW d \in Desks, ReadFulfilment(d)
    PROVE  /\ desk' \in [Desks -> DeskRecord] /\ \A e \in Desks : e # d => desk'[e] = desk[e]
           /\ desk'[d].at = "book" /\ desk'[d].saw = desk[d].saw
           /\ desk'[d].statuses = desk[d].statuses /\ \A l \in Lines : desk'[d].units[l] = UnitsOut(l)
           /\ UNCHANGED <<parcelRows, orderRow, shipmentCrashes>>
<1> DEFINE out == [l \in Lines |-> UnitsOut(l)]
           x == [desk[d] EXCEPT !.at = "book", !.units = out]
<1>1. desk' = [desk EXCEPT ![d] = x]
  BY DEF ReadFulfilment
<1>2. out \in UnitCounts
  <2> SUFFICES ASSUME NEW l \in Lines PROVE UnitsOut(l) \in Nat
    BY DEF UnitCounts
  <2>1. UnitsIn(parcel, l, DispatchedStatuses) \in Nat /\ Ordered[l] \in Nat
    BY HeldUnits, ShipmentsAssumption DEF ShipmentsTypeOK
  <2> QED
    BY <2>1 DEF UnitsOut, Lesser
<1>3. \A l \in Lines : out[l] = UnitsOut(l)
  OBVIOUS
<1> HIDE DEF out
<1>4. /\ x \in DeskRecord /\ x.at = "book" /\ x.saw = desk[d].saw /\ x.statuses = desk[d].statuses
      /\ x.units = out
  <2>1. desk[d] \in DeskRecord /\ "book" \in DeskSteps
    BY DEF DeskSteps, ShipmentsTypeOK
  <2> QED
    BY <1>2, <2>1, DeskRecordIs
<1> HIDE DEF x
<1>5. DeskBecomes(d, x)
  BY <1>1, <1>4, DeskWrites DEF ShipmentsTypeOK
<1> QED
  BY <1>3, <1>4, <1>5 DEF DeskBecomes, ReadFulfilment

LEMMA BookDoes ==
    ASSUME ShipmentsTypeOK, NEW d \in Desks, BookFulfilment(d)
    PROVE  /\ Continues(d, "derive") /\ fulfilled' = desk[d].units /\ fulfilled' \in UnitCounts
           /\ UNCHANGED <<parcelRows, orderStatus, shipmentCrashes>>
<1>1. Continues(d, "derive")
  BY DeskGoesOn DEF BookFulfilment, ShipmentsTypeOK, DeskSteps
<1>2. desk[d].units \in UnitCounts
  BY DeskRecordIs DEF ShipmentsTypeOK
<1> QED
  BY <1>1, <1>2 DEF BookFulfilment

\* The status that the desk derives from what it has read, and from what remains.
Derived(d) == DeriveOrderStatus(desk[d].statuses, \A l \in Lines : Remaining(l) = 0)

LEMMA DerivedIsStatus ==
    ASSUME NEW d \in Desks, Derived(d) # "none"
    PROVE  Derived(d) \in {"DELIVERED", "OUT_FOR_DELIVERY", "SHIPPED", "READY_TO_SHIP", "PROCESSING"}
<1> DEFINE there == desk[d].statuses \ {"CANCELLED"}
<1>1. Derived(d) = "DELIVERED" \/ Derived(d) = DeriveUndelivered(there)
  BY DEF Derived, DeriveOrderStatus
<1>2. DeriveUndelivered(there) \in
        {"none", "OUT_FOR_DELIVERY", "SHIPPED", "READY_TO_SHIP", "PROCESSING"}
  BY DEF DeriveUndelivered
<1> QED
  BY <1>1, <1>2

LEMMA DeriveDoes ==
    ASSUME ShipmentsTypeOK, NEW d \in Desks, DeriveStatus(d)
    PROVE  /\ \A e \in Desks : e # d => desk'[e] = desk[e]
           /\ desk' \in [Desks -> DeskRecord]
           /\ \/ /\ Derived(d) # "none" /\ CanTransition(desk[d].saw, Derived(d))
                 /\ desk'[d].at = "move" /\ desk'[d].to = Derived(d) /\ desk'[d].saw = desk[d].saw
              \/ /\ \/ Derived(d) = "none" \/ Derived(d) = desk[d].saw
                    \/ ~CanTransition(desk[d].saw, Derived(d))
                 /\ desk'[d] = AtRest
           /\ UNCHANGED <<parcelRows, orderRow, shipmentCrashes>>
<1> DEFINE goes == Derived(d) # "none" /\ Derived(d) # desk[d].saw /\ CanTransition(desk[d].saw, Derived(d))
<1>1. /\ goes => desk' = [desk EXCEPT ![d].at = "move", ![d].to = Derived(d)]
      /\ ~goes => Stop(d)
  BY DEF DeriveStatus, Derived
<1>2. CASE goes
  <2> DEFINE x == [desk[d] EXCEPT !.at = "move", !.to = Derived(d)]
  <2>1. x \in DeskRecord /\ x.at = "move" /\ x.to = Derived(d) /\ x.saw = desk[d].saw
    <3>1. desk[d] \in DeskRecord /\ "move" \in DeskSteps /\ Derived(d) \in DeskTargets
      BY <1>2, DerivedIsStatus DEF DeskSteps, DeskTargets, OrderStatuses, ShipmentsTypeOK
    <3> QED
      BY <3>1, DeskRecordIs
  <2>2. desk' = [desk EXCEPT ![d] = x]
    BY <1>1, <1>2
  <2> HIDE DEF x
  <2>3. DeskBecomes(d, x)
    BY <2>1, <2>2, DeskWrites DEF ShipmentsTypeOK
  <2> QED
    BY <1>2, <2>1, <2>3 DEF DeskBecomes, DeriveStatus
<1>3. CASE ~goes
  <2>1. DeskBecomes(d, AtRest)
    BY <1>1, <1>3, DeskStops DEF ShipmentsTypeOK
  <2> QED
    BY <1>3, <2>1 DEF DeskBecomes, DeriveStatus
<1> QED
  BY <1>2, <1>3

LEMMA MoveDoes ==
    ASSUME ShipmentsTypeOK, NEW d \in Desks, MoveOrder(d)
    PROVE  /\ DeskBecomes(d, AtRest)
           /\ orderStatus' = IF orderStatus = desk[d].saw THEN desk[d].to ELSE orderStatus
           /\ UNCHANGED <<parcelRows, fulfilled, shipmentCrashes>>
BY DeskStops DEF MoveOrder, ShipmentsTypeOK

-------------------------------------------------------------------------------
\* cancel() asks back what was collected, a hand what it likes.
MayAskBack(status) == AskedBackByHand \/ status \in CollectedStatuses

\* A handler that is called: staff's, the courier's.
LEMMA CallsDo ==
    ASSUME ShipmentsTypeOK, NEW d \in Desks, NEW p \in Parcels,
           \/ \E by \in {"manual", "courier"} : AssignAwb(d, p, by)
           \/ SchedulePickup(d, p) \/ CancelParcel(d, p)
           \/ \E to \in ByHand : SetParcelStatus(d, p, to)
           \/ \E to \in Says : CourierReports(d, p, to)
    PROVE  \/ \E to \in {"manual", "courier"} :
                 TakesUp(d, p, IF parcel[p].status = "DRAFT" THEN "ready" ELSE "reread", to)
           \/ \E step \in {"courier", "write"}, to \in ShipmentStatuses :
                 /\ TakesUp(d, p, step, to) /\ ShipmentMayMove(parcel[p].status, to)
                 /\ to = "CANCELLATION_REQUESTED" => MayAskBack(parcel[p].status)
<1>1. CASE \E by \in {"manual", "courier"} : AssignAwb(d, p, by)
  <2>1. PICK by \in {"manual", "courier"} : AssignAwb(d, p, by)
    BY <1>1
  <2> DEFINE step == IF parcel[p].status = "DRAFT" THEN "ready" ELSE "reread"
  <2>2. step \in DeskSteps /\ by \in DeskTargets /\ Take(d, p, step, by)
    BY <2>1 DEF DeskSteps, DeskTargets, AssignAwb
  <2> HIDE DEF step
  <2>3. TakesUp(d, p, step, by)
    BY <2>2, DeskTakes
  <2> QED
    BY <2>3 DEF step
<1>2. ASSUME NEW step \in {"courier", "write"}, NEW to \in ShipmentStatuses, Take(d, p, step, to)
      PROVE  TakesUp(d, p, step, to)
  <2>1. step \in DeskSteps /\ to \in DeskTargets
    BY DEF DeskSteps, DeskTargets
  <2> QED
    BY <1>2, <2>1, DeskTakes
<1>3. CASE SchedulePickup(d, p)
  <2>1. "PICKUP_SCHEDULED" \in ShipmentStatuses
    BY DEF ShipmentStatuses, ShipmentTransitions
  <2>2. TakesUp(d, p, "courier", "PICKUP_SCHEDULED")
    BY <1>2, <1>3, <2>1 DEF SchedulePickup
  <2> QED
    BY <1>3, <2>1, <2>2 DEF SchedulePickup
<1>4. CASE CancelParcel(d, p)
  <2> DEFINE to == IF parcel[p].status \in CollectedStatuses THEN "CANCELLATION_REQUESTED" ELSE "CANCELLED"
             step == IF KnownToCourier(p) THEN "courier" ELSE "write"
  <2>1. to \in ShipmentStatuses /\ step \in {"courier", "write"}
    BY DEF ShipmentStatuses, ShipmentTransitions
  <2>2. Take(d, p, step, to) /\ ShipmentMayMove(parcel[p].status, to)
    BY <1>4 DEF CancelParcel
  <2>3. to = "CANCELLATION_REQUESTED" => MayAskBack(parcel[p].status)
    BY DEF MayAskBack
  <2> HIDE DEF to, step
  <2>4. TakesUp(d, p, step, to)
    BY <1>2, <2>1, <2>2
  <2> QED
    BY <2>1, <2>2, <2>3, <2>4
<1>5. CASE \E to \in ByHand : SetParcelStatus(d, p, to)
  <2>1. PICK to \in ByHand : SetParcelStatus(d, p, to)
    BY <1>5
  <2>2. ShipmentMayMove(parcel[p].status, to) /\ Take(d, p, "write", to)
    BY <2>1 DEF SetParcelStatus
  <2>3. to \in ShipmentStatuses /\ (to = "CANCELLATION_REQUESTED" => AskedBackByHand)
    BY ShipmentsAssumption DEF AskedBackByHand
  <2>4. TakesUp(d, p, "write", to)
    BY <1>2, <2>2, <2>3
  <2> QED
    BY <2>2, <2>3, <2>4 DEF MayAskBack
<1>6. CASE \E to \in Says : CourierReports(d, p, to)
  <2>1. PICK to \in Says : CourierReports(d, p, to)
    BY <1>6
  <2>2. /\ to # "unknown" /\ ShipmentMayMove(parcel[p].status, to) /\ Take(d, p, "write", to)
    BY <2>1 DEF CourierReports, ShipmentMayMove
  <2>3. to \in ShipmentStatuses /\ to # "CANCELLATION_REQUESTED"
    BY <2>2, ShipmentsAssumption DEF CourierStatuses, ShipmentStatuses, ShipmentTransitions
  <2>4. TakesUp(d, p, "write", to)
    BY <1>2, <2>2, <2>3
  <2> QED
    BY <2>2, <2>3, <2>4
<1> QED
  BY <1>1, <1>3, <1>4, <1>5, <1>6

-------------------------------------------------------------------------------
\* What a step of one desk leaves alone.
LEMMA OthersAgree ==
    ASSUME ShipmentTypes, NEW d \in Desks, \A e \in Desks : e # d => desk'[e] = desk[e],
           DeskAgrees(d)'
    PROVE  \A e \in Desks : DeskAgrees(e)'
<1> SUFFICES ASSUME NEW e \in Desks, e # d PROVE DeskAgrees(e)'
  OBVIOUS
<1> QED
  BY DEF ShipmentTypes, DeskAgrees, At

LEMMA RestAgrees ==
    ASSUME NEW d \in Desks, desk'[d] = AtRest
    PROVE  DeskAgrees(d)'
BY DEF DeskAgrees, At, AtRest

LEMMA TakingAgrees ==
    ASSUME NEW d \in Desks, NEW p \in Parcels, NEW step, NEW to, TakesUp(d, p, step, to),
           \/ step \in {"ready", "reread"}
           \/ step \in {"courier", "write"} /\ to \in ShipmentStatuses
    PROVE  DeskAgrees(d)'
BY DEF TakesUp, DeskAgrees, At

LEMMA DecidingKeepsTypes ==
    ASSUME ShipmentTypes, NEW d \in Desks, Deciding(d)
    PROVE  ShipmentTypes'
<1>1. CASE \E items \in [Lines -> UNION {0..Ordered[l] : l \in Lines}] : CreateParcel(d, items)
  <2>1. PICK items \in [Lines -> UNION {0..Ordered[l] : l \in Lines}] : CreateParcel(d, items)
    BY <1>1
  <2>2. items \in UnitCounts
    BY ShipmentsAssumption DEF UnitCounts
  <2>3. /\ desk' \in [Desks -> DeskRecord] /\ \A e \in Desks : e # d => desk'[e] = desk[e]
        /\ desk'[d].at = "count"
        /\ UNCHANGED <<parcelRows, orderRow, shipmentCrashes>>
    BY <2>1, <2>2, CreateDoes DEF ShipmentTypes
  <2>4. DeskAgrees(d)'
    BY <2>3 DEF DeskAgrees, At
  <2>5. ShipmentsTypeOK'
    BY <2>3 DEF ShipmentTypes, ShipmentsTypeOK, parcelRows, orderRow
  <2> QED
    BY <2>3, <2>4, <2>5, OthersAgree DEF ShipmentTypes
<1>2. ASSUME NEW p \in Parcels, NEW step, NEW to, TakesUp(d, p, step, to),
             \/ step \in {"ready", "reread"}
             \/ step \in {"courier", "write"} /\ to \in ShipmentStatuses
      PROVE  ShipmentTypes'
  <2>1. DeskAgrees(d)'
    BY <1>2, TakingAgrees
  <2>2. ShipmentsTypeOK'
    BY <1>2 DEF TakesUp, ShipmentTypes, ShipmentsTypeOK, parcelRows, orderRow
  <2>3. \A e \in Desks : e # d => desk'[e] = desk[e]
    BY <1>2 DEF TakesUp
  <2> QED
    BY <2>1, <2>2, <2>3, OthersAgree DEF ShipmentTypes
<1>3. ASSUME NEW p \in Parcels,
             \/ \E by \in {"manual", "courier"} : AssignAwb(d, p, by)
             \/ SchedulePickup(d, p) \/ CancelParcel(d, p)
             \/ \E to \in ByHand : SetParcelStatus(d, p, to)
             \/ \E to \in Says : CourierReports(d, p, to)
      PROVE  ShipmentTypes'
  <2>1. \/ \E to \in {"manual", "courier"} :
              TakesUp(d, p, IF parcel[p].status = "DRAFT" THEN "ready" ELSE "reread", to)
        \/ \E step \in {"courier", "write"}, to \in ShipmentStatuses : TakesUp(d, p, step, to)
    BY <1>3, CallsDo DEF ShipmentTypes
  <2> QED
    BY <1>2, <2>1
<1> QED
  BY <1>1, <1>3 DEF Deciding

\* Steps that write no parcel.
LEMMA ReadingKeepsTypes ==
    ASSUME ShipmentTypes, NEW d \in Desks,
           \/ CountParcels(d) \/ RereadParcel(d) \/ AskCourier(d) \/ ReadParcels(d)
           \/ ReadFulfilment(d) \/ DeriveStatus(d)
    PROVE  ShipmentTypes'
<1> SUFFICES /\ desk' \in [Desks -> DeskRecord] /\ \A e \in Desks : e # d => desk'[e] = desk[e]
             /\ UNCHANGED <<parcelRows, orderRow, shipmentCrashes>> /\ DeskAgrees(d)'
  BY OthersAgree DEF ShipmentTypes, ShipmentsTypeOK, parcelRows, orderRow
<1> USE DEF ShipmentTypes
<1>1. CASE CountParcels(d)
  BY <1>1, CountDoes DEF DeskAgrees, At
<1>2. CASE RereadParcel(d)
  BY <1>2, RereadDoes, RestAgrees DEF DeskAgrees, At, Continues, DeskBecomes
<1>3. CASE AskCourier(d)
  <2>1. At(d, "courier") /\ desk[d].to \in ShipmentStatuses
    BY <1>3 DEF AskCourier, DeskAgrees
  <2>2. /\ Continues(d, "write") \/ DeskBecomes(d, AtRest)
        /\ UNCHANGED <<parcelRows, orderRow, shipmentCrashes>>
    BY <1>3, AskDoes
  <2>3. DeskAgrees(d)'
    BY <2>1, <2>2, RestAgrees DEF DeskAgrees, At, Continues, DeskBecomes
  <2> QED
    BY <2>2, <2>3 DEF Continues, DeskBecomes
<1>4. CASE ReadParcels(d)
  BY <1>4, ReadDoes DEF DeskAgrees, At
<1>5. CASE ReadFulfilment(d)
  BY <1>5, FulfilDoes DEF DeskAgrees, At
<1>6. CASE DeriveStatus(d)
  <2>1. PICK to : to = Derived(d)
    OBVIOUS
  <2>2. /\ \A e \in Desks : e # d => desk'[e] = desk[e]
        /\ desk' \in [Desks -> DeskRecord]
        /\ UNCHANGED <<parcelRows, orderRow, shipmentCrashes>>
        /\ \/ to # "none" /\ desk'[d].at = "move" /\ desk'[d].to = to
           \/ desk'[d] = AtRest
    BY <1>6, <2>1, DeriveDoes
  <2>3. to # "none" => to \in OrderStatuses
    BY <2>1, DerivedIsStatus DEF OrderStatuses
  <2>4. DeskAgrees(d)'
    BY <2>2, <2>3, RestAgrees DEF DeskAgrees, At
  <2> QED
    BY <2>2, <2>4
<1> QED
  BY <1>1, <1>2, <1>3, <1>4, <1>5, <1>6

\* Steps that write a parcel.
LEMMA WritingKeepsTypes ==
    ASSUME ShipmentTypes, NEW d \in Desks,
           \/ InsertParcel(d) \/ PromoteDraft(d) \/ RecordRegistration(d) \/ LabelParcel(d) \/ WriteStatus(d)
    PROVE  ShipmentTypes'
<1> SUFFICES /\ desk' \in [Desks -> DeskRecord] /\ \A e \in Desks : e # d => desk'[e] = desk[e]
             /\ parcel' \in [Parcels -> ParcelRow]
             /\ UNCHANGED <<journal, courierParcels, orderRow, shipmentCrashes>> /\ DeskAgrees(d)'
  BY OthersAgree DEF ShipmentTypes, ShipmentsTypeOK, orderRow
<1> USE DEF ShipmentTypes
<1>1. CASE InsertParcel(d)
  BY <1>1, InsertDoes DEF DeskAgrees, At, Inserted
<1>2. CASE PromoteDraft(d)
  BY <1>2, PromoteDoes DEF DeskAgrees, At, StatusSet, Continues
<1>3. CASE RecordRegistration(d)
  BY <1>3, RegistrationDoes DEF DeskAgrees, At, StatusSet, Continues
<1>4. CASE LabelParcel(d)
  <2>1. CASE StatusSet(d, "AWB_ASSIGNED") /\ Continues(d, "sync")
    BY <1>4, <2>1, LabelDoes DEF DeskAgrees, At, StatusSet, Continues
  <2>2. CASE DeskBecomes(d, AtRest) /\ UNCHANGED parcel
    BY <1>4, <2>2, LabelDoes, RestAgrees DEF DeskBecomes, ShipmentsTypeOK
  <2> QED
    BY <1>4, <2>1, <2>2, LabelDoes
<1>5. CASE WriteStatus(d)
  BY <1>5, WriteDoes DEF DeskAgrees, At, StatusSet, Continues
<1> QED
  BY <1>1, <1>2, <1>3, <1>4, <1>5

\* The journal, the books and the order.
LEMMA BooksKeepTypes ==
    ASSUME ShipmentTypes, NEW d \in Desks,
           \/ ClaimOperation(d) \/ CallCourier(d) \/ FinishOperation(d) \/ BookFulfilment(d) \/ MoveOrder(d)
    PROVE  ShipmentTypes'
<1> USE DEF ShipmentTypes
<1>1. CASE ClaimOperation(d)
  <2>1. /\ desk' \in [Desks -> DeskRecord] /\ \A e \in Desks : e # d => desk'[e] = desk[e]
        /\ desk'[d].at = "call" \/ desk'[d] = AtRest
        /\ journal' = journal \/ journal' = [journal EXCEPT ![desk[d].of] = "PENDING"]
        /\ UNCHANGED <<parcel, courierParcels, orderRow, shipmentCrashes>>
    BY <1>1, ClaimDoes
  <2>2. DeskAgrees(d)'
    BY <2>1, RestAgrees DEF DeskAgrees, At
  <2>3. journal' \in [Parcels -> JournalStates]
    BY <2>1 DEF ShipmentsTypeOK, JournalStates
  <2> QED
    BY <2>1, <2>2, <2>3, OthersAgree DEF ShipmentsTypeOK, orderRow
<1>2. CASE CallCourier(d)
  <2>1. /\ desk' \in [Desks -> DeskRecord] /\ \A e \in Desks : e # d => desk'[e] = desk[e]
        /\ desk'[d].at = "finish" /\ desk'[d].to \in CourierFailures \cup {"SUCCESS"}
        /\ \E made \in {0, 1} : courierParcels' = [courierParcels EXCEPT ![desk[d].of] = @ + made]
        /\ UNCHANGED <<parcel, journal, orderRow, shipmentCrashes>>
    BY <1>2, CallDoes
  <2>2. DeskAgrees(d)'
    BY <2>1 DEF DeskAgrees, At
  <2>3. courierParcels' \in [Parcels -> Nat]
    <3>1. PICK made \in {0, 1} : courierParcels' = [courierParcels EXCEPT ![desk[d].of] = @ + made]
      BY <2>1
    <3>2. desk[d].of \in Parcels /\ courierParcels[desk[d].of] + made \in Nat
      BY DEF ShipmentsTypeOK, DeskRecord
    <3> QED
      BY <3>1, <3>2 DEF ShipmentsTypeOK
  <2> QED
    BY <2>1, <2>2, <2>3, OthersAgree DEF ShipmentsTypeOK, orderRow
<1>3. CASE FinishOperation(d)
  <2>1. /\ Continues(d, "record") \/ DeskBecomes(d, AtRest)
        /\ journal' = journal \/ journal' = [journal EXCEPT ![desk[d].of] = desk[d].to]
        /\ UNCHANGED <<parcel, courierParcels, orderRow, shipmentCrashes>>
    BY <1>3, FinishDoes
  <2>2. DeskAgrees(d)'
    BY <2>1, RestAgrees DEF DeskAgrees, At, Continues, DeskBecomes
  <2>3. desk[d].to \in JournalStates
    BY <1>3, ShipmentsAssumption DEF FinishOperation, DeskAgrees, JournalStates
  <2>4. journal' \in [Parcels -> JournalStates]
    BY <2>1, <2>3 DEF ShipmentsTypeOK
  <2> QED
    BY <2>1, <2>2, <2>4, OthersAgree DEF ShipmentsTypeOK, orderRow, Continues, DeskBecomes
<1>4. CASE BookFulfilment(d)
  <2>1. /\ Continues(d, "derive") /\ fulfilled' \in UnitCounts
        /\ UNCHANGED <<parcelRows, orderStatus, shipmentCrashes>>
    BY <1>4, BookDoes
  <2>2. DeskAgrees(d)'
    BY <2>1 DEF DeskAgrees, At, Continues
  <2> QED
    BY <2>1, <2>2, OthersAgree DEF ShipmentsTypeOK, parcelRows, Continues, UnitCounts
<1>5. CASE MoveOrder(d)
  <2>1. /\ DeskBecomes(d, AtRest)
        /\ orderStatus' = IF orderStatus = desk[d].saw THEN desk[d].to ELSE orderStatus
        /\ UNCHANGED <<parcelRows, fulfilled, shipmentCrashes>>
    BY <1>5, MoveDoes
  <2>2. orderStatus' \in OrderStatuses
    BY <1>5, <2>1 DEF MoveOrder, DeskAgrees, ShipmentsTypeOK
  <2>3. DeskAgrees(d)'
    BY <2>1, RestAgrees DEF DeskBecomes
  <2> QED
    BY <2>1, <2>2, <2>3, OthersAgree DEF ShipmentsTypeOK, parcelRows, DeskBecomes
<1> QED
  BY <1>1, <1>2, <1>3, <1>4, <1>5

LEMMA DyingDoes ==
    ASSUME ShipmentsTypeOK, NEW d \in Desks, DeskDies(d)
    PROVE  /\ DeskBecomes(d, AtRest) /\ shipmentCrashes' \in 1..MaxShipmentCrashes
           /\ UNCHANGED <<parcelRows, orderRow>>
<1>1. shipmentCrashes' \in 1..MaxShipmentCrashes
  BY ShipmentsAssumption DEF DeskDies, ShipmentsTypeOK
<1> QED
  BY <1>1, DeskStops DEF DeskDies, ShipmentsTypeOK

LEMMA ShipmentStepKeepsTypes ==
    ASSUME ShipmentTypes, [ShipmentsNext]_shipmentVars
    PROVE  ShipmentTypes'
<1>1. ASSUME NEW d \in Desks, Working(d) PROVE ShipmentTypes'
  BY <1>1, ReadingKeepsTypes, WritingKeepsTypes, BooksKeepTypes DEF Working
<1>2. ASSUME NEW d \in Desks, DeskDies(d) PROVE ShipmentTypes'
  <2>1. /\ DeskBecomes(d, AtRest) /\ shipmentCrashes' \in 0..MaxShipmentCrashes
        /\ UNCHANGED <<parcelRows, orderRow>>
    BY <1>2, DyingDoes DEF ShipmentTypes
  <2>2. DeskAgrees(d)'
    BY <2>1, RestAgrees DEF DeskBecomes
  <2> QED
    BY <2>1, <2>2, OthersAgree DEF ShipmentTypes, ShipmentsTypeOK, parcelRows, orderRow, DeskBecomes
<1>3. CASE CancelOrder
  BY <1>3 DEF CancelOrder, ShipmentTypes, ShipmentsTypeOK, parcelRows, OrderStatuses, DeskAgrees, At
<1>4. CASE UNCHANGED shipmentVars
  BY <1>4 DEF shipmentVars, ShipmentTypes, ShipmentsTypeOK, DeskAgrees, At
<1> QED
  BY <1>1, <1>2, <1>3, <1>4, DecidingKeepsTypes DEF ShipmentsNext

LEMMA ShipmentsStartTyped == ShipmentsInit => ShipmentTypes
<1> SUFFICES ASSUME ShipmentsInit PROVE ShipmentTypes
  OBVIOUS
<1>1. ShipmentsTypeOK
  BY AtRestIsRecord, NoParcelIsRow, ShipmentsAssumption
     DEF ShipmentsInit, ShipmentsTypeOK, OrderStatuses, NoItems, JournalStates
<1>2. \A d \in Desks : DeskAgrees(d)
  BY DEF ShipmentsInit, DeskAgrees, At, AtRest
<1> QED
  BY <1>1, <1>2 DEF ShipmentTypes

\* The parcels, their journal, the order and the desks keep their types.
THEOREM ShipmentsTypeCorrect == ShipmentsSpec => []ShipmentsTypeOK
<1>1. ShipmentTypes => ShipmentsTypeOK
  BY DEF ShipmentTypes
<1> QED
  BY <1>1, ShipmentsStartTyped, ShipmentStepKeepsTypes, PTL DEF ShipmentsSpec

-------------------------------------------------------------------------------
(* One order at the courier *)

\* The courier refuses nothing as invalid: the one failure after which the journal lets
\* a call be repeated, by anybody and any number of times.
NothingIsInvalid == "VALIDATION" \notin CourierFailures

\* Whoever calls has made the journal entry, alone, and nobody called before.
JournalGuards ==
    /\ \A p \in Parcels : /\ journal[p] # "VALIDATION" /\ courierParcels[p] <= 1
                          /\ journal[p] = "none" => courierParcels[p] = 0
    /\ \A d \in Desks :
          /\ At(d, "call") => journal[desk[d].of] # "none" /\ courierParcels[desk[d].of] = 0
          /\ At(d, "finish") => journal[desk[d].of] # "none"
    /\ \A d, e \in Desks : At(d, "call") /\ At(e, "call") /\ desk[d].of = desk[e].of => d = e

\* A step that calls nobody.
LEMMA GuardedAside ==
    ASSUME ShipmentTypes, JournalGuards, NEW d \in Desks, \A e \in Desks : e # d => desk'[e] = desk[e],
           desk'[d].at \notin {"call", "finish"}, UNCHANGED <<journal, courierParcels>>
    PROVE  JournalGuards'
BY DEF JournalGuards, At

LEMMA TakingIsAside ==
    ASSUME ShipmentTypes, NEW d \in Desks, Deciding(d)
    PROVE  /\ \A e \in Desks : e # d => desk'[e] = desk[e]
           /\ desk'[d].at \in {"count", "ready", "reread", "courier", "write"}
           /\ UNCHANGED <<parcelRows, orderRow, shipmentCrashes>>
<1>1. CASE \E items \in [Lines -> UNION {0..Ordered[l] : l \in Lines}] : CreateParcel(d, items)
  <2>1. PICK items \in [Lines -> UNION {0..Ordered[l] : l \in Lines}] : CreateParcel(d, items)
    BY <1>1
  <2>2. items \in UnitCounts
    BY ShipmentsAssumption DEF UnitCounts
  <2> QED
    BY <2>1, <2>2, CreateDoes DEF ShipmentTypes
<1>2. ASSUME NEW p \in Parcels,
             \/ \E by \in {"manual", "courier"} : AssignAwb(d, p, by)
             \/ SchedulePickup(d, p) \/ CancelParcel(d, p)
             \/ \E to \in ByHand : SetParcelStatus(d, p, to)
             \/ \E to \in Says : CourierReports(d, p, to)
      PROVE  \E step \in {"ready", "reread", "courier", "write"}, to \in DeskTargets : TakesUp(d, p, step, to)
  <2>1. \/ \E to \in {"manual", "courier"} :
              TakesUp(d, p, IF parcel[p].status = "DRAFT" THEN "ready" ELSE "reread", to)
        \/ \E step \in {"courier", "write"}, to \in ShipmentStatuses : TakesUp(d, p, step, to)
    BY <1>2, CallsDo DEF ShipmentTypes
  <2> QED
    BY <2>1 DEF DeskTargets
<1>3. CASE \E p \in Parcels :
             \/ \E by \in {"manual", "courier"} : AssignAwb(d, p, by)
             \/ SchedulePickup(d, p) \/ CancelParcel(d, p)
             \/ \E to \in ByHand : SetParcelStatus(d, p, to)
             \/ \E to \in Says : CourierReports(d, p, to)
  <2>1. PICK p \in Parcels, step \in {"ready", "reread", "courier", "write"}, to \in DeskTargets :
           TakesUp(d, p, step, to)
    BY <1>2, <1>3
  <2> QED
    BY <2>1 DEF TakesUp
<1> QED
  BY <1>1, <1>3 DEF Deciding

LEMMA GuardedStep ==
    ASSUME NothingIsInvalid, ShipmentTypes, JournalGuards, [ShipmentsNext]_shipmentVars
    PROVE  JournalGuards'
<1> USE DEF ShipmentTypes
<1>1. ASSUME NEW d \in Desks, Deciding(d) PROVE JournalGuards'
  BY <1>1, TakingIsAside, GuardedAside DEF parcelRows
<1>2. ASSUME NEW d \in Desks, DeskDies(d) PROVE JournalGuards'
  BY <1>2, DyingDoes, GuardedAside DEF DeskBecomes, AtRest, parcelRows
<1>3. CASE CancelOrder
  BY <1>3 DEF CancelOrder, JournalGuards, parcelRows, At
<1>4. CASE UNCHANGED shipmentVars
  BY <1>4 DEF shipmentVars, JournalGuards, At
<1>5. ASSUME NEW d \in Desks,
             \/ CountParcels(d) \/ RereadParcel(d) \/ AskCourier(d) \/ ReadParcels(d)
             \/ ReadFulfilment(d) \/ DeriveStatus(d)
      PROVE  JournalGuards'
  <2>1. CASE CountParcels(d)
    BY <2>1, CountDoes, GuardedAside DEF parcelRows
  <2>2. CASE RereadParcel(d)
    BY <2>2, RereadDoes, GuardedAside DEF parcelRows, Continues, DeskBecomes, AtRest
  <2>3. CASE AskCourier(d)
    BY <2>3, AskDoes, GuardedAside DEF parcelRows, Continues, DeskBecomes, AtRest
  <2>4. CASE ReadParcels(d)
    BY <2>4, ReadDoes, GuardedAside DEF parcelRows
  <2>5. CASE ReadFulfilment(d)
    BY <2>5, FulfilDoes, GuardedAside DEF parcelRows
  <2>6. CASE DeriveStatus(d)
    BY <2>6, DeriveDoes, GuardedAside DEF parcelRows, AtRest
  <2> QED
    BY <1>5, <2>1, <2>2, <2>3, <2>4, <2>5, <2>6
<1>6. ASSUME NEW d \in Desks,
             \/ InsertParcel(d) \/ PromoteDraft(d) \/ RecordRegistration(d) \/ LabelParcel(d)
             \/ WriteStatus(d) \/ BookFulfilment(d) \/ MoveOrder(d)
      PROVE  JournalGuards'
  <2>1. CASE InsertParcel(d)
    BY <2>1, InsertDoes, GuardedAside
  <2>2. CASE PromoteDraft(d)
    BY <2>2, PromoteDoes, GuardedAside DEF Continues
  <2>3. CASE RecordRegistration(d)
    BY <2>3, RegistrationDoes, GuardedAside DEF Continues
  <2>4. CASE LabelParcel(d)
    BY <2>4, LabelDoes, GuardedAside DEF Continues, DeskBecomes, AtRest
  <2>5. CASE WriteStatus(d)
    BY <2>5, WriteDoes, GuardedAside DEF Continues
  <2>6. CASE BookFulfilment(d)
    BY <2>6, BookDoes, GuardedAside DEF Continues, parcelRows
  <2>7. CASE MoveOrder(d)
    BY <2>7, MoveDoes, GuardedAside DEF DeskBecomes, AtRest, parcelRows
  <2> QED
    BY <1>6, <2>1, <2>2, <2>3, <2>4, <2>5, <2>6, <2>7
<1>7. ASSUME NEW d \in Desks, ClaimOperation(d) PROVE JournalGuards'
  <2> DEFINE p == desk[d].of
  <2>0. p \in Parcels
    BY DEF ShipmentsTypeOK, DeskRecord
  <2>1. /\ \A e \in Desks : e # d => desk'[e] = desk[e]
        /\ \/ /\ journal[p] = "none" /\ journal' = [journal EXCEPT ![p] = "PENDING"]
              /\ desk'[d].at = "call" /\ desk'[d].of = p
           \/ journal' = journal /\ desk'[d] = AtRest
        /\ UNCHANGED courierParcels
    BY <1>7, <2>0, ClaimDoes DEF JournalGuards
  <2>2. CASE journal' = journal /\ desk'[d] = AtRest
    BY <2>1, <2>2, GuardedAside DEF AtRest
  <2>3. CASE /\ journal[p] = "none" /\ journal' = [journal EXCEPT ![p] = "PENDING"]
             /\ desk'[d].at = "call" /\ desk'[d].of = p
    <3>1. \A e \in Desks : At(e, "call") => desk[e].of # p
      BY <2>3 DEF JournalGuards
    <3>2. \A q \in Parcels : journal'[q] = IF q = p THEN "PENDING" ELSE journal[q]
      BY <2>3 DEF ShipmentsTypeOK
    <3>3. \A e \in Desks : desk[e].of \in Parcels /\ desk'[e].of = desk[e].of
      BY <2>1, <2>3 DEF ShipmentsTypeOK, DeskRecord
    <3> HIDE DEF p
    <3> QED
      BY <2>0, <2>1, <2>3, <3>1, <3>2, <3>3 DEF JournalGuards, At
  <2> QED
    BY <2>1, <2>2, <2>3
<1>8. ASSUME NEW d \in Desks, CallCourier(d) PROVE JournalGuards'
  <2> DEFINE p == desk[d].of
  <2>0. p \in Parcels /\ At(d, "call")
    BY <1>8 DEF ShipmentsTypeOK, DeskRecord, CallCourier
  <2>1. PICK made \in {0, 1} :
           /\ \A e \in Desks : e # d => desk'[e] = desk[e]
           /\ desk'[d].at = "finish" /\ desk'[d].of = p
           /\ courierParcels' = [courierParcels EXCEPT ![p] = @ + made]
           /\ UNCHANGED journal
    BY <1>8, CallDoes
  <2>2. \A q \in Parcels : courierParcels'[q] = IF q = p THEN made ELSE courierParcels[q]
    BY <2>0, <2>1 DEF ShipmentsTypeOK, JournalGuards
  <2>3. journal[p] # "none" /\ \A e \in Desks : e # d /\ At(e, "call") => desk[e].of # p
    BY <2>0 DEF JournalGuards
  <2>4. \A e \in Desks : desk[e].of \in Parcels
    BY DEF ShipmentsTypeOK, DeskRecord
  <2> HIDE DEF p
  <2> QED
    BY <2>0, <2>1, <2>2, <2>3, <2>4 DEF JournalGuards, At
<1>9. ASSUME NEW d \in Desks, FinishOperation(d) PROVE JournalGuards'
  <2> DEFINE p == desk[d].of
  <2>0. p \in Parcels /\ desk[d].to \in {"SUCCESS", "TIMEOUT"} /\ journal[p] # "none"
    BY <1>9, ShipmentsAssumption
       DEF ShipmentsTypeOK, DeskRecord, FinishOperation, DeskAgrees, NothingIsInvalid, JournalGuards
  <2>1. /\ \A e \in Desks : e # d => desk'[e] = desk[e]
        /\ desk'[d].at \notin {"call", "finish"}
        /\ journal' = journal \/ journal' = [journal EXCEPT ![p] = desk[d].to]
        /\ UNCHANGED courierParcels
    BY <1>9, FinishDoes DEF Continues, DeskBecomes, AtRest
  <2>2. \A q \in Parcels : /\ journal'[q] # "VALIDATION"
                           /\ journal'[q] = "none" <=> journal[q] = "none"
    BY <2>0, <2>1 DEF ShipmentsTypeOK, JournalGuards
  <2>3. \A e \in Desks : desk[e].of \in Parcels
    BY DEF ShipmentsTypeOK, DeskRecord
  <2> HIDE DEF p
  <2> QED
    BY <2>1, <2>2, <2>3 DEF JournalGuards, At
<1>10. ASSUME NEW d \in Desks, Working(d) PROVE JournalGuards'
  BY <1>5, <1>6, <1>7, <1>8, <1>9, <1>10 DEF Working
<1> QED
  BY <1>1, <1>2, <1>3, <1>4, <1>10 DEF ShipmentsNext

\* For any number of desks that ask for labels at once, of calls that time out after they
\* succeeded and of workers that die: providerGateway.service.ts makes one order at the
\* courier for a shipment, unless the courier refuses calls as invalid.
THEOREM OneOrderIsMade ==
    ASSUME NothingIsInvalid
    PROVE  ShipmentsSpec => []OneOrderAtCourier
<1>1. ShipmentsInit => JournalGuards
  BY DEF ShipmentsInit, JournalGuards, At, AtRest
<1>2. ShipmentTypes /\ JournalGuards /\ [ShipmentsNext]_shipmentVars => JournalGuards'
  BY GuardedStep
<1>3. JournalGuards => OneOrderAtCourier
  BY DEF JournalGuards, OneOrderAtCourier
<1> QED
  BY <1>1, <1>2, <1>3, ShipmentsStartTyped, ShipmentStepKeepsTypes, PTL DEF ShipmentsSpec

-------------------------------------------------------------------------------
(* One desk at a time *)

\* Nobody changes a parcel between what another reads of it and what it writes.
OneDesk == \A d, e \in Desks : d = e

Going == ShipmentStatuses \ {"CANCELLED"}
Active(l) == UnitsIn(parcel, l, Going)
InHand(d) == parcel[desk[d].of].status

\* What the desk has read is still so.
ReadingHolds(d) ==
    /\ desk[d].at \in {"count", "insert"} =>
          desk[d].row.items # NoItems /\ \A l \in Lines : desk[d].row.items[l] + Active(l) <= Ordered[l]
    /\ At(d, "insert") /\ desk[d].row.cod => CountedParcels = {}
    /\ At(d, "ready") => InHand(d) = "DRAFT"
    /\ At(d, "reread") => InHand(d) \in ShipmentStatuses
    /\ desk[d].at \in {"claim", "call", "finish", "record", "label"} => InHand(d) \in {"READY", "AWB_ASSIGNED"}
    /\ desk[d].at \in {"courier", "write"} =>
          /\ InHand(d) \in ShipmentStatuses /\ ShipmentMayMove(InHand(d), desk[d].to)
          /\ desk[d].to = "CANCELLATION_REQUESTED" => MayAskBack(InHand(d))

\* No line is over-shipped, the cash is collected with one parcel, and none is empty.
Packed ==
    /\ \A l \in Lines : Active(l) <= Ordered[l]
    /\ \A p, q \in CountedParcels : parcel[p].cod /\ parcel[q].cod => p = q
    /\ \A p \in Written : parcel[p].items # NoItems

Shipping == Packed /\ \A d \in Desks : ReadingHolds(d)

LEMMA ActiveIsNat ==
    ASSUME ShipmentTypes, NEW l \in Lines
    PROVE  Active(l) \in Nat /\ Ordered[l] \in Nat \ {0}
BY HeldUnits, ShipmentsAssumption DEF ShipmentTypes, ShipmentsTypeOK, Active

LEMMA RemainingIs ==
    ASSUME ShipmentTypes, NEW l \in Lines
    PROVE  Remaining(l) = IF Active(l) < Ordered[l] THEN Ordered[l] - Active(l) ELSE 0
<1>1. ShipmentStatuses \ NotShipped = Going
  BY DEF NotShipped, Going, ShipmentStatuses, ShipmentTransitions
<1> QED
  BY <1>1 DEF Remaining, Active

\* What a change of status does to the units in any set of statuses.
LEMMA StatusMovesUnits ==
    ASSUME ShipmentTypes, NEW d \in Desks, NEW to \in ShipmentStatuses, StatusSet(d, to),
           NEW l \in Lines, NEW S
    PROVE  /\ parcel[desk[d].of].items[l] \in Nat
           /\ UnitsIn(parcel, l, S) \in Nat /\ UnitsIn(parcel', l, S) \in Nat
           /\ UnitsIn(parcel', l, S) = UnitsIn(parcel, l, S)
                - (IF InHand(d) \in S THEN parcel[desk[d].of].items[l] ELSE 0)
                + (IF to \in S THEN parcel[desk[d].of].items[l] ELSE 0)
<1> DEFINE p == desk[d].of
<1>1. /\ p \in Parcels /\ parcel \in [Parcels -> ParcelRow] /\ parcel' \in [Parcels -> ParcelRow]
      /\ \A q \in Parcels : q # p => parcel'[q] = parcel[q]
      /\ parcel'[p].status = to /\ parcel'[p].items = parcel[p].items
  BY DEF StatusSet, ShipmentTypes, ShipmentsTypeOK, DeskRecord
<1>2. UnitsIn(parcel', l, S) = UnitsIn(parcel, l, S) - Holds(parcel, l, S, p) + Holds(parcel', l, S, p)
  BY <1>1, OneParcelChanges
<1>3. UnitsIn(parcel, l, S) \in Nat /\ UnitsIn(parcel', l, S) \in Nat /\ parcel[p].items[l] \in Nat
  BY <1>1, HeldUnits
<1>4. /\ Holds(parcel, l, S, p) = IF InHand(d) \in S THEN parcel[p].items[l] ELSE 0
      /\ Holds(parcel', l, S, p) = IF to \in S THEN parcel[p].items[l] ELSE 0
  BY <1>1 DEF Holds, InHand
<1> HIDE DEF p
<1> QED
  BY <1>2, <1>3, <1>4 DEF p

\* What an insertion does to them.
LEMMA InsertionAddsUnits ==
    ASSUME ShipmentTypes, NEW d \in Desks, Inserted(d), NEW l \in Lines, NEW S, "NONE" \notin S
    PROVE  /\ desk[d].row.items[l] \in Nat
           /\ UnitsIn(parcel, l, S) \in Nat /\ UnitsIn(parcel', l, S) \in Nat
           /\ UnitsIn(parcel', l, S) =
                UnitsIn(parcel, l, S) + (IF "DRAFT" \in S THEN desk[d].row.items[l] ELSE 0)
<1>1. PICK p \in Parcels \ Written :
        /\ parcel' \in [Parcels -> ParcelRow]
        /\ \A q \in Parcels : q # p => parcel'[q] = parcel[q]
        /\ parcel'[p].status = "DRAFT" /\ parcel'[p].items = desk[d].row.items
  BY DEF Inserted
<1>2. parcel \in [Parcels -> ParcelRow] /\ parcel[p].status = "NONE"
  BY <1>1 DEF ShipmentTypes, ShipmentsTypeOK, Written
<1>3. UnitsIn(parcel', l, S) = UnitsIn(parcel, l, S) - Holds(parcel, l, S, p) + Holds(parcel', l, S, p)
  BY <1>1, <1>2, OneParcelChanges
<1>4. UnitsIn(parcel, l, S) \in Nat /\ UnitsIn(parcel', l, S) \in Nat
  BY <1>1, <1>2, HeldUnits
<1>5. desk[d].row.items[l] \in Nat
  BY DEF ShipmentTypes, ShipmentsTypeOK, DeskRecord, ParcelRow
<1>6. /\ Holds(parcel, l, S, p) = 0
      /\ Holds(parcel', l, S, p) = IF "DRAFT" \in S THEN desk[d].row.items[l] ELSE 0
  BY <1>1, <1>2 DEF Holds
<1> QED
  BY <1>3, <1>4, <1>5, <1>6

\* A parcel that is cancelled stays so, and one that is not ships no more than before.
LEMMA StatusKeepsPacked ==
    ASSUME ShipmentTypes, Packed, NEW d \in Desks, NEW to \in ShipmentStatuses, StatusSet(d, to),
           InHand(d) \in ShipmentStatuses, InHand(d) = "CANCELLED" => to = "CANCELLED"
    PROVE  Packed'
<1>1. ASSUME NEW l \in Lines PROVE Active(l)' <= Ordered[l]
  <2>1. /\ parcel[desk[d].of].items[l] \in Nat /\ Active(l) \in Nat /\ Active(l)' \in Nat
        /\ Active(l)' = Active(l) - (IF InHand(d) \in Going THEN parcel[desk[d].of].items[l] ELSE 0)
                                  + (IF to \in Going THEN parcel[desk[d].of].items[l] ELSE 0)
    BY StatusMovesUnits DEF Active
  <2>2. Active(l) <= Ordered[l] /\ Ordered[l] \in Nat
    BY ActiveIsNat DEF Packed
  <2>3. to \in Going => InHand(d) \in Going
    BY DEF Going
  <2> QED
    BY <2>1, <2>2, <2>3
<1> DEFINE p == desk[d].of
<1>2. /\ p \in Parcels /\ p \in Written
      /\ \A q \in Parcels : q # p => parcel'[q] = parcel[q]
      /\ parcel'[p].status = to /\ parcel'[p].items = parcel[p].items /\ parcel'[p].cod = parcel[p].cod
  BY DEF StatusSet, ShipmentTypes, ShipmentsTypeOK, DeskRecord, InHand, Written, ShipmentStatuses,
     ShipmentTransitions
<1>3. p \in CountedParcels' => p \in CountedParcels
  BY <1>2 DEF CountedParcels, InHand, ShipmentStatuses, ShipmentTransitions
<1> HIDE DEF p
<1>4. \A q \in CountedParcels' : q \in CountedParcels /\ parcel'[q].cod = parcel[q].cod
  BY <1>2, <1>3 DEF CountedParcels
<1>5. \A q \in Written' : q \in Written /\ parcel'[q].items = parcel[q].items
  BY <1>2 DEF Written
<1> QED
  BY <1>1, <1>4, <1>5 DEF Packed

LEMMA InsertionKeepsPacked ==
    ASSUME ShipmentTypes, Packed, NEW d \in Desks, Inserted(d), At(d, "insert"), ReadingHolds(d)
    PROVE  Packed'
<1>1. ASSUME NEW l \in Lines PROVE Active(l)' <= Ordered[l]
  <2>1. "NONE" \notin Going /\ "DRAFT" \in Going
    BY DEF Going, ShipmentStatuses, ShipmentTransitions
  <2>2. Active(l)' = Active(l) + desk[d].row.items[l]
        /\ Active(l) \in Nat /\ desk[d].row.items[l] \in Nat
    BY <2>1, InsertionAddsUnits DEF Active
  <2>3. desk[d].row.items[l] + Active(l) <= Ordered[l]
    BY DEF ReadingHolds, At
  <2> QED
    BY <2>2, <2>3
<1>2. PICK p \in Parcels \ Written :
        /\ \A q \in Parcels : q # p => parcel'[q] = parcel[q]
        /\ parcel'[p].status = "DRAFT" /\ parcel'[p].items = desk[d].row.items
        /\ parcel'[p].cod = desk[d].row.cod
  BY DEF Inserted
<1>3. desk[d].row.items # NoItems /\ (desk[d].row.cod => CountedParcels = {})
  BY DEF ReadingHolds, At
<1>4. ASSUME NEW q \in Parcels, q # p
      PROVE  /\ q \in CountedParcels' => q \in CountedParcels /\ parcel'[q].cod = parcel[q].cod
             /\ q \in Written' => q \in Written /\ parcel'[q].items = parcel[q].items
  <2>1. parcel'[q] = parcel[q]
    BY <1>2, <1>4
  <2> QED
    BY <2>1 DEF CountedParcels, Written
<1>5. (\A q \in CountedParcels' : q \in Parcels) /\ (\A q \in Written' : q \in Parcels)
  BY DEF CountedParcels, Written
<1>6. \A q, r \in CountedParcels' : parcel'[q].cod /\ parcel'[r].cod => q = r
  BY <1>2, <1>3, <1>4, <1>5 DEF Packed
<1>7. \A q \in Written' : parcel'[q].items # NoItems
  BY <1>2, <1>3, <1>4, <1>5 DEF Packed
<1> QED
  BY <1>1, <1>6, <1>7 DEF Packed

LEMMA OnlyDesk ==
    ASSUME OneDesk, NEW d \in Desks, ReadingHolds(d)'
    PROVE  \A e \in Desks : ReadingHolds(e)'
BY DEF OneDesk

LEMMA PackedAside == ASSUME Packed, parcel' = parcel PROVE Packed'
BY DEF Packed, Active, CountedParcels, Written

\* A desk that goes to a step where it relies on nothing it has read.
LEMMA RelyingOnNothing ==
    ASSUME NEW d \in Desks, desk'[d].at \in {"idle", "sync", "fulfil", "book", "derive", "move"}
    PROVE  ReadingHolds(d)'
BY DEF ReadingHolds, At

LEMMA CreationIsRead ==
    ASSUME ShipmentTypes, Packed, NEW d \in Desks, NEW items \in UnitCounts, CreateParcel(d, items)
    PROVE  Packed' /\ ReadingHolds(d)'
<1>1. /\ desk'[d].at = "count" /\ desk'[d].row.items = items /\ parcel' = parcel
      /\ items # NoItems /\ \A l \in Lines : items[l] <= Remaining(l)
  BY CreateDoes DEF ShipmentTypes, parcelRows, CreateParcel
<1>2. ASSUME NEW l \in Lines PROVE items[l] + Active(l) <= Ordered[l]
  <2>1. Active(l) \in Nat /\ Ordered[l] \in Nat \ {0} /\ Active(l) <= Ordered[l] /\ items[l] \in Nat
    BY ActiveIsNat DEF Packed, UnitCounts
  <2>2. items[l] <= IF Active(l) < Ordered[l] THEN Ordered[l] - Active(l) ELSE 0
    BY <1>1, RemainingIs
  <2> QED
    BY <2>1, <2>2
<1>3. \A l \in Lines : Active(l)' = Active(l)
  BY <1>1 DEF Active
<1> QED
  BY <1>1, <1>2, <1>3, PackedAside DEF ReadingHolds, At

LEMMA CallIsRead ==
    ASSUME ShipmentTypes, Packed, NEW d \in Desks, NEW p \in Parcels,
           \/ \E by \in {"manual", "courier"} : AssignAwb(d, p, by)
           \/ SchedulePickup(d, p) \/ CancelParcel(d, p)
           \/ \E to \in ByHand : SetParcelStatus(d, p, to)
           \/ \E to \in Says : CourierReports(d, p, to)
    PROVE  Packed' /\ ReadingHolds(d)'
<1>1. p \in Written => parcel[p].status \in ShipmentStatuses
  BY DEF ShipmentTypes, ShipmentsTypeOK, ParcelRow, Written
<1>2. CASE \E to \in {"manual", "courier"} :
             TakesUp(d, p, IF parcel[p].status = "DRAFT" THEN "ready" ELSE "reread", to)
  <2>1. /\ desk'[d].at = IF parcel[p].status = "DRAFT" THEN "ready" ELSE "reread"
        /\ desk'[d].of = p /\ parcel' = parcel /\ p \in Written
    BY <1>2 DEF TakesUp, parcelRows
  <2> QED
    BY <1>1, <2>1, PackedAside DEF ReadingHolds, At, InHand
<1>3. CASE \E step \in {"courier", "write"}, to \in ShipmentStatuses :
             /\ TakesUp(d, p, step, to) /\ ShipmentMayMove(parcel[p].status, to)
             /\ to = "CANCELLATION_REQUESTED" => MayAskBack(parcel[p].status)
  <2>1. PICK step \in {"courier", "write"}, to \in ShipmentStatuses :
             /\ TakesUp(d, p, step, to) /\ ShipmentMayMove(parcel[p].status, to)
             /\ to = "CANCELLATION_REQUESTED" => MayAskBack(parcel[p].status)
    BY <1>3
  <2>2. /\ desk'[d].at = step /\ desk'[d].of = p /\ desk'[d].to = to /\ parcel' = parcel /\ p \in Written
    BY <2>1 DEF TakesUp, parcelRows
  <2> QED
    BY <1>1, <2>1, <2>2, PackedAside DEF ReadingHolds, At, InHand
<1> QED
  BY <1>2, <1>3, CallsDo DEF ShipmentTypes

LEMMA DecisionIsRead ==
    ASSUME ShipmentTypes, Packed, NEW d \in Desks, Deciding(d)
    PROVE  Packed' /\ ReadingHolds(d)'
<1>1. \A items \in [Lines -> UNION {0..Ordered[l] : l \in Lines}] : items \in UnitCounts
  BY ShipmentsAssumption DEF UnitCounts
<1> QED
  BY <1>1, CreationIsRead, CallIsRead DEF Deciding

\* A parcel's way to its label: it is READY or has its number when the desk goes on.
LEMMA LabellingIsRead ==
    ASSUME ShipmentTypes, Packed, NEW d \in Desks, ReadingHolds(d),
           \/ RereadParcel(d) \/ ClaimOperation(d) \/ CallCourier(d) \/ FinishOperation(d)
    PROVE  Packed' /\ ReadingHolds(d)'
<1>1. parcel' = parcel
  BY DEF RereadParcel, ClaimOperation, CallCourier, FinishOperation, parcelRows
<1>2. CASE RereadParcel(d)
  <2>1. CASE \E step \in {"label", "claim"} :
               /\ ShipmentMayMove(InHand(d), "AWB_ASSIGNED") /\ Continues(d, step)
    <3>1. PICK step \in {"label", "claim"} :
               /\ ShipmentMayMove(InHand(d), "AWB_ASSIGNED") /\ Continues(d, step)
      BY <2>1
    <3>2. InHand(d) \in ShipmentStatuses
      BY <1>2 DEF RereadParcel, ReadingHolds
    <3>3. InHand(d) \in {"READY", "AWB_ASSIGNED"}
      BY <3>1, <3>2 DEF ShipmentMayMove, ShipmentCanMove, ShipmentStatuses, ShipmentTransitions
    <3>4. desk'[d].at = step /\ InHand(d)' = InHand(d)
      BY <1>1, <3>1 DEF Continues, InHand
    <3> QED
      BY <1>1, <3>3, <3>4, PackedAside DEF ReadingHolds, At
  <2>2. CASE desk'[d] = AtRest
    BY <1>1, <2>2, PackedAside, RelyingOnNothing DEF AtRest
  <2> QED
    BY <1>2, <2>1, <2>2, RereadDoes DEF DeskBecomes, ShipmentTypes, InHand
<1>3. CASE ClaimOperation(d)
  <2>1. InHand(d) \in {"READY", "AWB_ASSIGNED"}
    BY <1>3 DEF ClaimOperation, ReadingHolds, At
  <2>2. CASE desk'[d].at = "call" /\ desk'[d].of = desk[d].of
    BY <1>1, <2>1, <2>2, PackedAside DEF ReadingHolds, At, InHand
  <2>3. CASE desk'[d] = AtRest
    BY <1>1, <2>3, PackedAside, RelyingOnNothing DEF AtRest
  <2> QED
    BY <1>3, <2>2, <2>3, ClaimDoes DEF ShipmentTypes
<1>4. CASE CallCourier(d)
  <2>1. InHand(d) \in {"READY", "AWB_ASSIGNED"}
    BY <1>4 DEF CallCourier, ReadingHolds, At
  <2>2. desk'[d].at = "finish" /\ desk'[d].of = desk[d].of
    BY <1>4, CallDoes DEF ShipmentTypes
  <2> QED
    BY <1>1, <2>1, <2>2, PackedAside DEF ReadingHolds, At, InHand
<1>5. CASE FinishOperation(d)
  <2>1. InHand(d) \in {"READY", "AWB_ASSIGNED"}
    BY <1>5 DEF FinishOperation, ReadingHolds, At
  <2>2. CASE Continues(d, "record")
    BY <1>1, <2>1, <2>2, PackedAside DEF ReadingHolds, At, InHand, Continues
  <2>3. CASE DeskBecomes(d, AtRest)
    BY <1>1, <2>3, PackedAside, RelyingOnNothing DEF AtRest, DeskBecomes
  <2> QED
    BY <1>5, <2>2, <2>3, FinishDoes DEF ShipmentTypes
<1> QED
  BY <1>2, <1>3, <1>4, <1>5

\* The status of a parcel is written: by hand, by the courier, on its way to the label.
\* Each write keeps to an edge, because nobody wrote since the desk read.
LEMMA WritesAreLegal ==
    ASSUME ShipmentTypes, NEW d \in Desks, ReadingHolds(d),
           \/ PromoteDraft(d) \/ RecordRegistration(d) \/ WriteStatus(d)
           \/ LabelParcel(d) /\ desk'[d].at # "idle"
    PROVE  \E to \in ShipmentStatuses :
              /\ StatusSet(d, to) /\ InHand(d) \in ShipmentStatuses
              /\ \/ InHand(d) = "DRAFT" /\ to = "READY" /\ desk'[d].at = "reread" /\ desk'[d].of = desk[d].of
                 \/ InHand(d) \in {"READY", "AWB_ASSIGNED"} /\ to = "READY"
                      /\ desk'[d].at = "label" /\ desk'[d].of = desk[d].of
                 \/ InHand(d) \in {"READY", "AWB_ASSIGNED"} /\ to = "AWB_ASSIGNED" /\ desk'[d].at = "sync"
                 \/ /\ ShipmentMayMove(InHand(d), to) /\ desk'[d].at = "sync"
                    /\ to = "CANCELLATION_REQUESTED" => MayAskBack(InHand(d))
              /\ UNCHANGED <<journal, courierParcels, orderRow, shipmentCrashes>>
<1> USE DEF ShipmentTypes
<1>0. {"READY", "AWB_ASSIGNED", "DRAFT"} \subseteq ShipmentStatuses
  BY DEF ShipmentStatuses, ShipmentTransitions
<1>1. CASE PromoteDraft(d)
  <2>1. InHand(d) = "DRAFT"
    BY <1>1 DEF PromoteDraft, ReadingHolds
  <2> QED
    BY <1>0, <1>1, <2>1, PromoteDoes DEF Continues
<1>2. CASE RecordRegistration(d)
  <2>1. InHand(d) \in {"READY", "AWB_ASSIGNED"}
    BY <1>2 DEF RecordRegistration, ReadingHolds, At
  <2> QED
    BY <1>0, <1>2, <2>1, RegistrationDoes DEF Continues
<1>3. CASE WriteStatus(d)
  <2>1. /\ InHand(d) \in ShipmentStatuses /\ ShipmentMayMove(InHand(d), desk[d].to)
        /\ desk[d].to = "CANCELLATION_REQUESTED" => MayAskBack(InHand(d))
    BY <1>3 DEF WriteStatus, ReadingHolds, At
  <2>2. /\ StatusSet(d, desk[d].to) /\ Continues(d, "sync") /\ desk[d].to \in ShipmentStatuses
        /\ UNCHANGED <<journal, courierParcels, orderRow, shipmentCrashes>>
    BY <1>3, WriteDoes
  <2> QED
    BY <2>1, <2>2 DEF Continues
<1>4. CASE LabelParcel(d) /\ desk'[d].at # "idle"
  <2>1. InHand(d) \in {"READY", "AWB_ASSIGNED"}
    BY <1>4 DEF LabelParcel, ReadingHolds, At
  <2>2. /\ StatusSet(d, "AWB_ASSIGNED") /\ Continues(d, "sync")
        /\ UNCHANGED <<journal, courierParcels, orderRow, shipmentCrashes>>
    BY <1>4, LabelDoes DEF DeskBecomes, AtRest
  <2> QED
    BY <1>0, <2>1, <2>2 DEF Continues
<1> QED
  BY <1>1, <1>2, <1>3, <1>4

LEMMA CancelledStays ==
    ASSUME NEW to \in ShipmentStatuses, ShipmentMayMove("CANCELLED", to)
    PROVE  to = "CANCELLED"
BY DEF ShipmentMayMove, ShipmentCanMove, ShipmentTransitions

LEMMA WritingIsRead ==
    ASSUME ShipmentTypes, Packed, NEW d \in Desks, ReadingHolds(d),
           \/ InsertParcel(d) \/ PromoteDraft(d) \/ RecordRegistration(d) \/ LabelParcel(d) \/ WriteStatus(d)
    PROVE  Packed' /\ ReadingHolds(d)'
<1>1. CASE InsertParcel(d)
  <2>1. Inserted(d) /\ desk'[d].at = "sync" /\ At(d, "insert")
    BY <1>1, InsertDoes DEF ShipmentTypes, InsertParcel
  <2> QED
    BY <2>1, InsertionKeepsPacked, RelyingOnNothing
<1>2. CASE LabelParcel(d) /\ desk'[d].at = "idle"
  <2>1. parcel' = parcel
    BY <1>2, LabelDoes DEF Continues, ShipmentTypes
  <2> QED
    BY <1>2, <2>1, PackedAside, RelyingOnNothing
<1>3. CASE \/ PromoteDraft(d) \/ RecordRegistration(d) \/ WriteStatus(d)
           \/ LabelParcel(d) /\ desk'[d].at # "idle"
  <2>1. PICK to \in ShipmentStatuses :
              /\ StatusSet(d, to) /\ InHand(d) \in ShipmentStatuses
              /\ \/ InHand(d) = "DRAFT" /\ to = "READY" /\ desk'[d].at = "reread" /\ desk'[d].of = desk[d].of
                 \/ InHand(d) \in {"READY", "AWB_ASSIGNED"} /\ to = "READY"
                      /\ desk'[d].at = "label" /\ desk'[d].of = desk[d].of
                 \/ InHand(d) \in {"READY", "AWB_ASSIGNED"} /\ to = "AWB_ASSIGNED" /\ desk'[d].at = "sync"
                 \/ ShipmentMayMove(InHand(d), to) /\ desk'[d].at = "sync"
    BY <1>3, WritesAreLegal
  <2>2. InHand(d) = "CANCELLED" => to = "CANCELLED"
    BY <2>1, CancelledStays
  <2>3. Packed'
    BY <2>1, <2>2, StatusKeepsPacked
  <2>4. CASE desk'[d].at = "sync"
    BY <2>3, <2>4, RelyingOnNothing
  <2>5. CASE desk'[d].at \in {"reread", "label"} /\ to = "READY" /\ desk'[d].of = desk[d].of
    <3>1. InHand(d)' = "READY"
      BY <2>1, <2>5 DEF StatusSet, InHand
    <3>2. "READY" \in ShipmentStatuses
      BY DEF ShipmentStatuses, ShipmentTransitions
    <3> QED
      BY <2>3, <2>5, <3>1, <3>2 DEF ReadingHolds, At
  <2> QED
    BY <2>1, <2>4, <2>5
<1> QED
  BY <1>1, <1>2, <1>3

LEMMA OtherWorkIsRead ==
    ASSUME ShipmentTypes, Packed, NEW d \in Desks, ReadingHolds(d),
           \/ CountParcels(d) \/ AskCourier(d) \/ ReadParcels(d) \/ ReadFulfilment(d)
           \/ BookFulfilment(d) \/ DeriveStatus(d) \/ MoveOrder(d)
    PROVE  Packed' /\ ReadingHolds(d)'
<1>0. parcel' = parcel /\ Packed' /\ \A l \in Lines : Active(l)' = Active(l)
  <2>1. parcel' = parcel
    BY DEF CountParcels, AskCourier, ReadParcels, ReadFulfilment, BookFulfilment, DeriveStatus,
       MoveOrder, parcelRows
  <2> QED
    BY <2>1, PackedAside DEF Active
<1> USE DEF ShipmentTypes
<1>1. CASE CountParcels(d)
  <2>1. /\ desk'[d].at = "insert" /\ desk'[d].row.items = desk[d].row.items
        /\ desk'[d].row.cod => CountedParcels = {}
    BY <1>1, CountDoes
  <2>2. desk[d].row.items # NoItems /\ \A l \in Lines : desk[d].row.items[l] + Active(l) <= Ordered[l]
    BY <1>1 DEF CountParcels, ReadingHolds, At
  <2>3. CountedParcels' = CountedParcels
    BY <1>0 DEF CountedParcels
  <2> QED
    BY <1>0, <2>1, <2>2, <2>3 DEF ReadingHolds, At
<1>2. CASE AskCourier(d)
  <2>1. /\ InHand(d) \in ShipmentStatuses /\ ShipmentMayMove(InHand(d), desk[d].to)
        /\ desk[d].to = "CANCELLATION_REQUESTED" => MayAskBack(InHand(d))
    BY <1>2 DEF AskCourier, ReadingHolds, At
  <2>2. CASE Continues(d, "write")
    <3>1. desk'[d].at = "write" /\ desk'[d].to = desk[d].to /\ InHand(d)' = InHand(d)
      BY <1>0, <2>2 DEF Continues, InHand
    <3> QED
      BY <1>0, <2>1, <3>1 DEF ReadingHolds, At
  <2>3. CASE DeskBecomes(d, AtRest)
    BY <1>0, <2>3, RelyingOnNothing DEF DeskBecomes, AtRest
  <2> QED
    BY <1>2, <2>2, <2>3, AskDoes
<1>3. CASE ReadParcels(d)
  BY <1>0, <1>3, ReadDoes, RelyingOnNothing
<1>4. CASE ReadFulfilment(d)
  BY <1>0, <1>4, FulfilDoes, RelyingOnNothing
<1>5. CASE BookFulfilment(d)
  BY <1>0, <1>5, BookDoes, RelyingOnNothing DEF Continues
<1>6. CASE DeriveStatus(d)
  <2>1. desk'[d].at \in {"move", "idle"}
    BY <1>6, DeriveDoes DEF AtRest
  <2> QED
    BY <1>0, <2>1, RelyingOnNothing
<1>7. CASE MoveOrder(d)
  BY <1>0, <1>7, MoveDoes, RelyingOnNothing DEF DeskBecomes, AtRest
<1> QED
  BY <1>1, <1>2, <1>3, <1>4, <1>5, <1>6, <1>7

LEMMA ShippingStep ==
    ASSUME OneDesk, ShipmentTypes, Shipping, [ShipmentsNext]_shipmentVars
    PROVE  Shipping'
<1>1. ASSUME NEW d \in Desks, Deciding(d) PROVE Shipping'
  BY <1>1, DecisionIsRead, OnlyDesk DEF Shipping
<1>2. ASSUME NEW d \in Desks, Working(d) PROVE Shipping'
  <2>1. Packed' /\ ReadingHolds(d)'
    BY <1>2, LabellingIsRead, WritingIsRead, OtherWorkIsRead DEF Working, Shipping
  <2> QED
    BY <2>1, OnlyDesk DEF Shipping
<1>3. ASSUME NEW d \in Desks, DeskDies(d) PROVE Shipping'
  <2>1. parcel' = parcel /\ desk'[d].at = "idle"
    BY <1>3, DyingDoes DEF ShipmentTypes, DeskBecomes, AtRest, parcelRows
  <2> QED
    BY <2>1, PackedAside, RelyingOnNothing, OnlyDesk DEF Shipping
<1>4. CASE CancelOrder \/ UNCHANGED shipmentVars
  <2>1. parcel' = parcel /\ desk' = desk
    BY <1>4 DEF CancelOrder, parcelRows, shipmentVars
  <2>2. \A d \in Desks : ReadingHolds(d)'
    BY <2>1 DEF Shipping, ReadingHolds, At, InHand, Active, CountedParcels
  <2> QED
    BY <2>1, <2>2, PackedAside DEF Shipping
<1> QED
  BY <1>1, <1>2, <1>3, <1>4 DEF ShipmentsNext

LEMMA ShippingStarts == ShipmentsInit => Shipping
<1> SUFFICES ASSUME ShipmentsInit PROVE Shipping
  OBVIOUS
<1>0. ShipmentTypes
  BY ShipmentsStartTyped
<1>1. \A p \in Parcels : parcel[p].status = "NONE"
  BY DEF ShipmentsInit, NoParcel
<1>2. ASSUME NEW l \in Lines PROVE Active(l) = 0
  <2>1. {p \in Parcels : parcel[p].status \in Going} = {}
    BY <1>1 DEF Going, ShipmentStatuses, ShipmentTransitions
  <2>2. DOMAIN parcel = Parcels
    BY DEF ShipmentsInit
  <2>3. Active(l) = SumFunctionOnSet([p \in Parcels |-> parcel[p].items[l]], {})
    BY <2>1, <2>2 DEF Active, UnitsIn
  <2> QED
    BY <2>3, SumOfNone
<1>3. Packed
  <2>1. CountedParcels = {} /\ Written = {}
    BY <1>1 DEF CountedParcels, Written
  <2> QED
    BY <1>0, <1>2, <2>1, ActiveIsNat DEF Packed
<1>4. \A d \in Desks : ReadingHolds(d)
  BY DEF ShipmentsInit, ReadingHolds, At, AtRest
<1> QED
  BY <1>3, <1>4 DEF Shipping

\* For any parcels, lines and crashes, and one desk at a time: however parcels are
\* cancelled, returned, lost and moved by staff or courier, no more of a line is under way
\* than was ordered, and the cash is collected with one parcel.
THEOREM NothingOverShipped ==
    ASSUME OneDesk
    PROVE  ShipmentsSpec => []NeverOverShipped
<1>1. ShipmentTypes /\ Shipping /\ [ShipmentsNext]_shipmentVars => Shipping'
  BY ShippingStep
<1>2. Shipping => NeverOverShipped
  BY DEF Shipping, Packed, NeverOverShipped, Active, Going
<1> QED
  BY <1>1, <1>2, ShippingStarts, ShipmentsStartTyped, ShipmentStepKeepsTypes, PTL DEF ShipmentsSpec

-------------------------------------------------------------------------------
(* The order follows its parcels *)

Labelled == {"AWB_ASSIGNED", "PICKUP_SCHEDULED"}
Road == OnTheWay \cup {"CANCELLATION_REQUESTED", "DELIVERED"}
\* Where a parcel of an order that is READY_TO_SHIP may not be, at rest and just written.
Away == IF AskedBackByHand THEN OnTheWay ELSE Road
FurtherAway == IF AskedBackByHand THEN {"OUT_FOR_DELIVERY", "UNDELIVERED"} ELSE Road \ {"PICKED_UP"}
Onward == {"SHIPPED", "OUT_FOR_DELIVERY", "DELIVERED", "CANCELLED"}
AtHome == {"CONFIRMED", "PROCESSING", "READY_TO_SHIP"}
Deriving == {"sync", "fulfil", "book", "derive", "move"}
AllShipped == \A l \in Lines : Remaining(l) = 0
Due == DeriveOrderStatus(ParcelStatuses, AllShipped)
SomeParcelIs(S) == \E p \in Parcels : parcel[p].status \in S
Calm == \A d \in Desks : desk[d].at \notin Deriving
OneArrived == \A p, q \in Parcels : parcel[p].status = "DELIVERED" /\ parcel[q].status = "DELIVERED" => p = q
\* Its only parcel was asked back from its label, and delivered all the same.
LeftBehind(status) == AskedBackByHand /\ status = "READY_TO_SHIP" /\ EverythingArrived /\ OneArrived

\* What a desk derives the status from is what the parcels are.
DerivingHolds(d) ==
    /\ desk[d].at \in {"fulfil", "book", "derive"} => desk[d].statuses = ParcelStatuses
    /\ desk[d].at \in {"fulfil", "book", "derive", "move"} =>
          orderStatus = desk[d].saw \/ orderStatus = "CANCELLED"
    /\ At(d, "move") => desk[d].to = Due /\ Due # "none" /\ CanTransition(desk[d].saw, Due)

\* An order that was delivered has arrived.
DeliveredArrived ==
    /\ orderStatus \in AtHome \cup Onward
    /\ orderStatus = "DELIVERED" => EverythingArrived
    /\ \A d \in Desks : DerivingHolds(d)

\* How far the order may be behind its parcels while its status is derived, and at rest.
NearlyFollowsAs(status) ==
    /\ SomeParcelIs(Road) => status \in Onward \cup {"READY_TO_SHIP"}
    /\ status = "READY_TO_SHIP" => ~SomeParcelIs(FurtherAway) /\ OneArrived
FollowsAs(status) ==
    /\ SomeParcelIs(Labelled \cup Road) => status \in Onward \cup {"READY_TO_SHIP"}
    /\ SomeParcelIs(Away) => status \in Onward
    /\ SomeParcelIs({"DELIVERED"}) => status \in Onward \/ LeftBehind(status)
    /\ EverythingArrived => status \in {"DELIVERED", "CANCELLED"} \/ LeftBehind(status)
NearlyFollows == NearlyFollowsAs(orderStatus)
Follows == FollowsAs(orderStatus)

\* The stored quantities are those of the parcels, once they are booked.
Booked ==
    /\ (\A d \in Desks : desk[d].at \notin {"sync", "fulfil", "book"}) =>
          \A l \in Lines : fulfilled[l] = UnitsOut(l)
    /\ \A d \in Desks : At(d, "book") => \A l \in Lines : desk[d].units[l] = UnitsOut(l)

FollowsParcels ==
    /\ DeliveredArrived
    /\ shipmentCrashes = 0 => NearlyFollows /\ Booked /\ (Calm => Follows)

-------------------------------------------------------------------------------
LEMMA StatusesAre ==
    ASSUME ShipmentTypes, NEW s
    PROVE  s \in ParcelStatuses <=> s # "NONE" /\ SomeParcelIs({s})
BY DEF ParcelStatuses, Written, SomeParcelIs

LEMMA StatusTypes == ASSUME ShipmentTypes PROVE ParcelStatuses \subseteq ShipmentStatuses
BY DEF ParcelStatuses, Written, ShipmentTypes, ShipmentsTypeOK, ParcelRow

\* All that is on its way has been delivered, when the order is due to be.
LEMMA DueMeansArrived ==
    ASSUME ShipmentTypes, Packed, Due = "DELIVERED"
    PROVE  EverythingArrived
<1>1. AllShipped /\ ParcelStatuses \ {"CANCELLED"} = {"DELIVERED"}
  BY DEF Due, DeriveOrderStatus, DeriveUndelivered
<1> SUFFICES ASSUME NEW l \in Lines PROVE UnitsIn(parcel, l, {"DELIVERED"}) = Ordered[l]
  BY DEF EverythingArrived
<1>2. \A p \in Parcels : parcel[p].status \in Going <=> parcel[p].status \in {"DELIVERED"}
  <2> SUFFICES ASSUME NEW p \in Parcels
               PROVE  parcel[p].status \in Going <=> parcel[p].status = "DELIVERED"
    OBVIOUS
  <2>1. parcel[p].status \in ParcelStatuses \/ parcel[p].status = "NONE"
    BY DEF ParcelStatuses, Written
  <2>2. "DELIVERED" \in Going /\ "NONE" \notin Going /\ "CANCELLED" \notin Going
    BY DEF Going, ShipmentStatuses, ShipmentTransitions
  <2> QED
    BY <1>1, <2>1, <2>2
<1>3. Active(l) = UnitsIn(parcel, l, {"DELIVERED"})
  <2>1. DOMAIN parcel = Parcels
    BY DEF ShipmentTypes, ShipmentsTypeOK
  <2>2. {p \in Parcels : parcel[p].status \in Going} = {p \in Parcels : parcel[p].status \in {"DELIVERED"}}
    BY <1>2
  <2> QED
    BY <2>1, <2>2 DEF Active, UnitsIn
<1>4. Active(l) \in Nat /\ Ordered[l] \in Nat /\ Active(l) <= Ordered[l]
  BY ActiveIsNat DEF Packed
<1>5. Remaining(l) = 0
  BY <1>1 DEF AllShipped
<1> QED
  BY <1>3, <1>4, <1>5, RemainingIs

\* And the other way round: parcels hold something, so none is left on its way.
LEMMA ArrivedMeansDue ==
    ASSUME ShipmentTypes, Packed, EverythingArrived
    PROVE  Due = "DELIVERED" /\ SomeParcelIs({"DELIVERED"})
<1>1. ASSUME NEW l \in Lines
      PROVE  /\ Remaining(l) = 0 /\ Active(l) = Ordered[l]
             /\ UnitsIn(parcel, l, {"DELIVERED"}) = Ordered[l] /\ Ordered[l] \in Nat \ {0}
  <2>1. Active(l) \in Nat /\ Ordered[l] \in Nat \ {0} /\ Active(l) <= Ordered[l]
    BY ActiveIsNat DEF Packed
  <2>2. UnitsIn(parcel, l, {"DELIVERED"}) = Ordered[l]
    BY DEF EverythingArrived
  <2>3. {"DELIVERED"} \subseteq Going /\ parcel \in [Parcels -> ParcelRow]
    BY DEF Going, ShipmentStatuses, ShipmentTransitions, ShipmentTypes, ShipmentsTypeOK
  <2>4. UnitsIn(parcel, l, {"DELIVERED"}) <= Active(l)
    BY <2>3, MoreStatuses DEF Active
  <2> QED
    BY <2>1, <2>2, <2>4, RemainingIs
<1>2. AllShipped
  BY <1>1 DEF AllShipped
<1>3. SomeParcelIs({"DELIVERED"})
  <2> SUFFICES ASSUME ~SomeParcelIs({"DELIVERED"}) PROVE FALSE
    OBVIOUS
  <2>1. PICK l \in Lines : TRUE
    BY ShipmentsAssumption
  <2>2. DOMAIN parcel = Parcels /\ {p \in Parcels : parcel[p].status \in {"DELIVERED"}} = {}
    BY DEF SomeParcelIs, ShipmentTypes, ShipmentsTypeOK
  <2>3. UnitsIn(parcel, l, {"DELIVERED"}) = SumFunctionOnSet([p \in Parcels |-> parcel[p].items[l]], {})
    BY <2>2 DEF UnitsIn
  <2> QED
    BY <1>1, <2>3, SumOfNone
<1>4. ASSUME NEW p \in Parcels, parcel[p].status \in Going, parcel[p].status # "DELIVERED" PROVE FALSE
  <2>1. PICK l \in Lines : parcel[p].items[l] # 0
    <3>1. p \in Written /\ parcel[p].items \in [Lines -> Nat]
      BY <1>4 DEF Written, Going, ShipmentStatuses, ShipmentTransitions, ShipmentTypes,
         ShipmentsTypeOK, ParcelRow
    <3>2. parcel[p].items # NoItems
      BY <3>1 DEF Packed
    <3> QED
      BY <3>1, <3>2 DEF NoItems
  <2> DEFINE f == [q \in Parcels |-> Holds(parcel, l, {"DELIVERED"}, q)]
             g == [q \in Parcels |-> Holds(parcel, l, Going, q)]
             h == [q \in Parcels |-> IF q = p THEN f[q] + g[p] ELSE f[q]]
  <2>2. parcel \in [Parcels -> ParcelRow] /\ "DELIVERED" \in Going
    BY DEF ShipmentTypes, ShipmentsTypeOK, Going, ShipmentStatuses, ShipmentTransitions
  <2>3. /\ \A q \in Parcels : Holds(parcel, l, {"DELIVERED"}, q) \in Nat
        /\ \A q \in Parcels : Holds(parcel, l, Going, q) \in Nat
        /\ parcel[p].items[l] \in Nat
        /\ UnitsIn(parcel, l, {"DELIVERED"}) = SumFunctionOnSet(f, Parcels)
        /\ UnitsIn(parcel, l, Going) = SumFunctionOnSet(g, Parcels)
    BY <2>2, HeldUnits
  <2>4. \A q \in Parcels : f[q] \in Int /\ g[q] \in Int /\ h[q] \in Int /\ h[q] <= g[q]
    <3> SUFFICES ASSUME NEW q \in Parcels PROVE f[q] \in Int /\ g[q] \in Int /\ h[q] \in Int /\ h[q] <= g[q]
      OBVIOUS
    <3>1. f[q] \in Nat /\ g[q] \in Nat /\ g[p] \in Nat
      BY <2>3
    <3>2. f[p] = 0
      BY <1>4 DEF Holds
    <3>3. f[q] <= g[q]
      BY <2>2, <2>3 DEF Holds
    <3> HIDE DEF f, g
    <3> QED
      BY <3>1, <3>2, <3>3
  <2>5. f[p] = 0 /\ g[p] = parcel[p].items[l] /\ h[p] = f[p] + g[p] /\ \A q \in Parcels \ {p} : h[q] = f[q]
    BY <1>4 DEF Holds
  <2> HIDE DEF f, g, h
  <2>6. ChangesAt(Parcels, f, h, p)
    BY <2>4, <2>5 DEF ChangesAt
  <2>7. SumFunctionOnSet(h, Parcels) = SumFunctionOnSet(f, Parcels) - f[p] + h[p]
    BY <2>6, ParcelsAreFinite, SumWithOneChanged
  <2>8. SumFunctionOnSet(h, Parcels) <= SumFunctionOnSet(g, Parcels)
    BY <2>4, ParcelsAreFinite, SumAtMost
  <2>9. SumFunctionOnSet(f, Parcels) = Ordered[l] /\ SumFunctionOnSet(g, Parcels) = Ordered[l]
    BY <1>1, <2>3 DEF Active
  <2>10. Ordered[l] \in Nat /\ parcel[p].items[l] \in Nat /\ parcel[p].items[l] # 0
    BY <1>1, <2>1, <2>3
  <2> QED
    BY <2>5, <2>7, <2>8, <2>9, <2>10
<1>5. ParcelStatuses \ {"CANCELLED"} = {"DELIVERED"}
  <2>1. "DELIVERED" \in ParcelStatuses
    BY <1>3, StatusesAre
  <2>2. ASSUME NEW s \in ParcelStatuses, s # "CANCELLED", s # "DELIVERED" PROVE FALSE
    <3>1. s \in Going
      BY <2>2, StatusTypes DEF Going
    <3>2. PICK p \in Parcels : parcel[p].status = s
      BY DEF ParcelStatuses, Written
    <3> QED
      BY <1>4, <2>2, <3>1, <3>2
  <2> QED
    BY <2>1, <2>2
<1> QED
  BY <1>2, <1>3, <1>5 DEF Due, DeriveOrderStatus

\* A parcel on the road, and a label, say what the order is due to be.
LEMMA RoadShips ==
    ASSUME ShipmentTypes, NEW s \in {"PICKED_UP", "IN_TRANSIT", "UNDELIVERED", "RTO_INITIATED", "DELIVERED"},
           SomeParcelIs({s}), ~SomeParcelIs({"OUT_FOR_DELIVERY"})
    PROVE  Due = "SHIPPED" \/ (s = "DELIVERED" /\ Due = "DELIVERED")
<1> DEFINE there == ParcelStatuses \ {"CANCELLED"}
<1>1. s \in there /\ "OUT_FOR_DELIVERY" \notin there
  BY StatusesAre
<1> HIDE DEF there
<1>2. DeriveUndelivered(there) = "SHIPPED"
  <2>1. /\ there # {} /\ "OUT_FOR_DELIVERY" \notin there
        /\ there \cap {"PICKED_UP", "IN_TRANSIT", "UNDELIVERED", "RTO_INITIATED", "DELIVERED"} # {}
    BY <1>1
  <2> QED
    BY <2>1 DEF DeriveUndelivered
<1>3. \/ Due = DeriveUndelivered(there)
      \/ there = {"DELIVERED"} /\ Due = "DELIVERED"
  BY DEF Due, DeriveOrderStatus, there
<1>4. there = {"DELIVERED"} => s = "DELIVERED"
  BY <1>1
<1> QED
  BY <1>2, <1>3, <1>4

LEMMA LabelledIsReady ==
    ASSUME ShipmentTypes, SomeParcelIs(Labelled), ~SomeParcelIs(Road)
    PROVE  Due = "READY_TO_SHIP"
<1> DEFINE there == ParcelStatuses \ {"CANCELLED"}
<1>1. PICK s \in Labelled : s \in there
  BY StatusesAre DEF SomeParcelIs, Labelled
<1>2. \A o \in there : o \notin Road
  BY StatusesAre DEF SomeParcelIs
<1> HIDE DEF there
<1>3. DeriveUndelivered(there) = "READY_TO_SHIP" /\ there # {"DELIVERED"}
  <2>1. /\ there # {} /\ "OUT_FOR_DELIVERY" \notin there
        /\ there \cap {"PICKED_UP", "IN_TRANSIT", "UNDELIVERED", "RTO_INITIATED", "DELIVERED"} = {}
        /\ there \cap {"AWB_ASSIGNED", "PICKUP_SCHEDULED", "READY"} # {}
    BY <1>1, <1>2 DEF Labelled, Road, OnTheWay
  <2> QED
    BY <2>1 DEF DeriveUndelivered
<1> QED
  BY <1>3 DEF Due, DeriveOrderStatus, there

\* What is said of the parcels alone.
LEMMA ParcelsStay ==
    ASSUME parcel' = parcel
    PROVE  /\ EverythingArrived' <=> EverythingArrived
           /\ \A S \in SUBSET ShipmentStatuses : SomeParcelIs(S)' <=> SomeParcelIs(S)
           /\ \A l \in Lines : UnitsOut(l)' = UnitsOut(l)
           /\ ParcelStatuses' = ParcelStatuses /\ Due' = Due /\ (OneArrived' <=> OneArrived)
BY DEF EverythingArrived, OneArrived, SomeParcelIs, UnitsOut, ParcelStatuses, Written, Due, AllShipped, Remaining

LEMMA StatusMoves ==
    ASSUME parcel' = parcel
    PROVE  /\ NearlyFollowsAs(orderStatus') <=> NearlyFollows'
           /\ FollowsAs(orderStatus') <=> Follows'
BY DEF NearlyFollows, Follows, NearlyFollowsAs, FollowsAs, LeftBehind, EverythingArrived, OneArrived, SomeParcelIs

LEMMA RoadsAre ==
    /\ FurtherAway \subseteq Away /\ Away \subseteq Road /\ "OUT_FOR_DELIVERY" \in FurtherAway
    /\ Away \ FurtherAway \subseteq {"PICKED_UP", "IN_TRANSIT", "RTO_INITIATED"}
    /\ OnTheWay \subseteq Away
    /\ "DELIVERED" \in Road /\ (~AskedBackByHand => "DELIVERED" \in FurtherAway)
    /\ "READY_TO_SHIP" \notin Onward
BY DEF FurtherAway, Away, Road, OnTheWay, Onward

\* What holds at rest holds while the status is derived.
LEMMA FollowingIsNearly ==
    ASSUME NEW n, FollowsAs(n)
    PROVE  NearlyFollowsAs(n)
<1>1. ASSUME SomeParcelIs(FurtherAway) PROVE n \in Onward
  BY <1>1, RoadsAre DEF FollowsAs, SomeParcelIs
<1>2. ASSUME n \notin Onward PROVE OneArrived
  BY <1>2 DEF FollowsAs, LeftBehind, OneArrived, SomeParcelIs
<1>3. SomeParcelIs(Road) => n \in Onward \cup {"READY_TO_SHIP"}
  BY DEF FollowsAs, SomeParcelIs
<1> QED
  BY <1>1, <1>2, <1>3, RoadsAre DEF NearlyFollowsAs

\* The status that a derivation leaves follows the parcels.
LEMMA Settles ==
    ASSUME ShipmentTypes, Packed, NearlyFollows, orderStatus \in AtHome \cup Onward,
           NEW n, Due # "none" /\ CanTransition(orderStatus, Due) => n = Due,
           Due = "none" \/ ~CanTransition(orderStatus, Due) => n = orderStatus
    PROVE  FollowsAs(n)
<1>0. Due \in {"none", "DELIVERED", "OUT_FOR_DELIVERY", "SHIPPED", "READY_TO_SHIP", "PROCESSING"}
  BY DEF Due, DeriveOrderStatus, DeriveUndelivered
<1>1. ASSUME orderStatus \in Onward PROVE n \in Onward
  BY <1>0, <1>1 DEF Onward, CanTransition, OrderTransitions
<1>2. ASSUME orderStatus = "READY_TO_SHIP"
      PROVE  IF Due = "SHIPPED" THEN n = "SHIPPED" ELSE n = "READY_TO_SHIP"
  BY <1>0, <1>2 DEF CanTransition, OrderTransitions
<1>3. SomeParcelIs(Road) => orderStatus \in Onward \cup {"READY_TO_SHIP"}
  BY DEF NearlyFollows, NearlyFollowsAs
<1>4. orderStatus = "READY_TO_SHIP" => ~SomeParcelIs(FurtherAway) /\ OneArrived
  BY DEF NearlyFollows, NearlyFollowsAs
<1>5. orderStatus = "READY_TO_SHIP" => ~SomeParcelIs({"OUT_FOR_DELIVERY"})
  BY <1>4, RoadsAre DEF SomeParcelIs
<1>6. "SHIPPED" \in Onward
  BY DEF Onward
<1>7. ASSUME SomeParcelIs(Labelled \cup Road) PROVE n \in Onward \cup {"READY_TO_SHIP"}
  <2>1. CASE SomeParcelIs(Road)
    BY <1>1, <1>2, <1>3, <1>6, <2>1
  <2>2. CASE ~SomeParcelIs(Road) /\ orderStatus \in AtHome
    <3>1. SomeParcelIs(Labelled)
      BY <1>7, <2>2 DEF SomeParcelIs
    <3>2. Due = "READY_TO_SHIP"
      BY <2>2, <3>1, LabelledIsReady
    <3> QED
      BY <2>2, <3>2 DEF AtHome, CanTransition, OrderTransitions
  <2> QED
    BY <1>1, <2>1, <2>2
<1>8. ASSUME SomeParcelIs(Away) PROVE n \in Onward
  <2>1. CASE orderStatus = "READY_TO_SHIP"
    <3>1. PICK s \in Away : SomeParcelIs({s})
      BY <1>8 DEF SomeParcelIs
    <3>2. s \notin FurtherAway
      BY <1>4, <2>1, <3>1 DEF SomeParcelIs
    <3>3. s \in {"PICKED_UP", "IN_TRANSIT", "RTO_INITIATED"}
      BY <3>1, <3>2, RoadsAre
    <3>4. Due = "SHIPPED"
      BY <1>5, <2>1, <3>1, <3>3, RoadShips
    <3> QED
      BY <1>2, <1>6, <2>1, <3>4
  <2>2. SomeParcelIs(Road)
    BY <1>8, RoadsAre DEF SomeParcelIs
  <2> QED
    BY <1>1, <1>3, <2>1, <2>2
<1>9. ASSUME SomeParcelIs({"DELIVERED"}) PROVE n \in Onward \/ LeftBehind(n)
  <2>1. CASE orderStatus = "READY_TO_SHIP"
    <3>1. AskedBackByHand /\ OneArrived
      BY <1>4, <1>9, <2>1, RoadsAre DEF SomeParcelIs
    <3>2. Due = "SHIPPED" \/ Due = "DELIVERED"
      BY <1>5, <1>9, <2>1, RoadShips
    <3>3. Due = "DELIVERED" => EverythingArrived
      BY DueMeansArrived
    <3> QED
      BY <1>2, <1>6, <2>1, <3>1, <3>2, <3>3 DEF LeftBehind
  <2>2. SomeParcelIs(Road)
    BY <1>9, RoadsAre DEF SomeParcelIs
  <2> QED
    BY <1>1, <1>3, <2>1, <2>2
<1>10. ASSUME EverythingArrived PROVE n \in {"DELIVERED", "CANCELLED"} \/ LeftBehind(n)
  <2>1. Due = "DELIVERED" /\ SomeParcelIs({"DELIVERED"})
    BY <1>10, ArrivedMeansDue
  <2>2. CASE orderStatus = "READY_TO_SHIP"
    BY <1>2, <1>9, <2>1, <2>2, RoadsAre
  <2>3. CASE orderStatus \in Onward
    BY <2>1, <2>3 DEF Onward, CanTransition, OrderTransitions
  <2>4. SomeParcelIs(Road)
    BY <2>1, RoadsAre DEF SomeParcelIs
  <2> QED
    BY <1>3, <2>2, <2>3, <2>4
<1> QED
  BY <1>7, <1>8, <1>9, <1>10 DEF FollowsAs

\* Steps of a desk that neither touch the order and its parcels nor derive anything.
LEMMA AsideFollows ==
    ASSUME OneDesk, FollowsParcels, NEW d \in Desks, desk[d].at \notin Deriving, desk'[d].at \notin Deriving,
           UNCHANGED <<parcel, orderStatus, fulfilled, shipmentCrashes>>
    PROVE  FollowsParcels'
<1>1. \A e \in Desks : e = d
  BY DEF OneDesk
<1>2. DeliveredArrived'
  <2>1. \A e \in Desks : DerivingHolds(e)'
    BY <1>1 DEF DerivingHolds, At, Deriving
  <2> QED
    BY <2>1, ParcelsStay DEF FollowsParcels, DeliveredArrived
<1>3. CASE shipmentCrashes # 0
  BY <1>2, <1>3 DEF FollowsParcels
<1>4. CASE shipmentCrashes = 0
  <2>1. NearlyFollows /\ Booked /\ Follows
    BY <1>1, <1>4 DEF FollowsParcels, Calm
  <2>2. NearlyFollows' /\ Follows'
    BY <2>1, StatusMoves DEF NearlyFollows, Follows
  <2>3. Booked'
    <3>1. \A l \in Lines : fulfilled[l] = UnitsOut(l)
      BY <1>1, <2>1 DEF Booked, Deriving
    <3> QED
      BY <1>1, <3>1, ParcelsStay DEF Booked, At, Deriving
  <2> QED
    BY <1>2, <2>2, <2>3 DEF FollowsParcels
<1> QED
  BY <1>3, <1>4

\* A delivered unit stays delivered: DELIVERED has no edge.
LEMMA DeliveredStays ==
    ASSUME ShipmentTypes, Packed', NEW d \in Desks, NEW to \in ShipmentStatuses, StatusSet(d, to),
           InHand(d) = "DELIVERED" => to = "DELIVERED", EverythingArrived
    PROVE  EverythingArrived'
<1> SUFFICES ASSUME NEW l \in Lines PROVE UnitsIn(parcel', l, {"DELIVERED"}) = Ordered[l]
  BY DEF EverythingArrived
<1>1. /\ parcel[desk[d].of].items[l] \in Nat
      /\ UnitsIn(parcel, l, {"DELIVERED"}) \in Nat /\ UnitsIn(parcel', l, {"DELIVERED"}) \in Nat
      /\ UnitsIn(parcel', l, {"DELIVERED"}) = UnitsIn(parcel, l, {"DELIVERED"})
           - (IF InHand(d) = "DELIVERED" THEN parcel[desk[d].of].items[l] ELSE 0)
           + (IF to = "DELIVERED" THEN parcel[desk[d].of].items[l] ELSE 0)
  <2>1. {"DELIVERED"} = {"DELIVERED"} /\ \A s : s \in {"DELIVERED"} <=> s = "DELIVERED"
    OBVIOUS
  <2> QED
    BY <2>1, StatusMovesUnits
<1>2. UnitsIn(parcel, l, {"DELIVERED"}) = Ordered[l] /\ Ordered[l] \in Nat
  BY ShipmentsAssumption DEF EverythingArrived
<1>3. UnitsIn(parcel', l, {"DELIVERED"}) <= Ordered[l]
  <2>1. {"DELIVERED"} \subseteq Going /\ parcel' \in [Parcels -> ParcelRow]
    BY DEF Going, ShipmentStatuses, ShipmentTransitions, StatusSet
  <2>2. UnitsIn(parcel', l, {"DELIVERED"}) <= UnitsIn(parcel', l, Going)
    BY <2>1, MoreStatuses
  <2>3. UnitsIn(parcel', l, Going) <= Ordered[l] /\ UnitsIn(parcel', l, Going) \in Nat
    BY <2>1, HeldUnits DEF Packed, Active
  <2> QED
    BY <1>1, <1>2, <2>2, <2>3
<1> QED
  BY <1>1, <1>2, <1>3

\* The edges that lead onto the road.
LEMMA EdgesToTheRoad ==
    ASSUME NEW from \in ShipmentStatuses, NEW to \in Road, ShipmentMayMove(from, to),
           to = "CANCELLATION_REQUESTED" => MayAskBack(from)
    PROVE  from \in Labelled \cup Road /\ (to \in FurtherAway => from \in Away)
<1>1. from \in Labelled \cup Road
  BY DEF Road, OnTheWay, Labelled, MayAskBack, CollectedStatuses, ShipmentMayMove, ShipmentCanMove,
     ShipmentStatuses, ShipmentTransitions
<1>2. CASE AskedBackByHand
  BY <1>1, <1>2 DEF FurtherAway, Away, OnTheWay, ShipmentMayMove, ShipmentCanMove, ShipmentStatuses,
     ShipmentTransitions
<1>3. CASE ~AskedBackByHand
  BY <1>1, <1>3 DEF FurtherAway, Away, Road, OnTheWay, MayAskBack, CollectedStatuses, ShipmentMayMove,
     ShipmentCanMove, ShipmentStatuses, ShipmentTransitions
<1> QED
  BY <1>1, <1>2, <1>3

\* When an order is left behind all of it has arrived: nothing is left to arrive.
LEMMA NoSecondArrival ==
    ASSUME ShipmentTypes, Packed, Follows, orderStatus = "READY_TO_SHIP", NEW d \in Desks,
           NEW to \in ShipmentStatuses, StatusSet(d, to), InHand(d) \in ShipmentStatuses,
           ShipmentMayMove(InHand(d), to) \/ to \in {"READY", "AWB_ASSIGNED"}
    PROVE  OneArrived'
<1> SUFFICES ASSUME NEW p \in Parcels, NEW q \in Parcels, p # q, p # desk[d].of,
                    parcel'[p].status = "DELIVERED", parcel'[q].status = "DELIVERED"
             PROVE  FALSE
  BY DEF OneArrived
<1>1. parcel[p].status = "DELIVERED"
  BY DEF StatusSet
<1>2. EverythingArrived /\ OneArrived
  BY <1>1, RoadsAre DEF Follows, FollowsAs, LeftBehind, SomeParcelIs
<1>3. parcel[q].status # "DELIVERED" /\ q = desk[d].of
  BY <1>1, <1>2 DEF OneArrived, StatusSet
<1>4. to = "DELIVERED" /\ InHand(d) = parcel[q].status
  BY <1>3 DEF StatusSet, InHand
<1>5. ParcelStatuses \ {"CANCELLED"} = {"DELIVERED"}
  BY <1>2, ArrivedMeansDue DEF Due, DeriveOrderStatus, DeriveUndelivered
<1>6. InHand(d) \in ParcelStatuses
  BY <1>3, <1>4 DEF ParcelStatuses, Written, ShipmentStatuses, ShipmentTransitions
<1>7. InHand(d) = "CANCELLED"
  BY <1>3, <1>4, <1>5, <1>6
<1> QED
  BY <1>4, <1>7, CancelledStays

\* A write that is followed by a derivation.
LEMMA WriteThenDerive ==
    ASSUME OneDesk, ShipmentTypes, Packed, Packed', FollowsParcels, NEW d \in Desks, desk[d].at \notin Deriving,
           NEW to \in ShipmentStatuses, StatusSet(d, to), InHand(d) \in ShipmentStatuses,
           \/ ShipmentMayMove(InHand(d), to)
           \/ to \in {"READY", "AWB_ASSIGNED"} /\ InHand(d) # "DELIVERED",
           to = "CANCELLATION_REQUESTED" => MayAskBack(InHand(d)),
           desk'[d].at = "sync", UNCHANGED <<orderStatus, shipmentCrashes>>
    PROVE  FollowsParcels'
<1>1. \A e \in Desks : e = d
  BY DEF OneDesk
<1>2. DeliveredArrived'
  <2>1. \A e \in Desks : DerivingHolds(e)'
    BY <1>1 DEF DerivingHolds, At
  <2>2. InHand(d) = "DELIVERED" => to = "DELIVERED"
    BY DEF ShipmentMayMove, ShipmentCanMove, ShipmentTransitions
  <2>3. EverythingArrived => EverythingArrived'
    BY <2>2, DeliveredStays
  <2> QED
    BY <2>1, <2>3 DEF FollowsParcels, DeliveredArrived
<1>3. CASE shipmentCrashes # 0
  BY <1>2, <1>3 DEF FollowsParcels
<1>4. CASE shipmentCrashes = 0
  <2>1. NearlyFollows /\ Follows
    BY <1>1, <1>4 DEF FollowsParcels, Calm
  <2>2. \A p \in Parcels : p # desk[d].of => parcel'[p] = parcel[p]
    BY DEF StatusSet
  <2>3. parcel'[desk[d].of].status = to /\ desk[d].of \in Parcels
    BY DEF StatusSet, ShipmentTypes, ShipmentsTypeOK, DeskRecord
  <2>4. ASSUME NEW p \in Parcels, parcel'[p].status \in Road
        PROVE  /\ SomeParcelIs(Labelled \cup Road)
               /\ parcel'[p].status \in FurtherAway => SomeParcelIs(Away)
    <3>1. CASE p # desk[d].of
      BY <2>2, <2>4, <3>1, RoadsAre DEF SomeParcelIs
    <3>2. CASE p = desk[d].of
      <4>1. to \in Road /\ ShipmentMayMove(InHand(d), to)
        BY <2>3, <2>4, <3>2 DEF Road, OnTheWay
      <4>2. InHand(d) \in Labelled \cup Road /\ (to \in FurtherAway => InHand(d) \in Away)
        BY <4>1, EdgesToTheRoad
      <4> QED
        BY <2>3, <3>2, <4>2 DEF SomeParcelIs, InHand
    <3> QED
      BY <3>1, <3>2
  <2>5. NearlyFollows'
    <3>1. SomeParcelIs(Road)' => SomeParcelIs(Labelled \cup Road)
      BY <2>4 DEF SomeParcelIs
    <3>2. SomeParcelIs(FurtherAway)' => SomeParcelIs(Away)
      BY <2>4, RoadsAre DEF SomeParcelIs
    <3>3. orderStatus = "READY_TO_SHIP" => OneArrived'
      BY <2>1, NoSecondArrival
    <3> QED
      BY <2>1, <3>1, <3>2, <3>3, RoadsAre DEF NearlyFollows, NearlyFollowsAs, Follows, FollowsAs
  <2>6. Booked' /\ ~Calm'
    BY <1>1 DEF Booked, Calm, At, Deriving
  <2> QED
    BY <1>2, <2>5, <2>6 DEF FollowsParcels
<1> QED
  BY <1>3, <1>4

\* A parcel that gets ready is not on its way yet.
LEMMA ReadyFollows ==
    ASSUME OneDesk, ShipmentTypes, Packed', FollowsParcels, NEW d \in Desks, desk[d].at \notin Deriving,
           StatusSet(d, "READY"), InHand(d) \in {"DRAFT", "READY", "AWB_ASSIGNED"},
           desk'[d].at \in {"reread", "label"}, UNCHANGED <<orderStatus, fulfilled, shipmentCrashes>>
    PROVE  FollowsParcels'
<1>0. "READY" \in ShipmentStatuses
  BY DEF ShipmentStatuses, ShipmentTransitions
<1>1. \A e \in Desks : e = d
  BY DEF OneDesk
<1>2. ASSUME NEW l \in Lines
      PROVE  /\ UnitsIn(parcel', l, {"DELIVERED"}) = UnitsIn(parcel, l, {"DELIVERED"})
             /\ UnitsOut(l)' = UnitsOut(l)
  <2>1. /\ UnitsIn(parcel, l, {"DELIVERED"}) \in Nat /\ UnitsIn(parcel, l, DispatchedStatuses) \in Nat
        /\ InHand(d) \notin {"DELIVERED"} /\ "READY" \notin {"DELIVERED"}
        /\ InHand(d) \notin DispatchedStatuses /\ "READY" \notin DispatchedStatuses
    BY HeldUnits DEF DispatchedStatuses, ShipmentTypes, ShipmentsTypeOK
  <2>2. UnitsIn(parcel', l, {"DELIVERED"}) = UnitsIn(parcel, l, {"DELIVERED"}) - 0 + 0
    BY <1>0, <2>1, StatusMovesUnits
  <2>3. UnitsIn(parcel', l, DispatchedStatuses) = UnitsIn(parcel, l, DispatchedStatuses) - 0 + 0
    BY <1>0, <2>1, StatusMovesUnits
  <2> QED
    BY <2>1, <2>2, <2>3 DEF UnitsOut
<1>3. EverythingArrived' <=> EverythingArrived
  BY <1>2 DEF EverythingArrived
<1>4. ASSUME NEW S, "READY" \notin S, SomeParcelIs(S)' PROVE SomeParcelIs(S)
  <2>1. PICK p \in Parcels : parcel'[p].status \in S
    BY <1>4 DEF SomeParcelIs
  <2>2. p # desk[d].of
    BY <1>4, <2>1 DEF StatusSet
  <2> QED
    BY <2>1, <2>2 DEF StatusSet, SomeParcelIs
<1>5. \A p \in Parcels : parcel'[p].status = "DELIVERED" <=> parcel[p].status = "DELIVERED"
  BY DEF StatusSet, InHand
<1>6. DeliveredArrived'
  <2>1. \A e \in Desks : DerivingHolds(e)'
    BY <1>1 DEF DerivingHolds, At
  <2> QED
    BY <1>3, <2>1 DEF FollowsParcels, DeliveredArrived
<1>7. CASE shipmentCrashes # 0
  BY <1>6, <1>7 DEF FollowsParcels
<1>8. CASE shipmentCrashes = 0
  <2>1. NearlyFollows /\ Booked /\ Follows
    BY <1>1, <1>8 DEF FollowsParcels, Calm
  <2>2. /\ SomeParcelIs(Road)' => SomeParcelIs(Road)
        /\ SomeParcelIs(Labelled \cup Road)' => SomeParcelIs(Labelled \cup Road)
        /\ SomeParcelIs(FurtherAway)' => SomeParcelIs(FurtherAway)
        /\ SomeParcelIs(Away)' => SomeParcelIs(Away)
        /\ SomeParcelIs({"DELIVERED"})' => SomeParcelIs({"DELIVERED"})
    <3>1. "READY" \notin Labelled \cup Road /\ "READY" # "DELIVERED"
      BY DEF Labelled, Road, OnTheWay
    <3> QED
      BY <1>4, <3>1, RoadsAre
  <2>3. OneArrived' <=> OneArrived
    BY <1>5 DEF OneArrived
  <2>4. Follows'
    BY <1>3, <2>1, <2>2, <2>3 DEF Follows, FollowsAs, LeftBehind
  <2>5. NearlyFollows'
    BY <2>1, <2>2, <2>3 DEF NearlyFollows, NearlyFollowsAs
  <2>6. Booked'
    <3>1. \A l \in Lines : fulfilled[l] = UnitsOut(l)
      BY <1>1, <2>1 DEF Booked, Deriving
    <3> QED
      BY <1>1, <1>2, <3>1 DEF Booked, At
  <2> QED
    BY <1>6, <2>6, <2>4, <2>5 DEF FollowsParcels
<1> QED
  BY <1>7, <1>8

\* A new parcel is not on its way yet, and its desk derives the status next.
LEMMA InsertThenDerive ==
    ASSUME OneDesk, ShipmentTypes, FollowsParcels, NEW d \in Desks, desk[d].at \notin Deriving,
           Inserted(d), desk'[d].at = "sync", UNCHANGED <<orderStatus, shipmentCrashes>>
    PROVE  FollowsParcels'
<1>1. \A e \in Desks : e = d
  BY DEF OneDesk
<1>2. ASSUME NEW l \in Lines
      PROVE  UnitsIn(parcel', l, {"DELIVERED"}) = UnitsIn(parcel, l, {"DELIVERED"})
  <2>1. "NONE" \notin {"DELIVERED"} /\ "DRAFT" \notin {"DELIVERED"}
    OBVIOUS
  <2>2. /\ UnitsIn(parcel, l, {"DELIVERED"}) \in Nat
        /\ UnitsIn(parcel', l, {"DELIVERED"}) = UnitsIn(parcel, l, {"DELIVERED"}) + 0
    BY <2>1, InsertionAddsUnits
  <2> QED
    BY <2>2
<1>3. DeliveredArrived'
  <2>1. \A e \in Desks : DerivingHolds(e)'
    BY <1>1 DEF DerivingHolds, At
  <2>2. EverythingArrived' <=> EverythingArrived
    BY <1>2 DEF EverythingArrived
  <2> QED
    BY <2>1, <2>2 DEF FollowsParcels, DeliveredArrived
<1>4. CASE shipmentCrashes # 0
  BY <1>3, <1>4 DEF FollowsParcels
<1>5. CASE shipmentCrashes = 0
  <2>1. NearlyFollows
    BY <1>5 DEF FollowsParcels
  <2>2. PICK q \in Parcels : /\ \A p \in Parcels : p # q => parcel'[p] = parcel[p]
                             /\ parcel'[q].status = "DRAFT"
    BY DEF Inserted
  <2>3. SomeParcelIs(Road)' => SomeParcelIs(Road)
    <3>1. "DRAFT" \notin Road
      BY DEF Road, OnTheWay
    <3> QED
      BY <2>2, <3>1 DEF SomeParcelIs
  <2>4. SomeParcelIs(FurtherAway)' => SomeParcelIs(FurtherAway)
    <3>1. "DRAFT" \notin FurtherAway
      BY RoadsAre DEF Road, OnTheWay
    <3> QED
      BY <2>2, <3>1 DEF SomeParcelIs
  <2>5. OneArrived => OneArrived'
    BY <2>2 DEF OneArrived
  <2>6. NearlyFollows'
    BY <2>1, <2>3, <2>4, <2>5 DEF NearlyFollows, NearlyFollowsAs
  <2>7. Booked' /\ ~Calm'
    BY <1>1 DEF Booked, Calm, At, Deriving
  <2> QED
    BY <1>3, <2>6, <2>7 DEF FollowsParcels
<1> QED
  BY <1>4, <1>5

LEMMA WritingFollows ==
    ASSUME OneDesk, ShipmentTypes, Shipping, FollowsParcels, NEW d \in Desks,
           \/ InsertParcel(d) \/ PromoteDraft(d) \/ RecordRegistration(d) \/ LabelParcel(d) \/ WriteStatus(d)
    PROVE  FollowsParcels'
<1>0. ReadingHolds(d) /\ Packed
  BY DEF Shipping
<1>1. Packed'
  BY <1>0, WritingIsRead
<1>2. desk[d].at \notin Deriving
  BY DEF InsertParcel, PromoteDraft, RecordRegistration, LabelParcel, WriteStatus, At, Deriving
<1>3. CASE InsertParcel(d)
  BY <1>2, <1>3, InsertDoes, InsertThenDerive DEF ShipmentTypes, orderRow
<1>4. CASE LabelParcel(d) /\ desk'[d].at = "idle"
  <2>1. UNCHANGED <<parcel, orderStatus, fulfilled, shipmentCrashes>> /\ desk'[d].at \notin Deriving
    BY <1>4, LabelDoes DEF Continues, ShipmentTypes, orderRow, Deriving
  <2> QED
    BY <1>2, <2>1, AsideFollows
<1>5. CASE \/ PromoteDraft(d) \/ RecordRegistration(d) \/ WriteStatus(d)
           \/ LabelParcel(d) /\ desk'[d].at # "idle"
  <2>1. PICK to \in ShipmentStatuses :
              /\ StatusSet(d, to) /\ InHand(d) \in ShipmentStatuses
              /\ \/ InHand(d) = "DRAFT" /\ to = "READY" /\ desk'[d].at = "reread" /\ desk'[d].of = desk[d].of
                 \/ InHand(d) \in {"READY", "AWB_ASSIGNED"} /\ to = "READY"
                      /\ desk'[d].at = "label" /\ desk'[d].of = desk[d].of
                 \/ InHand(d) \in {"READY", "AWB_ASSIGNED"} /\ to = "AWB_ASSIGNED" /\ desk'[d].at = "sync"
                 \/ /\ ShipmentMayMove(InHand(d), to) /\ desk'[d].at = "sync"
                    /\ to = "CANCELLATION_REQUESTED" => MayAskBack(InHand(d))
              /\ UNCHANGED <<journal, courierParcels, orderRow, shipmentCrashes>>
    BY <1>0, <1>5, WritesAreLegal
  <2>2. UNCHANGED <<orderStatus, fulfilled, shipmentCrashes>>
    BY <2>1 DEF orderRow
  <2>3. CASE desk'[d].at = "sync"
    <3>1. \/ ShipmentMayMove(InHand(d), to)
          \/ to \in {"READY", "AWB_ASSIGNED"} /\ InHand(d) # "DELIVERED"
      BY <2>1, <2>3
    <3>2. to = "CANCELLATION_REQUESTED" => MayAskBack(InHand(d))
      BY <2>1, <2>3
    <3> QED
      BY <1>0, <1>1, <1>2, <2>1, <2>2, <2>3, <3>1, <3>2, WriteThenDerive
  <2>4. CASE desk'[d].at \in {"reread", "label"}
    <3>1. to = "READY" /\ InHand(d) \in {"DRAFT", "READY", "AWB_ASSIGNED"}
      BY <2>1, <2>4
    <3> QED
      BY <1>1, <1>2, <2>1, <2>2, <2>4, <3>1, ReadyFollows
  <2> QED
    BY <2>1, <2>3, <2>4
<1> QED
  BY <1>3, <1>4, <1>5

\* The steps that only read, decide, or speak with the courier.
LEMMA TalkFollows ==
    ASSUME OneDesk, ShipmentTypes, FollowsParcels, NEW d \in Desks,
           \/ Deciding(d) \/ CountParcels(d) \/ RereadParcel(d) \/ ClaimOperation(d) \/ CallCourier(d)
           \/ FinishOperation(d) \/ AskCourier(d)
    PROVE  FollowsParcels'
<1>1. desk[d].at \notin Deriving
  BY DEF Deciding, CreateParcel, AssignAwb, SchedulePickup, CancelParcel, SetParcelStatus, CourierReports,
     Take, CountParcels, RereadParcel, ClaimOperation, CallCourier, FinishOperation, AskCourier, At, Deriving
<1>2. UNCHANGED <<parcel, orderStatus, fulfilled, shipmentCrashes>>
  BY DEF Deciding, CreateParcel, AssignAwb, SchedulePickup, CancelParcel, SetParcelStatus, CourierReports,
     Take, CountParcels, RereadParcel, ClaimOperation, CallCourier, FinishOperation, AskCourier,
     parcelRows, orderRow
<1> USE DEF ShipmentTypes
<1>3. CASE \E items \in [Lines -> UNION {0..Ordered[l] : l \in Lines}] : CreateParcel(d, items)
  <2>1. \A items \in [Lines -> UNION {0..Ordered[l] : l \in Lines}] : items \in UnitCounts
    BY ShipmentsAssumption DEF UnitCounts
  <2>2. desk'[d].at = "count"
    BY <1>3, <2>1, CreateDoes
  <2> QED
    BY <1>1, <1>2, <2>2, AsideFollows DEF Deriving
<1>4. CASE \E p \in Parcels :
             \/ \E by \in {"manual", "courier"} : AssignAwb(d, p, by)
             \/ SchedulePickup(d, p) \/ CancelParcel(d, p)
             \/ \E to \in ByHand : SetParcelStatus(d, p, to)
             \/ \E to \in Says : CourierReports(d, p, to)
  <2>1. desk'[d].at \in {"ready", "reread", "courier", "write"}
    BY <1>4, CallsDo DEF TakesUp
  <2> QED
    BY <1>1, <1>2, <2>1, AsideFollows DEF Deriving
<1>5. CASE CountParcels(d)
  <2>1. desk'[d].at = "insert"
    BY <1>5, CountDoes
  <2> QED
    BY <1>1, <1>2, <2>1, AsideFollows DEF Deriving
<1>6. CASE RereadParcel(d)
  <2>1. desk'[d].at \in {"label", "claim", "idle"}
    BY <1>6, RereadDoes DEF Continues, DeskBecomes, AtRest
  <2> QED
    BY <1>1, <1>2, <2>1, AsideFollows DEF Deriving
<1>7. CASE ClaimOperation(d)
  <2>1. desk'[d].at \in {"call", "idle"}
    BY <1>7, ClaimDoes DEF AtRest
  <2> QED
    BY <1>1, <1>2, <2>1, AsideFollows DEF Deriving
<1>8. CASE CallCourier(d)
  <2>1. desk'[d].at = "finish"
    BY <1>8, CallDoes
  <2> QED
    BY <1>1, <1>2, <2>1, AsideFollows DEF Deriving
<1>9. CASE FinishOperation(d)
  <2>1. desk'[d].at \in {"record", "idle"}
    BY <1>9, FinishDoes DEF Continues, DeskBecomes, AtRest
  <2> QED
    BY <1>1, <1>2, <2>1, AsideFollows DEF Deriving
<1>10. CASE AskCourier(d)
  <2>1. desk'[d].at \in {"write", "idle"}
    BY <1>10, AskDoes DEF Continues, DeskBecomes, AtRest
  <2> QED
    BY <1>1, <1>2, <2>1, AsideFollows DEF Deriving
<1> QED
  BY <1>3, <1>4, <1>5, <1>6, <1>7, <1>8, <1>9, <1>10 DEF Deciding

\* What the deriving desk has read is what there is.
LEMMA ReadingFollows ==
    ASSUME OneDesk, ShipmentTypes, FollowsParcels, NEW d \in Desks,
           ReadParcels(d) \/ ReadFulfilment(d) \/ BookFulfilment(d)
    PROVE  FollowsParcels'
<1> USE DEF ShipmentTypes
<1>1. \A e \in Desks : e = d
  BY DEF OneDesk
<1>2. /\ UNCHANGED <<parcel, orderStatus, shipmentCrashes>>
      /\ DerivingHolds(d)
      /\ shipmentCrashes = 0 => NearlyFollows /\ Booked
  BY DEF ReadParcels, ReadFulfilment, BookFulfilment, parcelRows, orderRow, FollowsParcels, DeliveredArrived
<1>3. \/ /\ desk'[d].at = "fulfil" /\ desk'[d].saw = orderStatus /\ desk'[d].statuses = ParcelStatuses
         /\ fulfilled' = fulfilled
      \/ /\ desk[d].at = "fulfil" /\ desk'[d].at = "book" /\ desk'[d].saw = desk[d].saw
         /\ desk'[d].statuses = desk[d].statuses
         /\ \A l \in Lines : desk'[d].units[l] = UnitsOut(l)
      \/ /\ desk[d].at = "book" /\ desk'[d].at = "derive" /\ desk'[d].saw = desk[d].saw
         /\ desk'[d].statuses = desk[d].statuses /\ fulfilled' = desk[d].units
  <2>1. CASE ReadParcels(d)
    BY <2>1, ReadDoes DEF orderRow
  <2>2. CASE ReadFulfilment(d)
    BY <2>2, FulfilDoes DEF ReadFulfilment, At
  <2>3. CASE BookFulfilment(d)
    BY <2>3, BookDoes DEF BookFulfilment, At, Continues
  <2> QED
    BY <2>1, <2>2, <2>3
<1>4. DerivingHolds(d)'
  BY <1>2, <1>3, ParcelsStay DEF DerivingHolds, At
<1>5. DeliveredArrived'
  BY <1>1, <1>2, <1>4, ParcelsStay DEF FollowsParcels, DeliveredArrived
<1>6. ~Calm'
  BY <1>3 DEF Calm, Deriving
<1>7. CASE shipmentCrashes # 0
  BY <1>2, <1>5, <1>7 DEF FollowsParcels
<1>8. CASE shipmentCrashes = 0
  <2>1. NearlyFollows'
    BY <1>2, <1>8, StatusMoves DEF NearlyFollows
  <2>2. Booked'
    <3>1. \A l \in Lines : UnitsOut(l)' = UnitsOut(l)
      BY <1>2, ParcelsStay
    <3>2. desk'[d].at = "book" => \A l \in Lines : desk'[d].units[l] = UnitsOut(l)
      BY <1>3
    <3>3. desk'[d].at = "derive" => \A l \in Lines : fulfilled'[l] = UnitsOut(l)
      BY <1>2, <1>3, <1>8 DEF Booked, At
    <3>4. desk'[d].at \in {"fulfil", "book", "derive"}
      BY <1>3
    <3> QED
      BY <1>1, <3>1, <3>2, <3>3, <3>4 DEF Booked, At
  <2> QED
    BY <1>2, <1>5, <1>6, <2>1, <2>2 DEF FollowsParcels
<1> QED
  BY <1>7, <1>8

\* The desk has settled the status at n, and rests.
LEMMA SettledFollows ==
    ASSUME OneDesk, ShipmentTypes, Packed, FollowsParcels, NEW d \in Desks,
           desk[d].at \in {"derive", "move"}, desk'[d] = AtRest,
           UNCHANGED <<parcel, fulfilled, shipmentCrashes>>,
           Due # "none" /\ CanTransition(orderStatus, Due) => orderStatus' = Due,
           Due = "none" \/ ~CanTransition(orderStatus, Due) => orderStatus' = orderStatus
    PROVE  FollowsParcels'
<1>1. \A e \in Desks : e = d
  BY DEF OneDesk
<1>2. Due \in {"none", "DELIVERED", "OUT_FOR_DELIVERY", "SHIPPED", "READY_TO_SHIP", "PROCESSING"}
  BY DEF Due, DeriveOrderStatus, DeriveUndelivered
<1>3. orderStatus \in AtHome \cup Onward /\ (orderStatus = "DELIVERED" => EverythingArrived)
  BY DEF FollowsParcels, DeliveredArrived
<1>4. orderStatus' \in AtHome \cup Onward
  BY <1>2, <1>3 DEF AtHome, Onward
<1>5. orderStatus' = "DELIVERED" => EverythingArrived
  BY <1>3, DueMeansArrived
<1>6. DeliveredArrived'
  <2>1. DerivingHolds(d)'
    BY DEF DerivingHolds, At, AtRest
  <2> QED
    BY <1>1, <1>4, <1>5, <2>1, ParcelsStay DEF DeliveredArrived
<1>7. CASE shipmentCrashes # 0
  BY <1>6, <1>7 DEF FollowsParcels
<1>8. CASE shipmentCrashes = 0
  <2>1. NearlyFollows /\ Booked
    BY <1>8 DEF FollowsParcels
  <2>2. FollowsAs(orderStatus')
    BY <1>3, <2>1, Settles
  <2>3. Follows' /\ NearlyFollows'
    BY <2>2, FollowingIsNearly, StatusMoves
  <2>4. Booked'
    <3>1. \A l \in Lines : fulfilled[l] = UnitsOut(l)
      BY <1>1, <2>1 DEF Booked
    <3> QED
      BY <1>1, <3>1, ParcelsStay DEF Booked, At, AtRest
  <2> QED
    BY <1>6, <2>3, <2>4 DEF FollowsParcels
<1> QED
  BY <1>7, <1>8

LEMMA CancelledIsFinal ==
    \A to \in {"none", "DELIVERED", "OUT_FOR_DELIVERY", "SHIPPED", "READY_TO_SHIP", "PROCESSING"} :
        ~CanTransition("CANCELLED", to)
BY DEF CanTransition, OrderTransitions

LEMMA NoStatusFollowsItself ==
    \A to \in {"DELIVERED", "OUT_FOR_DELIVERY", "SHIPPED", "READY_TO_SHIP", "PROCESSING"} :
        ~CanTransition(to, to)
BY DEF CanTransition, OrderTransitions

LEMMA DerivingFollows ==
    ASSUME OneDesk, ShipmentTypes, Packed, FollowsParcels, NEW d \in Desks, DeriveStatus(d)
    PROVE  FollowsParcels'
<1> USE DEF ShipmentTypes
<1>1. \A e \in Desks : e = d
  BY DEF OneDesk
<1>2. /\ desk[d].statuses = ParcelStatuses
      /\ orderStatus = desk[d].saw \/ orderStatus = "CANCELLED"
      /\ At(d, "derive")
  BY DEF DeriveStatus, At, FollowsParcels, DeliveredArrived, DerivingHolds
<1>3. Derived(d) = Due
  BY <1>2 DEF Derived, Due, AllShipped
<1>4. Due \in {"none", "DELIVERED", "OUT_FOR_DELIVERY", "SHIPPED", "READY_TO_SHIP", "PROCESSING"}
  BY DEF Due, DeriveOrderStatus, DeriveUndelivered
<1>5. UNCHANGED <<parcel, orderStatus, fulfilled, shipmentCrashes>>
  BY DEF DeriveStatus, parcelRows, orderRow
<1>6. CASE desk'[d] = AtRest
  <2>1. \/ Due = "none" \/ Due = desk[d].saw \/ ~CanTransition(desk[d].saw, Due)
    BY <1>3, <1>6, DeriveDoes DEF AtRest
  <2>2. Due = desk[d].saw => Due = "none" \/ ~CanTransition(desk[d].saw, Due)
    BY <1>4, NoStatusFollowsItself
  <2>3. Due = "none" \/ ~CanTransition(orderStatus, Due)
    BY <1>2, <1>4, <2>1, <2>2, CancelledIsFinal
  <2> QED
    BY <1>2, <1>5, <1>6, <2>3, SettledFollows DEF At
<1>7. CASE /\ Due # "none" /\ CanTransition(desk[d].saw, Due)
           /\ desk'[d].at = "move" /\ desk'[d].to = Due /\ desk'[d].saw = desk[d].saw
  <2>1. DerivingHolds(d)'
    BY <1>2, <1>5, <1>7, ParcelsStay DEF DerivingHolds, At
  <2>2. DeliveredArrived'
    BY <1>1, <1>5, <2>1, ParcelsStay DEF FollowsParcels, DeliveredArrived
  <2>3. ~Calm'
    BY <1>7 DEF Calm, Deriving
  <2>4. CASE shipmentCrashes # 0
    BY <1>5, <2>2, <2>4 DEF FollowsParcels
  <2>5. CASE shipmentCrashes = 0
    <3>1. NearlyFollows /\ Booked
      BY <2>5 DEF FollowsParcels
    <3>2. NearlyFollows'
      BY <1>5, <3>1, StatusMoves DEF NearlyFollows
    <3>3. \A l \in Lines : fulfilled[l] = UnitsOut(l)
      BY <1>1, <1>2, <3>1 DEF Booked, At
    <3>4. Booked'
      BY <1>1, <1>5, <1>7, <3>3, ParcelsStay DEF Booked, At
    <3> QED
      BY <2>2, <2>3, <3>2, <3>4 DEF FollowsParcels
  <2> QED
    BY <2>4, <2>5
<1> QED
  BY <1>3, <1>6, <1>7, DeriveDoes

LEMMA MovingFollows ==
    ASSUME OneDesk, ShipmentTypes, Packed, FollowsParcels, NEW d \in Desks, MoveOrder(d)
    PROVE  FollowsParcels'
<1>1. /\ At(d, "move") /\ desk[d].to = Due /\ Due # "none" /\ CanTransition(desk[d].saw, Due)
      /\ orderStatus = desk[d].saw \/ orderStatus = "CANCELLED"
  BY DEF MoveOrder, At, FollowsParcels, DeliveredArrived, DerivingHolds
<1>2. /\ desk'[d] = AtRest /\ UNCHANGED <<parcel, fulfilled, shipmentCrashes>>
      /\ orderStatus' = IF orderStatus = desk[d].saw THEN desk[d].to ELSE orderStatus
  BY MoveDoes DEF DeskBecomes, ShipmentTypes, parcelRows
<1>3. Due \in {"none", "DELIVERED", "OUT_FOR_DELIVERY", "SHIPPED", "READY_TO_SHIP", "PROCESSING"}
  BY DEF Due, DeriveOrderStatus, DeriveUndelivered
<1>4. CASE orderStatus = desk[d].saw
  BY <1>1, <1>2, <1>4, SettledFollows DEF At
<1>5. CASE orderStatus # desk[d].saw
  <2>1. orderStatus' = orderStatus /\ ~CanTransition(orderStatus, Due)
    BY <1>1, <1>2, <1>3, <1>5, CancelledIsFinal
  <2> QED
    BY <1>1, <1>2, <2>1, SettledFollows DEF At
<1> QED
  BY <1>4, <1>5

LEMMA EndingFollows ==
    ASSUME OneDesk, ShipmentTypes, FollowsParcels,
           CancelOrder \/ (\E d \in Desks : DeskDies(d)) \/ UNCHANGED shipmentVars
    PROVE  FollowsParcels'
<1>1. CASE CancelOrder
  <2>1. parcel' = parcel /\ desk' = desk /\ fulfilled' = fulfilled /\ shipmentCrashes' = shipmentCrashes
        /\ orderStatus' = "CANCELLED"
    BY <1>1 DEF CancelOrder, parcelRows
  <2>2. "CANCELLED" \in Onward
    BY DEF Onward
  <2>3. ASSUME NEW d \in Desks PROVE DerivingHolds(d)'
    BY <2>1, ParcelsStay DEF FollowsParcels, DeliveredArrived, DerivingHolds, At
  <2>4. DeliveredArrived'
    BY <2>1, <2>2, <2>3 DEF DeliveredArrived
  <2>5. NearlyFollows' /\ Follows'
    BY <2>1, <2>2 DEF NearlyFollows, Follows, NearlyFollowsAs, FollowsAs
  <2>6. Booked => Booked'
    BY <2>1, ParcelsStay DEF Booked, At
  <2> QED
    BY <2>1, <2>4, <2>5, <2>6 DEF FollowsParcels
<1>2. CASE \E d \in Desks : DeskDies(d)
  <2>1. PICK d \in Desks : DeskDies(d)
    BY <1>2
  <2>2. /\ desk'[d].at = "idle" /\ parcel' = parcel /\ orderStatus' = orderStatus
        /\ shipmentCrashes' = shipmentCrashes + 1 /\ shipmentCrashes \in Nat
    BY <2>1, DyingDoes, ShipmentsAssumption
       DEF DeskDies, DeskBecomes, AtRest, ShipmentTypes, ShipmentsTypeOK, parcelRows, orderRow
  <2>3. \A e \in Desks : DerivingHolds(e)'
    BY <2>2 DEF OneDesk, DerivingHolds, At
  <2>4. shipmentCrashes' # 0
    BY <2>2
  <2> QED
    BY <2>2, <2>3, <2>4, ParcelsStay DEF FollowsParcels, DeliveredArrived
<1>3. CASE UNCHANGED shipmentVars
  BY <1>3, StatusMoves DEF shipmentVars, FollowsParcels, DeliveredArrived, DerivingHolds, NearlyFollows,
     Follows, Booked, Calm, EverythingArrived, SomeParcelIs, UnitsOut, ParcelStatuses, Written, Due, AllShipped, Remaining, At
<1> QED
  BY <1>1, <1>2, <1>3

LEMMA FollowingStep ==
    ASSUME OneDesk, ShipmentTypes, Shipping, FollowsParcels, [ShipmentsNext]_shipmentVars
    PROVE  FollowsParcels'
<1>1. Packed
  BY DEF Shipping
<1>2. ASSUME NEW d \in Desks, Deciding(d) PROVE FollowsParcels'
  BY <1>2, TalkFollows
<1>3. ASSUME NEW d \in Desks, Working(d) PROVE FollowsParcels'
  BY <1>1, <1>3, TalkFollows, WritingFollows, ReadingFollows, DerivingFollows, MovingFollows DEF Working
<1> QED
  BY <1>2, <1>3, EndingFollows DEF ShipmentsNext

LEMMA FollowingStarts == ShipmentsInit => FollowsParcels
<1> SUFFICES ASSUME ShipmentsInit PROVE FollowsParcels
  OBVIOUS
<1>1. ShipmentTypes /\ Packed
  BY ShipmentsStartTyped, ShippingStarts DEF Shipping
<1>2. ASSUME NEW S, "NONE" \notin S PROVE ~SomeParcelIs(S)
  BY <1>2 DEF ShipmentsInit, NoParcel, SomeParcelIs
<1>3. /\ ~SomeParcelIs(Labelled \cup Road) /\ ~SomeParcelIs({"DELIVERED"})
      /\ ~SomeParcelIs(Road) /\ ~SomeParcelIs(Away) /\ ~SomeParcelIs(FurtherAway)
  <2>1. "NONE" \notin Labelled \cup Road
    BY DEF Labelled, Road, OnTheWay
  <2> QED
    BY <1>2, <2>1, RoadsAre
<1>4. ~EverythingArrived
  BY <1>1, <1>3, ArrivedMeansDue
<1>5. ASSUME NEW l \in Lines PROVE fulfilled[l] = UnitsOut(l)
  <2>1. DOMAIN parcel = Parcels /\ {p \in Parcels : parcel[p].status \in DispatchedStatuses} = {}
    BY DEF ShipmentsInit, NoParcel, DispatchedStatuses
  <2>2. UnitsIn(parcel, l, DispatchedStatuses)
          = SumFunctionOnSet([p \in Parcels |-> parcel[p].items[l]], {})
    BY <2>1 DEF UnitsIn
  <2>3. UnitsIn(parcel, l, DispatchedStatuses) = 0 /\ Ordered[l] \in Nat \ {0} /\ fulfilled[l] = 0
    BY <2>2, SumOfNone, ShipmentsAssumption DEF ShipmentsInit, NoItems
  <2> QED
    BY <2>3 DEF UnitsOut, Lesser
<1>6. orderStatus = "CONFIRMED" /\ \A d \in Desks : desk[d].at = "idle"
  BY DEF ShipmentsInit, AtRest
<1>7. DeliveredArrived
  BY <1>6 DEF DeliveredArrived, DerivingHolds, At, AtHome
<1>8. NearlyFollows /\ Follows
  BY <1>3, <1>4, FollowingIsNearly DEF NearlyFollows, Follows, FollowsAs
<1>9. Booked
  BY <1>5, <1>6 DEF Booked, At
<1> QED
  BY <1>7, <1>8, <1>9 DEF FollowsParcels

\* For any parcels and lines, any statuses staff set by hand, and one desk at a time: an
\* order is delivered only when all of it has arrived, also after crashes; unless
\* somebody died halfway it has been told of a parcel on the road, its stored quantities
\* are those of its parcels, and once all has arrived it is delivered - but for the one
\* parcel that a hand asked back from its label.
THEOREM OrderFollows ==
    ASSUME OneDesk
    PROVE  ShipmentsSpec => []OrderFollowsParcels
<1>1. ShipmentTypes /\ Shipping /\ [ShipmentsNext]_shipmentVars => Shipping'
  BY ShippingStep
<1>2. ShipmentTypes /\ Shipping /\ FollowsParcels /\ [ShipmentsNext]_shipmentVars => FollowsParcels'
  BY FollowingStep
<1>3. ShipmentTypes /\ Shipping /\ FollowsParcels => OrderFollowsParcels
  <2> SUFFICES ASSUME ShipmentTypes, Packed, FollowsParcels PROVE OrderFollowsParcels
    BY DEF Shipping
  <2>1. orderStatus = "DELIVERED" => EverythingArrived
    BY DEF FollowsParcels, DeliveredArrived
  <2>2. Quiet => Follows /\ \A l \in Lines : fulfilled[l] = UnitsOut(l)
    BY DEF FollowsParcels, Quiet, Calm, At, Deriving, Booked
  <2>3. Follows /\ (\E p \in Parcels : parcel[p].status \in OnTheWay) => orderStatus \in Onward
    BY RoadsAre DEF Follows, FollowsAs, SomeParcelIs
  <2>4. ASSUME EverythingArrived, OneArrived, NEW p \in CountedParcels, NEW q \in CountedParcels PROVE p = q
    <3>1. ParcelStatuses \ {"CANCELLED"} = {"DELIVERED"}
      BY <2>4, ArrivedMeansDue DEF Due, DeriveOrderStatus, DeriveUndelivered
    <3>2. parcel[p].status = "DELIVERED" /\ parcel[q].status = "DELIVERED"
      BY <3>1 DEF CountedParcels, ParcelStatuses, Written
    <3> QED
      BY <2>4, <3>2 DEF CountedParcels, OneArrived
  <2>5. Follows /\ EverythingArrived =>
           \/ orderStatus \in {"DELIVERED", "CANCELLED"}
           \/ /\ AskedBackByHand /\ orderStatus = "READY_TO_SHIP"
              /\ \A p, q \in CountedParcels : p = q
    BY <2>4 DEF Follows, FollowsAs, LeftBehind
  <2> QED
    BY <2>1, <2>2, <2>3, <2>5 DEF OrderFollowsParcels, Onward
<1> QED
  BY <1>1, <1>2, <1>3, ShippingStarts, FollowingStarts, ShipmentsStartTyped, ShipmentStepKeepsTypes, PTL
     DEF ShipmentsSpec

-------------------------------------------------------------------------------
(***************************************************************************)
(* Returns                                                                 *)
(***************************************************************************)

ClerkRecord ==
    [at: ClerkSteps, of: ReturnIds \cup {"nobody"}, row: ReturnRow, saw: OrderStatuses]
ClerkBusy(c) == ~ClerkAt(c, "idle") => clerk[c].of \in ReturnIds
ReturnTypes == ReturnsTypeOK /\ \A c \in Clerks : ClerkBusy(c)

LEMMA NoReturnIsRow == NoReturn \in ReturnRow
BY ReturnsAssumption DEF NoReturn, ReturnRow, ReturnStatuses

LEMMA ClerkIdleIsRecord == ClerkIdle \in ClerkRecord
BY NoReturnIsRow DEF ClerkIdle, ClerkRecord, ClerkSteps, OrderStatuses

\* Only clerk c's record changes, and it becomes x.
ClerkBecomes(c, x) ==
    /\ clerk' \in [Clerks -> ClerkRecord] /\ clerk'[c] = x
    /\ \A e \in Clerks : e # c => clerk'[e] = clerk[e]

LEMMA ClerkWrites ==
    ASSUME ReturnsTypeOK, NEW c \in Clerks, NEW x \in ClerkRecord, clerk' = [clerk EXCEPT ![c] = x]
    PROVE  ClerkBecomes(c, x)
BY DEF ClerkBecomes, ReturnsTypeOK, ClerkRecord

\* It goes on with all it has.
ClerkContinues(c, step) ==
    /\ clerk' \in [Clerks -> ClerkRecord]
    /\ \A e \in Clerks : e # c => clerk'[e] = clerk[e]
    /\ clerk'[c].at = step /\ clerk'[c].of = clerk[c].of /\ clerk'[c].row = clerk[c].row
    /\ clerk'[c].saw = clerk[c].saw

LEMMA ClerkGoesOn ==
    ASSUME ReturnsTypeOK, NEW c \in Clerks, NEW step \in ClerkSteps, ClerkTo(c, step)
    PROVE  ClerkContinues(c, step)
<1> DEFINE x == [clerk[c] EXCEPT !.at = step]
<1>1. clerk[c] \in ClerkRecord
  BY DEF ReturnsTypeOK, ClerkRecord
<1>2. /\ x \in ClerkRecord
      /\ x.at = step /\ x.of = clerk[c].of /\ x.row = clerk[c].row /\ x.saw = clerk[c].saw
  BY <1>1 DEF ClerkRecord
<1>3. clerk' = [clerk EXCEPT ![c] = x]
  BY DEF ClerkTo
<1> HIDE DEF x
<1> QED
  BY <1>2, <1>3, ClerkWrites DEF ClerkBecomes, ClerkContinues

LEMMA ClerkRests ==
    ASSUME ReturnsTypeOK, NEW c \in Clerks, Finish(c)
    PROVE  ClerkBecomes(c, ClerkIdle)
BY ClerkIdleIsRecord, ClerkWrites DEF Finish

\* A clerk takes up return r with row x in hand.
ClerkTakes(c, step, r, x) ==
    /\ clerk' \in [Clerks -> ClerkRecord]
    /\ \A e \in Clerks : e # c => clerk'[e] = clerk[e]
    /\ clerk'[c].at = step /\ clerk'[c].of = r /\ clerk'[c].row = x
    /\ clerk[c].at = "idle"
    /\ UNCHANGED <<soldOrder, return, shelved, owed, returnCrashes>>

LEMMA RaiseDoes ==
    ASSUME ReturnsTypeOK, NEW c \in Clerks, NEW r \in ReturnIds, NEW qty \in 0..UnitsSold,
           RaiseReturn(c, r, qty)
    PROVE  \E x \in ReturnRow :
              /\ ClerkTakes(c, "insert", r, x) /\ x.status = "REQUESTED" /\ x.asked = qty
              /\ x.approved = 0 /\ x.received = 0 /\ x.restocked = 0
<1> DEFINE x == [NoReturn EXCEPT !.status = "REQUESTED", !.asked = qty]
           y == [at |-> "insert", of |-> r, row |-> x, saw |-> soldOrder.status]
<1>1. /\ x \in ReturnRow /\ x.status = "REQUESTED" /\ x.asked = qty
      /\ x.approved = 0 /\ x.received = 0 /\ x.restocked = 0
  BY NoReturnIsRow DEF NoReturn, ReturnRow, ReturnStatuses
<1>2. clerk' = [clerk EXCEPT ![c] = y]
  BY DEF RaiseReturn
<1> HIDE DEF x
<1>3. y \in ClerkRecord /\ y.at = "insert" /\ y.of = r /\ y.row = x
  BY <1>1 DEF ClerkRecord, ClerkSteps, ReturnsTypeOK
<1> HIDE DEF y
<1>4. ClerkBecomes(c, y)
  BY <1>2, <1>3, ClerkWrites
<1> QED
  BY <1>1, <1>3, <1>4 DEF ClerkBecomes, ClerkTakes, RaiseReturn, ClerkAt

LEMMA DecideDoes ==
    ASSUME ReturnsTypeOK, NEW c \in Clerks, NEW r \in ReturnIds, NEW x \in ReturnRow, Decide(c, r, x)
    PROVE  ClerkTakes(c, "write", r, x)
<1> DEFINE y == [ClerkIdle EXCEPT !.at = "write", !.of = r, !.row = x]
<1>1. y \in ClerkRecord /\ y.at = "write" /\ y.of = r /\ y.row = x
  BY ClerkIdleIsRecord DEF ClerkRecord, ClerkSteps
<1>2. clerk' = [clerk EXCEPT ![c] = y]
  BY DEF Decide
<1> HIDE DEF y
<1>3. ClerkBecomes(c, y)
  BY <1>1, <1>2, ClerkWrites
<1> QED
  BY <1>1, <1>3 DEF ClerkBecomes, ClerkTakes, Decide, ClerkAt

LEMMA CompleteDoes ==
    ASSUME ReturnsTypeOK, NEW c \in Clerks, NEW r \in ReturnIds, StartComplete(c, r)
    PROVE  ClerkTakes(c, "restock", r, return[r])
<1> DEFINE x == return[r]
           y == [ClerkIdle EXCEPT !.at = "restock", !.of = r, !.row = x]
<1>1. x \in ReturnRow
  BY DEF ReturnsTypeOK
<1>2. clerk' = [clerk EXCEPT ![c] = y]
  BY DEF StartComplete
<1> HIDE DEF x
<1>3. y \in ClerkRecord /\ y.at = "restock" /\ y.of = r /\ y.row = x
  BY <1>1, ClerkIdleIsRecord DEF ClerkRecord, ClerkSteps
<1> HIDE DEF y
<1>4. ClerkBecomes(c, y)
  BY <1>2, <1>3, ClerkWrites
<1>5. ClerkTakes(c, "restock", r, x)
  BY <1>3, <1>4 DEF ClerkBecomes, ClerkTakes, StartComplete, ClerkAt
<1> QED
  BY <1>5 DEF x

Decisions == {"APPROVED", "RECEIVED", "INSPECTED", "REJECTED", "CANCELLED"}

\* A clerk decides about a return: which decisions there are, and what they write.
Decided(c, r, x) ==
    /\ ClerkTakes(c, "write", r, x)
    /\ x.status \in Decisions /\ return[r].status # "NONE" /\ MayTurn(return[r].status, x.status)
    /\ x.status = "INSPECTED" => x.received <= return[r].approved

LEMMA DecisionsAre ==
    ASSUME ReturnsTypeOK, NEW c \in Clerks, NEW r \in ReturnIds,
           \/ \E qty \in 0..UnitsSold : \/ ApproveReturn(c, r, qty)
                                        \/ \E fit \in BOOLEAN : InspectReturn(c, r, qty, fit)
           \/ ReceiveReturn(c, r) \/ RejectReturn(c, r) \/ CancelReturn(c, r)
    PROVE  \E x \in ReturnRow : Decided(c, r, x)
<1>1. return[r] \in ReturnRow
  BY DEF ReturnsTypeOK
<1>2. ASSUME NEW x \in ReturnRow, Decide(c, r, x), x.status \in Decisions,
             x.status = "INSPECTED" => x.received <= return[r].approved
      PROVE  Decided(c, r, x)
  BY <1>2, DecideDoes DEF Decided, Decide
<1>3. ASSUME NEW qty \in 0..UnitsSold, ApproveReturn(c, r, qty) PROVE \E x \in ReturnRow : Decided(c, r, x)
  <2> DEFINE x == [return[r] EXCEPT !.status = "APPROVED", !.approved = qty]
  <2>1. x \in ReturnRow /\ x.status = "APPROVED"
    BY <1>1 DEF ReturnRow, ReturnStatuses
  <2>2. Decide(c, r, x)
    BY <1>3 DEF ApproveReturn
  <2> HIDE DEF x
  <2> QED
    BY <1>2, <2>1, <2>2 DEF Decisions
<1>4. ASSUME NEW qty \in 0..UnitsSold, NEW fit \in BOOLEAN, InspectReturn(c, r, qty, fit)
      PROVE  \E x \in ReturnRow : Decided(c, r, x)
  <2> DEFINE x == [return[r] EXCEPT !.status = "INSPECTED", !.received = qty, !.fit = fit]
  <2>1. x \in ReturnRow /\ x.status = "INSPECTED" /\ x.received = qty
    BY <1>1 DEF ReturnRow, ReturnStatuses
  <2>2. Decide(c, r, x) /\ qty <= return[r].approved
    BY <1>4 DEF InspectReturn
  <2> HIDE DEF x
  <2> QED
    BY <1>2, <2>1, <2>2 DEF Decisions
<1>5. ASSUME NEW s \in {"RECEIVED", "REJECTED", "CANCELLED"}, Decide(c, r, [return[r] EXCEPT !.status = s])
      PROVE  \E x \in ReturnRow : Decided(c, r, x)
  <2> DEFINE x == [return[r] EXCEPT !.status = s]
  <2>1. x \in ReturnRow /\ x.status = s
    BY <1>1 DEF ReturnRow, ReturnStatuses
  <2>2. Decide(c, r, x)
    BY <1>5
  <2> HIDE DEF x
  <2> QED
    BY <1>2, <2>1, <2>2 DEF Decisions
<1> QED
  BY <1>3, <1>4, <1>5 DEF ReceiveReturn, RejectReturn, CancelReturn

\* One return's row changes, and becomes x.
ReturnBecomes(r, x) ==
    /\ return' \in [ReturnIds -> ReturnRow] /\ return'[r] = x
    /\ \A q \in ReturnIds : q # r => return'[q] = return[q]

LEMMA ReturnWrites ==
    ASSUME ReturnsTypeOK, NEW r \in ReturnIds, NEW x \in ReturnRow, return' = [return EXCEPT ![r] = x]
    PROVE  ReturnBecomes(r, x)
BY DEF ReturnBecomes, ReturnsTypeOK

LEMMA InsertReturnDoes ==
    ASSUME ReturnTypes, NEW c \in Clerks, InsertReturn(c)
    PROVE  /\ clerk[c].at = "insert" /\ clerk[c].of \in ReturnIds
           /\ ReturnBecomes(clerk[c].of, clerk[c].row)
           /\ ClerkContinues(c, "flag") \/ ClerkBecomes(c, ClerkIdle)
           /\ UNCHANGED <<soldOrder, shelved, owed, returnCrashes>>
<1> USE DEF ReturnTypes
<1>1. clerk[c].at = "insert" /\ clerk[c].of \in ReturnIds /\ clerk[c].row \in ReturnRow
  BY DEF InsertReturn, ClerkAt, ClerkBusy, ReturnsTypeOK
<1>2. ReturnBecomes(clerk[c].of, clerk[c].row)
  BY <1>1, ReturnWrites DEF InsertReturn
<1>3. CASE ClerkTo(c, "flag")
  BY <1>1, <1>2, <1>3, ClerkGoesOn DEF InsertReturn, ClerkSteps
<1>4. CASE Finish(c)
  BY <1>1, <1>2, <1>4, ClerkRests DEF InsertReturn
<1> QED
  BY <1>3, <1>4 DEF InsertReturn

LEMMA FlagDoes ==
    ASSUME ReturnTypes, NEW c \in Clerks, FlagOrder(c)
    PROVE  /\ clerk[c].at = "flag" /\ ClerkBecomes(c, ClerkIdle)
           /\ soldOrder' \in [status: OrderStatuses, refunded: 0..UnitsSold]
           /\ soldOrder'.refunded = soldOrder.refunded
           /\ UNCHANGED <<return, shelved, owed, returnCrashes>>
BY ClerkRests DEF FlagOrder, ReturnTypes, ReturnsTypeOK, ClerkAt, OrderStatuses

LEMMA RestoreDoes ==
    ASSUME ReturnTypes, NEW c \in Clerks, RestoreOrder(c)
    PROVE  /\ clerk[c].at = "restore" /\ ClerkBecomes(c, ClerkIdle)
           /\ soldOrder' \in [status: OrderStatuses, refunded: 0..UnitsSold]
           /\ soldOrder'.refunded = soldOrder.refunded
           /\ \/ soldOrder'.status # "RETURN_REQUESTED"
              \/ \E r \in ReturnIds : return[r].status \notin Settled \cup {"NONE"}
           /\ UNCHANGED <<return, shelved, owed, returnCrashes>>
BY ClerkRests DEF RestoreOrder, ReturnTypes, ReturnsTypeOK, ClerkAt, OrderStatuses

\* Each handler writes its own columns.
LEMMA DecisionDoes ==
    ASSUME ReturnTypes, NEW c \in Clerks, WriteDecision(c)
    PROVE  /\ clerk[c].at = "write" /\ clerk[c].of \in ReturnIds
           /\ \E x \in ReturnRow :
                 /\ ReturnBecomes(clerk[c].of, x)
                 /\ x.status = clerk[c].row.status
                 /\ x.asked = return[clerk[c].of].asked /\ x.restocked = return[clerk[c].of].restocked
                 /\ x.approved = IF clerk[c].row.status = "APPROVED" THEN clerk[c].row.approved
                                 ELSE return[clerk[c].of].approved
                 /\ x.received = IF clerk[c].row.status = "INSPECTED" THEN clerk[c].row.received
                                 ELSE return[clerk[c].of].received
           /\ \/ clerk[c].row.status \in {"REJECTED", "CANCELLED"} /\ ClerkContinues(c, "restore")
              \/ clerk[c].row.status \notin {"REJECTED", "CANCELLED"} /\ ClerkBecomes(c, ClerkIdle)
           /\ UNCHANGED <<soldOrder, shelved, owed, returnCrashes>>
<1> USE DEF ReturnTypes
<1> DEFINE r == clerk[c].of
           row1 == clerk[c].row
           old == return[r]
           a == IF row1.status = "APPROVED" THEN row1.approved ELSE old.approved
           v == IF row1.status = "INSPECTED" THEN row1.received ELSE old.received
           f == IF row1.status = "INSPECTED" THEN row1.fit ELSE old.fit
           x == [old EXCEPT !.status = row1.status, !.approved = a, !.received = v, !.fit = f]
<1>1. clerk[c].at = "write" /\ r \in ReturnIds /\ row1 \in ReturnRow /\ old \in ReturnRow
  BY DEF WriteDecision, ClerkAt, ClerkBusy, ReturnsTypeOK
<1>2. return' = [return EXCEPT ![r] = x]
  BY <1>1 DEF WriteDecision, ReturnRow, ReturnsTypeOK
<1>3. a \in 0..UnitsSold /\ v \in 0..UnitsSold /\ f \in BOOLEAN /\ row1.status \in ReturnStatuses
  BY <1>1 DEF ReturnRow
<1>4. x = [old EXCEPT !.status = row1.status, !.approved = a, !.received = v, !.fit = f]
  OBVIOUS
<1> HIDE DEF a, v, f, x, old
<1>5. /\ x \in ReturnRow /\ x.status = row1.status /\ x.asked = old.asked /\ x.restocked = old.restocked
      /\ x.approved = a /\ x.received = v
  BY <1>1, <1>3, <1>4 DEF ReturnRow
<1>6. ReturnBecomes(r, x)
  BY <1>1, <1>2, <1>5, ReturnWrites
<1>7. \/ row1.status \in {"REJECTED", "CANCELLED"} /\ ClerkContinues(c, "restore")
      \/ row1.status \notin {"REJECTED", "CANCELLED"} /\ ClerkBecomes(c, ClerkIdle)
  BY ClerkGoesOn, ClerkRests DEF WriteDecision, RestoresOrder, ClerkSteps
<1> QED
  BY <1>1, <1>5, <1>6, <1>7 DEF WriteDecision, a, v, old

LEMMA RestockDoes ==
    ASSUME ReturnTypes, NEW c \in Clerks, Restock(c)
    PROVE  /\ clerk[c].at = "restock" /\ clerk[c].of \in ReturnIds /\ shelved' \in [ReturnIds -> Nat]
           /\ \/ ClerkContinues(c, "refund") /\ shelved' = shelved
              \/ /\ ClerkContinues(c, "count")
                 /\ shelved'[clerk[c].of]
                      = shelved[clerk[c].of] + (clerk[c].row.received - clerk[c].row.restocked)
                 /\ \A q \in ReturnIds : q # clerk[c].of => shelved'[q] = shelved[q]
           /\ UNCHANGED <<soldOrder, return, owed, returnCrashes>>
<1> USE DEF ReturnTypes
<1> DEFINE qty == Restockable(clerk[c].row)
<1>1. clerk[c].at = "restock" /\ clerk[c].of \in ReturnIds /\ clerk[c].row \in ReturnRow
  BY DEF Restock, ClerkAt, ClerkBusy, ReturnsTypeOK
<1>2. clerk[c].row.received \in Nat /\ clerk[c].row.restocked \in Nat
  BY <1>1 DEF ReturnRow
<1>3. qty \in Nat /\ (qty # 0 => qty = clerk[c].row.received - clerk[c].row.restocked)
  BY <1>2 DEF Restockable
<1>4. CASE ClerkTo(c, "refund") /\ shelved' = shelved
  <2>1. ClerkContinues(c, "refund")
    BY <1>4, ClerkGoesOn DEF ClerkSteps
  <2> QED
    BY <1>1, <1>4, <2>1 DEF Restock, ReturnsTypeOK
<1>5. CASE /\ qty # 0 /\ ClerkTo(c, "count")
           /\ shelved' = [shelved EXCEPT ![clerk[c].of] = @ + qty]
  <2>1. ClerkContinues(c, "count")
    BY <1>5, ClerkGoesOn DEF ClerkSteps
  <2> HIDE DEF qty
  <2>2. /\ shelved' \in [ReturnIds -> Nat]
        /\ shelved'[clerk[c].of] = shelved[clerk[c].of] + qty
        /\ \A q \in ReturnIds : q # clerk[c].of => shelved'[q] = shelved[q]
    BY <1>1, <1>3, <1>5 DEF ReturnsTypeOK
  <2> QED
    BY <1>1, <1>3, <1>5, <2>1, <2>2 DEF Restock
<1> QED
  BY <1>4, <1>5 DEF Restock

LEMMA ShelfCounted ==
    ASSUME ReturnTypes, NEW c \in Clerks, CountRestocked(c)
    PROVE  /\ clerk[c].at = "count" /\ clerk[c].of \in ReturnIds /\ ClerkContinues(c, "refund")
           /\ \E x \in ReturnRow :
                 /\ ReturnBecomes(clerk[c].of, x) /\ x.restocked = clerk[c].row.received
                 /\ x.status = return[clerk[c].of].status /\ x.asked = return[clerk[c].of].asked
                 /\ x.approved = return[clerk[c].of].approved /\ x.received = return[clerk[c].of].received
           /\ UNCHANGED <<soldOrder, shelved, owed, returnCrashes>>
<1> USE DEF ReturnTypes
<1> DEFINE r == clerk[c].of
           n == clerk[c].row.received
           x == [return[r] EXCEPT !.restocked = n]
<1>1. clerk[c].at = "count" /\ r \in ReturnIds /\ clerk[c].row \in ReturnRow /\ return[r] \in ReturnRow
  BY DEF CountRestocked, ClerkAt, ClerkBusy, ReturnsTypeOK
<1>2. n \in 0..UnitsSold
  BY <1>1 DEF ReturnRow
<1>3. return' = [return EXCEPT ![r] = x]
  BY DEF CountRestocked
<1>4. /\ x \in ReturnRow /\ x.restocked = n /\ x.status = return[r].status /\ x.asked = return[r].asked
      /\ x.approved = return[r].approved /\ x.received = return[r].received
  BY <1>1, <1>2 DEF ReturnRow
<1> HIDE DEF x
<1>5. ReturnBecomes(r, x)
  BY <1>1, <1>3, <1>4, ReturnWrites
<1>6. ClerkContinues(c, "refund")
  BY ClerkGoesOn DEF CountRestocked, ClerkSteps
<1> QED
  BY <1>1, <1>4, <1>5, <1>6 DEF CountRestocked

LEMMA RaiseRefundDoes ==
    ASSUME ReturnTypes, NEW c \in Clerks, RaiseRefund(c)
    PROVE  /\ clerk[c].at = "refund" /\ clerk[c].of \in ReturnIds
           /\ ClerkContinues(c, "close") \/ ClerkBecomes(c, ClerkIdle)
           /\ owed' \in [RefundRows -> [of: ReturnIds \cup {"nobody"}, qty: 0..UnitsSold, landed: BOOLEAN]]
           /\ UNCHANGED <<soldOrder, return, shelved, returnCrashes>>
<1> USE DEF ReturnTypes
<1>1. clerk[c].at = "refund" /\ clerk[c].of \in ReturnIds /\ clerk[c].row \in ReturnRow
  BY DEF RaiseRefund, ClerkAt, ClerkBusy, ReturnsTypeOK
<1>2. clerk[c].row.received \in 0..UnitsSold
  BY <1>1 DEF ReturnRow
<1>3. owed' \in [RefundRows -> [of: ReturnIds \cup {"nobody"}, qty: 0..UnitsSold, landed: BOOLEAN]]
  <2>1. CASE owed' = owed
    BY <2>1 DEF ReturnsTypeOK
  <2>2. CASE owed' # owed
    <3> DEFINE due == [of |-> clerk[c].of, qty |-> clerk[c].row.received, landed |-> FALSE]
    <3>1. PICK f \in RefundRows : owed' = [owed EXCEPT ![f] = due]
      BY <2>2 DEF RaiseRefund
    <3>2. due \in [of: ReturnIds \cup {"nobody"}, qty: 0..UnitsSold, landed: BOOLEAN]
      BY <1>1, <1>2
    <3> HIDE DEF due
    <3> QED
      BY <3>1, <3>2 DEF ReturnsTypeOK
  <2> QED
    BY <2>1, <2>2
<1>4. ClerkTo(c, "close") \/ Finish(c)
  BY DEF RaiseRefund
<1>5. ClerkContinues(c, "close") \/ ClerkBecomes(c, ClerkIdle)
  BY <1>4, ClerkGoesOn, ClerkRests DEF ClerkSteps
<1> QED
  BY <1>1, <1>3, <1>5 DEF RaiseRefund

LEMMA CloseDoes ==
    ASSUME ReturnTypes, NEW c \in Clerks, CloseReturn(c)
    PROVE  /\ clerk[c].at = "close" /\ clerk[c].of \in ReturnIds /\ ClerkBecomes(c, ClerkIdle)
           /\ \E x \in ReturnRow :
                 /\ ReturnBecomes(clerk[c].of, x) /\ x.status = "COMPLETED"
                 /\ x.restocked = return[clerk[c].of].restocked /\ x.asked = return[clerk[c].of].asked
                 /\ x.approved = return[clerk[c].of].approved /\ x.received = return[clerk[c].of].received
           /\ UNCHANGED <<soldOrder, shelved, owed, returnCrashes>>
<1> USE DEF ReturnTypes
<1> DEFINE r == clerk[c].of
           x == [return[r] EXCEPT !.status = "COMPLETED"]
<1>1. clerk[c].at = "close" /\ r \in ReturnIds /\ return[r] \in ReturnRow
  BY DEF CloseReturn, ClerkAt, ClerkBusy, ReturnsTypeOK
<1>2. return' = [return EXCEPT ![r] = x]
  BY DEF CloseReturn
<1>3. /\ x \in ReturnRow /\ x.status = "COMPLETED" /\ x.restocked = return[r].restocked
      /\ x.asked = return[r].asked /\ x.approved = return[r].approved /\ x.received = return[r].received
  BY <1>1 DEF ReturnRow, ReturnStatuses
<1> HIDE DEF x
<1>4. ReturnBecomes(r, x)
  BY <1>1, <1>2, <1>3, ReturnWrites
<1> QED
  BY <1>1, <1>3, <1>4, ClerkRests DEF CloseReturn

LEMMA RefundLandingDoes ==
    ASSUME ReturnTypes, NEW f \in RefundRows, RefundLands(f)
    PROVE  /\ soldOrder' \in [status: OrderStatuses, refunded: 0..UnitsSold]
           /\ soldOrder'.status = "RETURN_REQUESTED" => soldOrder.status = "RETURN_REQUESTED"
           /\ owed' \in [RefundRows -> [of: ReturnIds \cup {"nobody"}, qty: 0..UnitsSold, landed: BOOLEAN]]
           /\ UNCHANGED <<return, shelved, clerk, returnCrashes>>
<1> USE DEF ReturnTypes
<1>1. PICK to \in {"PARTIALLY_REFUNDED", "REFUNDED"} :
        soldOrder' =
             [status |-> IF CanTransition(soldOrder.status, to) THEN to ELSE soldOrder.status,
              refunded |-> IF soldOrder.refunded + owed[f].qty <= UnitsSold
                           THEN soldOrder.refunded + owed[f].qty ELSE soldOrder.refunded]
  BY DEF RefundLands
<1> DEFINE s == IF CanTransition(soldOrder.status, to) THEN to ELSE soldOrder.status
           n == IF soldOrder.refunded + owed[f].qty <= UnitsSold
                THEN soldOrder.refunded + owed[f].qty ELSE soldOrder.refunded
<1>2. s \in OrderStatuses /\ (s = "RETURN_REQUESTED" => soldOrder.status = "RETURN_REQUESTED")
  BY DEF OrderStatuses, ReturnsTypeOK
<1>3. n \in 0..UnitsSold
  BY ReturnsAssumption DEF ReturnsTypeOK
<1>4. soldOrder' = [status |-> s, refunded |-> n]
  BY <1>1
<1> HIDE DEF s, n
<1>5. owed' \in [RefundRows -> [of: ReturnIds \cup {"nobody"}, qty: 0..UnitsSold, landed: BOOLEAN]]
  BY DEF RefundLands, ReturnsTypeOK
<1> QED
  BY <1>2, <1>3, <1>4, <1>5 DEF RefundLands

LEMMA ClerkDyingDoes ==
    ASSUME ReturnTypes, NEW c \in Clerks, ClerkDies(c)
    PROVE  /\ ClerkBecomes(c, ClerkIdle) /\ returnCrashes' \in 0..MaxReturnCrashes /\ returnCrashes' # 0
           /\ UNCHANGED <<soldOrder, return, shelved, owed>>
<1>1. returnCrashes \in Nat /\ MaxReturnCrashes \in Nat
  BY ReturnsAssumption DEF ReturnTypes, ReturnsTypeOK
<1> QED
  BY <1>1, ClerkRests DEF ClerkDies, ReturnTypes

\* The clerk's part of a step that keeps the types.
LEMMA ClerkStaysTyped ==
    ASSUME ReturnTypes, NEW c \in Clerks,
           \/ \E r \in ReturnIds, x \in ReturnRow, step \in ClerkSteps : ClerkTakes(c, step, r, x)
           \/ ClerkBecomes(c, ClerkIdle)
           \/ clerk[c].of \in ReturnIds /\ \E step \in ClerkSteps : ClerkContinues(c, step)
    PROVE  clerk' \in [Clerks -> ClerkRecord] /\ \A e \in Clerks : ClerkBusy(e)'
<1>1. CASE \E r \in ReturnIds, x \in ReturnRow, step \in ClerkSteps : ClerkTakes(c, step, r, x)
  BY <1>1 DEF ClerkTakes, ReturnTypes, ClerkBusy, ClerkAt
<1>2. CASE ClerkBecomes(c, ClerkIdle)
  BY <1>2 DEF ClerkBecomes, ReturnTypes, ClerkBusy, ClerkAt, ClerkIdle
<1>3. CASE clerk[c].of \in ReturnIds /\ \E step \in ClerkSteps : ClerkContinues(c, step)
  BY <1>3 DEF ClerkContinues, ReturnTypes, ClerkBusy, ClerkAt
<1> QED
  BY <1>1, <1>2, <1>3

LEMMA ReturnStepKeepsTypes == ReturnTypes /\ [ReturnsNext]_returnVars => ReturnTypes'
<1> SUFFICES ASSUME ReturnTypes, [ReturnsNext]_returnVars PROVE ReturnTypes'
  OBVIOUS
<1>0. /\ ReturnsTypeOK
      /\ {"insert", "write", "restock", "flag", "restore", "refund", "count", "close"} \subseteq ClerkSteps
  BY DEF ReturnTypes, ClerkSteps
<1>1. ASSUME NEW c \in Clerks, NEW r \in ReturnIds, NEW x \in ReturnRow,
             NEW step \in {"insert", "write", "restock"}, ClerkTakes(c, step, r, x)
      PROVE  ReturnTypes'
  <2>1. clerk' \in [Clerks -> ClerkRecord] /\ \A e \in Clerks : ClerkBusy(e)'
    BY <1>0, <1>1, ClerkStaysTyped
  <2> QED
    BY <1>0, <1>1, <2>1 DEF ClerkTakes, ReturnTypes, ReturnsTypeOK, ClerkRecord
<1>2. ASSUME NEW c \in Clerks, NEW r \in ReturnIds, NEW qty \in 0..UnitsSold,
             \/ RaiseReturn(c, r, qty) \/ ApproveReturn(c, r, qty)
             \/ \E fit \in BOOLEAN : InspectReturn(c, r, qty, fit)
      PROVE  ReturnTypes'
  BY <1>0, <1>1, <1>2, RaiseDoes, DecisionsAre DEF Decided
<1>3. ASSUME NEW c \in Clerks, NEW r \in ReturnIds,
             ReceiveReturn(c, r) \/ RejectReturn(c, r) \/ CancelReturn(c, r) \/ StartComplete(c, r)
      PROVE  ReturnTypes'
  <2>1. return[r] \in ReturnRow
    BY <1>0 DEF ReturnsTypeOK
  <2> QED
    BY <1>0, <1>1, <1>3, <2>1, DecisionsAre, CompleteDoes DEF Decided
<1>4. ASSUME NEW c \in Clerks,
             InsertReturn(c) \/ WriteDecision(c) \/ CountRestocked(c) \/ CloseReturn(c)
      PROVE  ReturnTypes'
  <2>1. /\ return' \in [ReturnIds -> ReturnRow] /\ clerk[c].of \in ReturnIds
        /\ \/ ClerkBecomes(c, ClerkIdle)
           \/ \E step \in {"flag", "restore", "refund"} : ClerkContinues(c, step)
        /\ UNCHANGED <<soldOrder, shelved, owed, returnCrashes>>
    BY <1>4, InsertReturnDoes, DecisionDoes, ShelfCounted, CloseDoes DEF ReturnBecomes
  <2>2. clerk' \in [Clerks -> ClerkRecord] /\ \A e \in Clerks : ClerkBusy(e)'
    BY <1>0, <2>1, ClerkStaysTyped
  <2> QED
    BY <1>0, <2>1, <2>2 DEF ReturnTypes, ReturnsTypeOK, ClerkRecord
<1>5. ASSUME NEW c \in Clerks, FlagOrder(c) \/ RestoreOrder(c) \/ ClerkDies(c)
      PROVE  ReturnTypes'
  <2>1. /\ ClerkBecomes(c, ClerkIdle)
        /\ soldOrder' \in [status: OrderStatuses, refunded: 0..UnitsSold]
        /\ returnCrashes' \in 0..MaxReturnCrashes
        /\ UNCHANGED <<return, shelved, owed>>
    BY <1>0, <1>5, FlagDoes, RestoreDoes, ClerkDyingDoes DEF ReturnsTypeOK
  <2>2. clerk' \in [Clerks -> ClerkRecord] /\ \A e \in Clerks : ClerkBusy(e)'
    BY <2>1, ClerkStaysTyped
  <2> QED
    BY <1>0, <2>1, <2>2 DEF ReturnTypes, ReturnsTypeOK, ClerkRecord
<1>6. ASSUME NEW c \in Clerks, Restock(c) \/ RaiseRefund(c) PROVE ReturnTypes'
  <2>1. /\ clerk[c].of \in ReturnIds
        /\ \/ ClerkBecomes(c, ClerkIdle)
           \/ \E step \in {"refund", "count", "close"} : ClerkContinues(c, step)
        /\ shelved' \in [ReturnIds -> Nat]
        /\ owed' \in [RefundRows -> [of: ReturnIds \cup {"nobody"}, qty: 0..UnitsSold, landed: BOOLEAN]]
        /\ UNCHANGED <<soldOrder, return, returnCrashes>>
    BY <1>0, <1>6, RestockDoes, RaiseRefundDoes DEF ReturnsTypeOK
  <2>2. clerk' \in [Clerks -> ClerkRecord] /\ \A e \in Clerks : ClerkBusy(e)'
    BY <1>0, <2>1, ClerkStaysTyped
  <2> QED
    BY <1>0, <2>1, <2>2 DEF ReturnTypes, ReturnsTypeOK, ClerkRecord
<1>7. ASSUME NEW f \in RefundRows, RefundLands(f) PROVE ReturnTypes'
  BY <1>7, RefundLandingDoes DEF ReturnTypes, ReturnsTypeOK, ClerkBusy, ClerkAt
<1>8. CASE UNCHANGED returnVars
  BY <1>8 DEF ReturnTypes, ReturnsTypeOK, ClerkBusy, ClerkAt, returnVars
<1> QED
  BY <1>2, <1>3, <1>4, <1>5, <1>6, <1>7, <1>8 DEF ReturnsNext

LEMMA ReturnsStartTyped == ReturnsInit => ReturnTypes
<1> SUFFICES ASSUME ReturnsInit PROVE ReturnTypes
  OBVIOUS
<1>1. clerk \in [Clerks -> ClerkRecord] /\ \A c \in Clerks : ClerkBusy(c)
  BY ClerkIdleIsRecord DEF ReturnsInit, ClerkBusy, ClerkAt, ClerkIdle
<1>2. return \in [ReturnIds -> ReturnRow]
  BY NoReturnIsRow DEF ReturnsInit
<1> QED
  BY <1>1, <1>2, ReturnsAssumption
     DEF ReturnsInit, ReturnTypes, ReturnsTypeOK, ClerkRecord, NoRefund, OrderStatuses

\* The returns of a line keep their types, for any clerks, returns and crashes.
THEOREM ReturnsTypeCorrect == ReturnsSpec => []ReturnsTypeOK
<1>1. ReturnTypes => ReturnsTypeOK
  BY DEF ReturnTypes
<1> QED
  BY <1>1, ReturnsStartTyped, ReturnStepKeepsTypes, PTL DEF ReturnsSpec

-------------------------------------------------------------------------------
(* One clerk at a time *)

OneClerk == \A c, d \in Clerks : c = d

Refused == {"REJECTED", "CANCELLED"}
AskedIn(rows) ==
    SumFunctionOnSet([r \in ReturnIds |-> rows[r].asked], {r \in ReturnIds : rows[r].status \notin Refused})
SomeKept == \E r \in ReturnIds : return[r].status \notin {"NONE", "REJECTED", "CANCELLED"}
InQuestion(c) == return[clerk[c].of].status

\* What the clerk has read is still so.
ClerkHolds(c) ==
    /\ ClerkAt(c, "insert") =>
          /\ InQuestion(c) = "NONE" /\ clerk[c].row.status = "REQUESTED"
          /\ clerk[c].row.approved = 0 /\ clerk[c].row.received = 0 /\ clerk[c].row.restocked = 0
          /\ clerk[c].row.asked + AskedFor <= UnitsSold
    /\ ClerkAt(c, "flag") => InQuestion(c) = "REQUESTED"
    /\ ClerkAt(c, "write") =>
          /\ InQuestion(c) # "NONE" /\ clerk[c].row.status \in Decisions
          /\ MayTurn(InQuestion(c), clerk[c].row.status)
          /\ clerk[c].row.status = "INSPECTED" => clerk[c].row.received <= return[clerk[c].of].approved
    /\ clerk[c].at \in {"restock", "count", "refund", "close"} => InQuestion(c) \in {"INSPECTED", "COMPLETED"}
    /\ clerk[c].at \in {"restock", "count"} => clerk[c].row = return[clerk[c].of]

\* Nothing comes back, and nothing is shelved, beyond what was approved.
ReturnFits(r) ==
    /\ return[r].received <= return[r].approved /\ return[r].restocked <= return[r].approved
    /\ return[r].status \in {"NONE", "REQUESTED", "APPROVED"} => return[r].received = 0 /\ return[r].restocked = 0

\* The shelf holds what was counted, or is about to be.
OnShelf(r) ==
    \/ shelved[r] = return[r].restocked /\ \A c \in Clerks : ClerkAt(c, "count") => clerk[c].of # r
    \/ \E c \in Clerks : ClerkAt(c, "count") /\ clerk[c].of = r /\ shelved[r] = return[r].received

Returning ==
    /\ AskedFor <= UnitsSold
    /\ \A r \in ReturnIds : ReturnFits(r)
    /\ \A c \in Clerks : ClerkHolds(c)
    /\ returnCrashes = 0 =>
          /\ \A r \in ReturnIds : OnShelf(r)
          /\ soldOrder.status = "RETURN_REQUESTED" => SomeKept \/ \E c \in Clerks : ClerkAt(c, "restore")

\* What one return takes out of the pool.
Pooled(x) == IF x.status \in Refused THEN 0 ELSE x.asked

LEMMA AskedIs ==
    ASSUME NEW rows \in [ReturnIds -> ReturnRow]
    PROVE  /\ AskedIn(rows) = SumFunctionOnSet([r \in ReturnIds |-> Pooled(rows[r])], ReturnIds)
           /\ AskedIn(rows) \in Nat
           /\ \A r \in ReturnIds : rows[r].asked \in Nat /\ Pooled(rows[r]) \in Nat
<1> DEFINE pooled == [r \in ReturnIds |-> Pooled(rows[r])]
           asked == [r \in ReturnIds |-> rows[r].asked]
           In == {r \in ReturnIds : rows[r].status \notin Refused}
<1>1. \A r \in ReturnIds : rows[r].asked \in Nat
  BY DEF ReturnRow
<1>2. \A r \in ReturnIds : pooled[r] \in Nat /\ pooled[r] = Pooled(rows[r])
  BY <1>1 DEF Pooled
<1>3. AskedIn(rows) = SumFunctionOnSet(asked, In)
  BY DEF AskedIn
<1>4. /\ \A r \in In : asked[r] = pooled[r] /\ asked[r] \in Nat
      /\ \A r \in ReturnIds \ In : pooled[r] = 0
  BY <1>1 DEF Pooled
<1>5. IsFiniteSet(In) /\ IsFiniteSet(ReturnIds \ In) /\ In \cup (ReturnIds \ In) = ReturnIds
      /\ In \cap (ReturnIds \ In) = {}
  BY ReturnsAssumption, FS_Subset
<1>6. \A r \in In \cup (ReturnIds \ In) : pooled[r] \in Int
  BY <1>2, <1>5
<1> HIDE DEF pooled, asked, In
<1>7. SumFunctionOnSet(asked, In) = SumFunctionOnSet(pooled, In) /\ SumFunctionOnSet(asked, In) \in Nat
  BY <1>4, <1>5, SumOfEqual, SumIsNat
<1>8. SumFunctionOnSet(pooled, ReturnIds \ In) = 0
  BY <1>4, <1>5, SumOfNothings
<1>9. SumFunctionOnSet(pooled, ReturnIds)
        = SumFunctionOnSet(pooled, In) + SumFunctionOnSet(pooled, ReturnIds \ In)
  BY <1>5, <1>6, SumOfTwoParts
<1>10. SumFunctionOnSet(pooled, ReturnIds) = SumFunctionOnSet(asked, In)
  BY <1>7, <1>8, <1>9
<1> QED
  BY <1>1, <1>2, <1>3, <1>7, <1>10 DEF pooled

LEMMA AskedForIs == AskedFor = AskedIn(return)
BY DEF AskedFor, AskedBy, AskedIn, Refused

\* One return changes.
LEMMA AskedMoves ==
    ASSUME ReturnsTypeOK, NEW r \in ReturnIds, NEW x \in ReturnRow, ReturnBecomes(r, x)
    PROVE  /\ AskedFor \in Nat /\ AskedFor' \in Nat /\ Pooled(return[r]) \in Nat /\ Pooled(x) \in Nat
           /\ AskedFor' = AskedFor - Pooled(return[r]) + Pooled(x)
<1> DEFINE f == [q \in ReturnIds |-> Pooled(return[q])]
           g == [q \in ReturnIds |-> Pooled(return'[q])]
<1>1. return \in [ReturnIds -> ReturnRow] /\ return' \in [ReturnIds -> ReturnRow] /\ return'[r] = x
  BY DEF ReturnsTypeOK, ReturnBecomes
<1>2. /\ AskedFor = SumFunctionOnSet(f, ReturnIds) /\ AskedFor \in Nat
      /\ \A q \in ReturnIds : f[q] \in Nat
  BY <1>1, AskedIs, AskedForIs
<1>3. /\ AskedFor' = SumFunctionOnSet(g, ReturnIds) /\ AskedFor' \in Nat
      /\ \A q \in ReturnIds : g[q] \in Nat
  <2>1. AskedFor' = AskedIn(return')
    BY DEF AskedFor, AskedBy, AskedIn, Refused
  <2> QED
    BY <1>1, <2>1, AskedIs
<1>4. f[r] = Pooled(return[r]) /\ g[r] = Pooled(x) /\ \A q \in ReturnIds \ {r} : f[q] = g[q]
  BY <1>1 DEF ReturnBecomes
<1> HIDE DEF f, g
<1>5. ChangesAt(ReturnIds, f, g, r)
  BY <1>2, <1>3, <1>4 DEF ChangesAt
<1>6. SumFunctionOnSet(g, ReturnIds) = SumFunctionOnSet(f, ReturnIds) - f[r] + g[r]
  BY <1>5, ReturnsAssumption, SumWithOneChanged
<1> QED
  BY <1>2, <1>3, <1>4, <1>6

\* While the returns stay as they are, only what the clerk newly relies on matters.
LEMMA RowsStay ==
    ASSUME OneClerk, ReturnTypes, Returning, NEW c \in Clerks,
           return' = return, shelved' = shelved, returnCrashes' = returnCrashes, ClerkHolds(c)',
           ~ClerkAt(c, "count"), ~ClerkAt(c, "count")',
           soldOrder'.status = "RETURN_REQUESTED" /\ returnCrashes = 0 => SomeKept \/ ClerkAt(c, "restore")'
    PROVE  Returning'
<1>1. \A d \in Clerks : d = c
  BY DEF OneClerk
<1>2. AskedFor' <= UnitsSold
  BY DEF Returning, AskedFor, AskedBy
<1>3. \A r \in ReturnIds : ReturnFits(r)'
  BY DEF Returning, ReturnFits
<1>4. \A d \in Clerks : ClerkHolds(d)'
  BY <1>1
<1>5. CASE returnCrashes # 0
  BY <1>2, <1>3, <1>4, <1>5 DEF Returning
<1>6. CASE returnCrashes = 0
  <2>1. \A r \in ReturnIds : OnShelf(r)'
    BY <1>1, <1>6 DEF Returning, OnShelf
  <2>2. soldOrder'.status = "RETURN_REQUESTED" => SomeKept' \/ \E d \in Clerks : ClerkAt(d, "restore")'
    BY <1>6 DEF SomeKept
  <2> QED
    BY <1>2, <1>3, <1>4, <2>1, <2>2 DEF Returning
<1> QED
  BY <1>5, <1>6

\* The clerk writes the row of the return it has in hand.
LEMMA RowWritten ==
    ASSUME OneClerk, ReturnTypes, Returning, NEW c \in Clerks, clerk[c].of \in ReturnIds,
           NEW x \in ReturnRow, ReturnBecomes(clerk[c].of, x), Pooled(x) + AskedFor <= UnitsSold + Pooled(return[clerk[c].of]),
           x.received <= x.approved, x.restocked <= x.approved,
           x.status \in {"NONE", "REQUESTED", "APPROVED"} => x.received = 0 /\ x.restocked = 0,
           ClerkHolds(c)', ~ClerkAt(c, "count")', UNCHANGED <<soldOrder, shelved, returnCrashes>>,
           returnCrashes = 0 => shelved[clerk[c].of] = x.restocked,
           x.status \notin {"NONE", "REJECTED", "CANCELLED"} \/ ClerkAt(c, "restore")'
    PROVE  Returning'
<1>0. ReturnsTypeOK /\ UnitsSold \in Nat
  BY ReturnsAssumption DEF ReturnTypes
<1>1. \A d \in Clerks : d = c
  BY DEF OneClerk
<1> DEFINE r == clerk[c].of
<1>2. /\ r \in ReturnIds /\ return'[r] = x
      /\ \A q \in ReturnIds : q # r => return'[q] = return[q]
  BY DEF ReturnBecomes
<1>3. AskedFor' <= UnitsSold
  <2>1. /\ AskedFor \in Nat /\ AskedFor' \in Nat /\ Pooled(return[r]) \in Nat /\ Pooled(x) \in Nat
        /\ AskedFor' = AskedFor - Pooled(return[r]) + Pooled(x)
    BY <1>0, AskedMoves
  <2>2. Pooled(x) + AskedFor <= UnitsSold + Pooled(return[r])
    OBVIOUS
  <2> HIDE DEF r
  <2> QED
    BY <1>0, <2>1, <2>2
<1>4. ASSUME NEW q \in ReturnIds PROVE ReturnFits(q)'
  <2>1. CASE q = r
    BY <1>2, <2>1 DEF ReturnFits
  <2>2. CASE q # r
    <3>1. return'[q] = return[q] /\ ReturnFits(q)
      BY <1>2, <2>2 DEF Returning
    <3> QED
      BY <3>1 DEF ReturnFits
  <2> QED
    BY <2>1, <2>2
<1>5. \A d \in Clerks : ClerkHolds(d)'
  BY <1>1
<1>6. CASE returnCrashes # 0
  BY <1>3, <1>4, <1>5, <1>6 DEF Returning
<1>7. CASE returnCrashes = 0
  <2>1. ASSUME NEW q \in ReturnIds PROVE OnShelf(q)'
    <3>1. shelved'[q] = return'[q].restocked
      <4>1. CASE q = r
        BY <1>2, <1>7, <4>1
      <4>2. CASE q # r
        BY <1>1, <1>2, <1>7, <4>2 DEF Returning, OnShelf
      <4> QED
        BY <4>1, <4>2
    <3> QED
      BY <1>1, <3>1 DEF OnShelf
  <2>2. soldOrder'.status = "RETURN_REQUESTED" => SomeKept' \/ \E d \in Clerks : ClerkAt(d, "restore")'
    BY <1>2 DEF SomeKept
  <2> QED
    BY <1>3, <1>4, <1>5, <1>7, <2>1, <2>2 DEF Returning
<1> QED
  BY <1>6, <1>7

\* What the shelf holds of a return that is not being counted.
LEMMA ShelvedIs ==
    ASSUME OneClerk, Returning, returnCrashes = 0, NEW c \in Clerks, NEW r \in ReturnIds
    PROVE  /\ ~ClerkAt(c, "count") \/ clerk[c].of # r => shelved[r] = return[r].restocked
           /\ ClerkAt(c, "count") /\ clerk[c].of = r => shelved[r] = return[r].received
<1>1. \A d \in Clerks : d = c
  BY DEF OneClerk
<1>2. OnShelf(r)
  BY DEF Returning
<1> QED
  BY <1>1, <1>2 DEF OnShelf

LEMMA InsertReturns ==
    ASSUME OneClerk, ReturnTypes, Returning, NEW c \in Clerks, InsertReturn(c)
    PROVE  Returning'
<1> DEFINE r == clerk[c].of
<1> DEFINE x == clerk[c].row
<1>0. ReturnsTypeOK /\ UnitsSold \in Nat
  BY ReturnsAssumption DEF ReturnTypes
<1>1. /\ clerk[c].at = "insert" /\ r \in ReturnIds /\ ReturnBecomes(r, x)
      /\ \/ clerk'[c] = ClerkIdle
         \/ clerk'[c].at = "flag" /\ clerk'[c].of = r
      /\ UNCHANGED <<soldOrder, shelved, owed, returnCrashes>>
  BY InsertReturnDoes DEF ClerkContinues, ClerkBecomes
<1>2. /\ return[r].status = "NONE" /\ x.status = "REQUESTED"
      /\ x.approved = 0 /\ x.received = 0 /\ x.restocked = 0
      /\ x.asked + AskedFor <= UnitsSold
  BY <1>1 DEF Returning, ClerkHolds, ClerkAt, InQuestion
<1>3. x \in ReturnRow
  BY <1>0 DEF ReturnsTypeOK
<1>4. AskedFor \in Nat /\ Pooled(return[r]) \in Nat /\ x.asked \in Nat /\ Pooled(x) = x.asked
  BY <1>0, <1>1, <1>2, <1>3, AskedMoves DEF ReturnRow, Pooled, Refused
<1>5. Pooled(x) + AskedFor <= UnitsSold + Pooled(return[r])
  BY <1>0, <1>2, <1>4
<1>6. return[r].restocked = 0
  BY <1>1, <1>2 DEF Returning, ReturnFits
<1>7. returnCrashes = 0 => shelved[r] = x.restocked
  BY <1>1, <1>2, <1>6, ShelvedIs DEF ClerkAt
<1>8. ClerkHolds(c)' /\ ~ClerkAt(c, "count")'
  <2>1. return'[r].status = "REQUESTED"
    BY <1>1, <1>2 DEF ReturnBecomes
  <2> QED
    BY <1>1, <2>1 DEF ClerkHolds, ClerkAt, InQuestion, ClerkIdle
<1> QED
  BY <1>1, <1>2, <1>3, <1>5, <1>7, <1>8, RowWritten

LEMMA TurnsTo ==
    ASSUME NEW from \in ReturnStatuses, NEW to \in Decisions, MayTurn(from, to)
    PROVE  /\ to = "APPROVED" => from \in {"REQUESTED", "APPROVED"}
           /\ from \in Refused => to \in Refused
BY DEF MayTurn, ReturnTransitions, Decisions, Refused, ReturnStatuses

LEMMA DecisionReturns ==
    ASSUME OneClerk, ReturnTypes, Returning, NEW c \in Clerks, WriteDecision(c)
    PROVE  Returning'
<1> DEFINE r == clerk[c].of
           y == clerk[c].row
<1>0. ReturnsTypeOK /\ UnitsSold \in Nat /\ y \in ReturnRow
  BY ReturnsAssumption DEF ReturnTypes, ReturnsTypeOK
<1>1. /\ clerk[c].at = "write" /\ r \in ReturnIds
      /\ \/ y.status \in {"REJECTED", "CANCELLED"} /\ clerk'[c].at = "restore"
         \/ y.status \notin {"REJECTED", "CANCELLED"} /\ clerk'[c] = ClerkIdle
      /\ UNCHANGED <<soldOrder, shelved, owed, returnCrashes>>
  BY DecisionDoes DEF ClerkContinues, ClerkBecomes
<1>2. PICK x \in ReturnRow :
                 /\ ReturnBecomes(r, x) /\ x.status = y.status
                 /\ x.asked = return[r].asked /\ x.restocked = return[r].restocked
                 /\ x.approved = IF y.status = "APPROVED" THEN y.approved ELSE return[r].approved
                 /\ x.received = IF y.status = "INSPECTED" THEN y.received ELSE return[r].received
  BY DecisionDoes
<1>3. /\ return[r].status # "NONE" /\ y.status \in Decisions /\ MayTurn(return[r].status, y.status)
      /\ y.status = "INSPECTED" => y.received <= return[r].approved
      /\ AskedFor <= UnitsSold
  BY <1>1 DEF Returning, ClerkHolds, ClerkAt, InQuestion
<1>4. ReturnFits(r) /\ return[r] \in ReturnRow
  BY <1>0, <1>1 DEF Returning, ReturnsTypeOK
<1>5. /\ y.status = "APPROVED" => return[r].status \in {"REQUESTED", "APPROVED"}
      /\ return[r].status \in Refused => y.status \in Refused
  BY <1>3, <1>4, TurnsTo DEF ReturnRow
<1>6. Pooled(x) + AskedFor <= UnitsSold + Pooled(return[r])
  <2>1. AskedFor \in Nat /\ Pooled(x) \in Nat /\ Pooled(return[r]) \in Nat
    BY <1>0, <1>1, <1>2, AskedMoves
  <2>2. return[r].asked \in Nat
    BY <1>4 DEF ReturnRow
  <2>3. Pooled(x) <= Pooled(return[r])
    BY <1>2, <1>5, <2>2 DEF Pooled
  <2> HIDE DEF r
  <2> QED
    BY <1>0, <1>3, <2>1, <2>3
<1>7. /\ x.received <= x.approved /\ x.restocked <= x.approved
      /\ x.status \in {"NONE", "REQUESTED", "APPROVED"} => x.received = 0 /\ x.restocked = 0
  <2>1. CASE y.status = "APPROVED"
    <3>1. return[r].received = 0 /\ return[r].restocked = 0 /\ y.approved \in Nat
      BY <1>0, <1>4, <1>5, <2>1 DEF ReturnFits, ReturnRow
    <3> QED
      BY <1>2, <2>1, <3>1
  <2>2. CASE y.status # "APPROVED"
    <3>1. y.status \notin {"NONE", "REQUESTED", "APPROVED"}
      BY <1>3, <2>2 DEF Decisions
    <3>2. return[r].received <= return[r].approved /\ return[r].restocked <= return[r].approved
      BY <1>4 DEF ReturnFits
    <3> QED
      BY <1>2, <1>3, <2>2, <3>1, <3>2
  <2> QED
    BY <2>1, <2>2
<1>8. returnCrashes = 0 => shelved[r] = x.restocked
  BY <1>1, <1>2, ShelvedIs DEF ClerkAt
<1>9. ClerkHolds(c)' /\ ~ClerkAt(c, "count")'
  BY <1>1 DEF ClerkHolds, ClerkAt, ClerkIdle
<1>10. x.status \notin {"NONE", "REJECTED", "CANCELLED"} \/ ClerkAt(c, "restore")'
  BY <1>1, <1>2, <1>3 DEF Decisions, ClerkAt
<1> QED
  BY <1>1, <1>2, <1>6, <1>7, <1>8, <1>9, <1>10, RowWritten

\* A write that leaves what was asked, approved and received as it is.
LEMMA CountReturns ==
    ASSUME OneClerk, ReturnTypes, Returning, NEW c \in Clerks, CountRestocked(c) \/ CloseReturn(c)
    PROVE  Returning'
<1> DEFINE r == clerk[c].of
<1>0. ReturnsTypeOK /\ UnitsSold \in Nat
  BY ReturnsAssumption DEF ReturnTypes
<1>1. /\ r \in ReturnIds /\ clerk[c].at \in {"count", "close"}
      /\ clerk[c].at = "count" => clerk'[c].at = "refund" /\ clerk'[c].of = r
      /\ clerk[c].at = "close" => clerk'[c] = ClerkIdle
      /\ UNCHANGED <<soldOrder, shelved, owed, returnCrashes>>
  BY ShelfCounted, CloseDoes DEF ClerkContinues, ClerkBecomes
<1>2. PICK x \in ReturnRow :
        /\ ReturnBecomes(r, x) /\ x.asked = return[r].asked
        /\ x.approved = return[r].approved /\ x.received = return[r].received
        /\ clerk[c].at = "count" => x.restocked = clerk[c].row.received /\ x.status = return[r].status
        /\ clerk[c].at = "close" => x.restocked = return[r].restocked /\ x.status = "COMPLETED"
  BY ShelfCounted, CloseDoes
<1>3. /\ return[r].status \in {"INSPECTED", "COMPLETED"}
      /\ clerk[c].at = "count" => clerk[c].row = return[r]
      /\ AskedFor <= UnitsSold
  BY <1>1 DEF Returning, ClerkHolds, InQuestion
<1>4. return[r].received <= return[r].approved /\ return[r].restocked <= return[r].approved
  BY <1>1 DEF Returning, ReturnFits
<1>5. x.status \in {"INSPECTED", "COMPLETED"}
  BY <1>1, <1>2, <1>3
<1>6. Pooled(x) + AskedFor <= UnitsSold + Pooled(return[r])
  <2>1. AskedFor \in Nat /\ Pooled(x) \in Nat
    BY <1>0, <1>1, <1>2, AskedMoves
  <2>2. Pooled(x) = Pooled(return[r])
    BY <1>2, <1>3, <1>5 DEF Pooled, Refused
  <2> HIDE DEF r
  <2> QED
    BY <1>0, <1>3, <2>1, <2>2
<1>7. x.received <= x.approved /\ x.restocked <= x.approved
  BY <1>1, <1>2, <1>3, <1>4
<1>8. returnCrashes = 0 => shelved[r] = x.restocked
  BY <1>1, <1>2, <1>3, ShelvedIs DEF ClerkAt
<1>9. ClerkHolds(c)' /\ ~ClerkAt(c, "count")'
  <2>1. return'[r].status \in {"INSPECTED", "COMPLETED"}
    BY <1>2, <1>5 DEF ReturnBecomes
  <2> QED
    BY <1>1, <2>1 DEF ClerkHolds, ClerkAt, InQuestion, ClerkIdle
<1> QED
  BY <1>1, <1>2, <1>5, <1>6, <1>7, <1>8, <1>9, RowWritten

LEMMA RestockReturns ==
    ASSUME OneClerk, ReturnTypes, Returning, NEW c \in Clerks, Restock(c)
    PROVE  Returning'
<1> DEFINE r == clerk[c].of
<1>0. \A d \in Clerks : d = c
  BY DEF OneClerk
<1>1. /\ clerk[c].at = "restock" /\ r \in ReturnIds
      /\ return' = return /\ soldOrder' = soldOrder /\ returnCrashes' = returnCrashes
      /\ clerk'[c].at \in {"refund", "count"} /\ clerk'[c].of = r /\ clerk'[c].row = clerk[c].row
      /\ clerk'[c].at = "refund" => shelved' = shelved
      /\ clerk'[c].at = "count" =>
            /\ shelved'[r] = shelved[r] + (clerk[c].row.received - clerk[c].row.restocked)
            /\ \A q \in ReturnIds : q # r => shelved'[q] = shelved[q]
  BY RestockDoes DEF ClerkContinues
<1>2. return[r].status \in {"INSPECTED", "COMPLETED"} /\ clerk[c].row = return[r]
  BY <1>1 DEF Returning, ClerkHolds, InQuestion
<1>3. ClerkHolds(c)'
  BY <1>1, <1>2 DEF ClerkHolds, ClerkAt, InQuestion
<1>4. returnCrashes = 0 /\ soldOrder.status = "RETURN_REQUESTED" => SomeKept
  BY <1>0, <1>1 DEF Returning, ClerkAt
<1>5. CASE clerk'[c].at = "refund"
  <2>1. ~ClerkAt(c, "count") /\ ~ClerkAt(c, "count")' /\ shelved' = shelved
    BY <1>1, <1>5 DEF ClerkAt
  <2> QED
    BY <1>1, <1>3, <1>4, <2>1, RowsStay
<1>6. CASE clerk'[c].at = "count"
  <2>1. AskedFor' <= UnitsSold /\ \A q \in ReturnIds : ReturnFits(q)'
    BY <1>1 DEF Returning, AskedFor, AskedBy, ReturnFits
  <2>2. \A d \in Clerks : ClerkHolds(d)'
    BY <1>0, <1>3
  <2>3. CASE returnCrashes # 0
    BY <1>1, <2>1, <2>2, <2>3 DEF Returning
  <2>4. CASE returnCrashes = 0
    <3>1. ASSUME NEW q \in ReturnIds PROVE OnShelf(q)'
      <4>1. shelved[q] = return[q].restocked
        BY <1>1, <2>4, ShelvedIs DEF ClerkAt
      <4>2. CASE q = r
        <5>1. return[r].restocked \in Nat /\ return[r].received \in Nat
          BY <1>1 DEF ReturnTypes, ReturnsTypeOK, ReturnRow
        <5>2. shelved'[r] = return[r].restocked + (return[r].received - return[r].restocked)
          BY <1>1, <1>2, <1>6, <4>1, <4>2
        <5>3. shelved'[r] = return[r].received
          BY <5>1, <5>2
        <5> QED
          BY <1>1, <1>6, <4>2, <5>3 DEF OnShelf, ClerkAt
      <4>3. CASE q # r
        <5>1. shelved'[q] = return'[q].restocked
          BY <1>1, <1>6, <4>1, <4>3
        <5> QED
          BY <1>0, <1>1, <4>3, <5>1 DEF OnShelf
      <4> QED
        BY <4>2, <4>3
    <3>2. soldOrder'.status = "RETURN_REQUESTED" => SomeKept'
      BY <1>1, <1>4, <2>4 DEF SomeKept
    <3> QED
      BY <1>1, <2>1, <2>2, <2>4, <3>1, <3>2 DEF Returning
  <2> QED
    BY <2>3, <2>4
<1> QED
  BY <1>1, <1>5, <1>6

\* A clerk takes something up: what it reads is so.
LEMMA TakingReturns ==
    ASSUME OneClerk, ReturnTypes, Returning, NEW c \in Clerks, NEW r \in ReturnIds, NEW x \in ReturnRow,
           NEW step \in {"insert", "write", "restock"}, ClerkTakes(c, step, r, x), ClerkHolds(c)'
    PROVE  Returning'
<1>1. /\ return' = return /\ shelved' = shelved /\ returnCrashes' = returnCrashes /\ soldOrder' = soldOrder
      /\ ~ClerkAt(c, "count") /\ ~ClerkAt(c, "count")' /\ ~ClerkAt(c, "restore")
  BY DEF ClerkTakes, ClerkAt
<1>2. returnCrashes = 0 /\ soldOrder.status = "RETURN_REQUESTED" => SomeKept
  BY <1>1 DEF Returning, OneClerk
<1> QED
  BY <1>1, <1>2, RowsStay

LEMMA RaisingReturns ==
    ASSUME OneClerk, ReturnTypes, Returning, NEW c \in Clerks, NEW r \in ReturnIds,
           NEW qty \in 0..UnitsSold, RaiseReturn(c, r, qty)
    PROVE  Returning'
<1>0. ReturnsTypeOK /\ UnitsSold \in Nat
  BY ReturnsAssumption DEF ReturnTypes
<1>1. PICK x \in ReturnRow :
              /\ ClerkTakes(c, "insert", r, x) /\ x.status = "REQUESTED" /\ x.asked = qty
              /\ x.approved = 0 /\ x.received = 0 /\ x.restocked = 0
  BY <1>0, RaiseDoes
<1>2. return[r].status = "NONE" /\ qty + AskedFor <= UnitsSold
  <2>1. qty + AskedFor + soldOrder.refunded <= UnitsSold
    BY DEF RaiseReturn, StillReturnable
  <2>2. AskedFor \in Nat /\ soldOrder.refunded \in Nat
    <3>1. return \in [ReturnIds -> ReturnRow] /\ soldOrder.refunded \in 0..UnitsSold
      BY <1>0 DEF ReturnsTypeOK
    <3>2. AskedFor \in Nat
      BY <3>1, AskedIs, AskedForIs
    <3> QED
      BY <1>0, <3>1, <3>2
  <2> QED
    BY <1>0, <2>1, <2>2 DEF RaiseReturn
<1>3. AskedFor' = AskedFor
  BY <1>1 DEF ClerkTakes, AskedFor, AskedBy
<1>4. ClerkHolds(c)'
  BY <1>1, <1>2, <1>3 DEF ClerkHolds, ClerkAt, InQuestion, ClerkTakes
<1> QED
  BY <1>1, <1>4, TakingReturns

LEMMA DecidingReturns ==
    ASSUME OneClerk, ReturnTypes, Returning, NEW c \in Clerks, NEW r \in ReturnIds,
           \/ \E qty \in 0..UnitsSold : \/ ApproveReturn(c, r, qty)
                                        \/ \E fit \in BOOLEAN : InspectReturn(c, r, qty, fit)
           \/ ReceiveReturn(c, r) \/ RejectReturn(c, r) \/ CancelReturn(c, r) \/ StartComplete(c, r)
    PROVE  Returning'
<1>0. ReturnsTypeOK /\ return[r] \in ReturnRow
  BY DEF ReturnTypes, ReturnsTypeOK
<1>1. CASE StartComplete(c, r)
  <2>1. ClerkTakes(c, "restock", r, return[r])
    BY <1>0, <1>1, CompleteDoes
  <2>2. return[r].status \in {"INSPECTED", "COMPLETED"}
    BY <1>0, <1>1 DEF StartComplete, MayTurn, ReturnTransitions, ReturnRow, ReturnStatuses
  <2>3. ClerkHolds(c)'
    BY <2>1, <2>2 DEF ClerkHolds, ClerkAt, InQuestion, ClerkTakes
  <2> QED
    BY <1>0, <2>1, <2>3, TakingReturns
<1>2. CASE \E x \in ReturnRow : Decided(c, r, x)
  <2>1. PICK x \in ReturnRow : Decided(c, r, x)
    BY <1>2
  <2>2. ClerkHolds(c)'
    BY <2>1 DEF Decided, ClerkHolds, ClerkAt, InQuestion, ClerkTakes
  <2> QED
    BY <2>1, <2>2, TakingReturns DEF Decided
<1> QED
  BY <1>0, <1>1, <1>2, DecisionsAre

LEMMA OrderReturns ==
    ASSUME OneClerk, ReturnTypes, Returning, NEW c \in Clerks,
           FlagOrder(c) \/ RestoreOrder(c) \/ RaiseRefund(c)
    PROVE  Returning'
<1>0. \A d \in Clerks : d = c
  BY DEF OneClerk
<1>1. /\ return' = return /\ shelved' = shelved /\ returnCrashes' = returnCrashes
      /\ clerk[c].at \in {"flag", "restore", "refund"}
      /\ \/ clerk'[c] = ClerkIdle
         \/ clerk[c].at = "refund" /\ clerk'[c].at = "close" /\ clerk'[c].of = clerk[c].of
      /\ clerk[c].at = "refund" => soldOrder' = soldOrder
      /\ clerk[c].at = "flag" => clerk[c].of \in ReturnIds
  BY FlagDoes, RestoreDoes, RaiseRefundDoes DEF ClerkBecomes, ClerkContinues, ReturnTypes, ClerkBusy, ClerkAt
<1>2. ~ClerkAt(c, "count") /\ ~ClerkAt(c, "count")'
  BY <1>1 DEF ClerkAt, ClerkIdle
<1>3. ClerkHolds(c)'
  <2>1. clerk[c].at = "refund" => InQuestion(c) \in {"INSPECTED", "COMPLETED"}
    BY DEF Returning, ClerkHolds
  <2> QED
    BY <1>1, <2>1 DEF ClerkHolds, ClerkAt, InQuestion, ClerkIdle
<1>4. soldOrder'.status = "RETURN_REQUESTED" /\ returnCrashes = 0 => SomeKept
  <2>1. CASE clerk[c].at = "flag"
    <3>1. InQuestion(c) = "REQUESTED"
      BY <2>1 DEF Returning, ClerkHolds, ClerkAt
    <3> QED
      BY <1>1, <2>1, <3>1 DEF SomeKept, InQuestion
  <2>2. CASE clerk[c].at = "restore"
    <3>1. \/ soldOrder'.status # "RETURN_REQUESTED"
          \/ \E r \in ReturnIds : return[r].status \notin Settled \cup {"NONE"}
      BY <2>2, FlagDoes, RestoreDoes, RaiseRefundDoes
    <3> QED
      BY <3>1 DEF SomeKept, Settled
  <2>3. CASE clerk[c].at = "refund"
    BY <1>0, <1>1, <2>3 DEF Returning, ClerkAt
  <2> QED
    BY <1>1, <2>1, <2>2, <2>3
<1> QED
  BY <1>1, <1>2, <1>3, <1>4, RowsStay

LEMMA ReturningStep ==
    ASSUME OneClerk, ReturnTypes, Returning, [ReturnsNext]_returnVars
    PROVE  Returning'
<1>1. ASSUME NEW c \in Clerks, ClerkDies(c) PROVE Returning'
  <2>1. return' = return /\ clerk'[c] = ClerkIdle /\ returnCrashes' # 0
    BY <1>1, ClerkDyingDoes DEF ClerkBecomes
  <2>2. \A d \in Clerks : ClerkHolds(d)'
    BY <2>1 DEF OneClerk, ClerkHolds, ClerkAt, ClerkIdle
  <2>3. AskedFor' <= UnitsSold /\ \A r \in ReturnIds : ReturnFits(r)'
    BY <2>1 DEF Returning, AskedFor, AskedBy, ReturnFits
  <2> QED
    BY <2>1, <2>2, <2>3 DEF Returning
<1>2. ASSUME UNCHANGED <<return, shelved, clerk, returnCrashes>>,
             soldOrder'.status = "RETURN_REQUESTED" => soldOrder.status = "RETURN_REQUESTED"
      PROVE  Returning'
  <2>1. /\ AskedFor' <= UnitsSold /\ \A r \in ReturnIds : ReturnFits(r)'
        /\ \A c \in Clerks : ClerkHolds(c)'
    BY <1>2 DEF Returning, AskedFor, AskedBy, ReturnFits, ClerkHolds, ClerkAt, InQuestion
  <2>2. returnCrashes = 0 =>
          /\ \A r \in ReturnIds : OnShelf(r)'
          /\ soldOrder'.status = "RETURN_REQUESTED" => SomeKept' \/ \E c \in Clerks : ClerkAt(c, "restore")'
    BY <1>2 DEF Returning, OnShelf, SomeKept, ClerkAt
  <2> QED
    BY <1>2, <2>1, <2>2 DEF Returning
<1>3. ASSUME NEW f \in RefundRows, RefundLands(f) PROVE Returning'
  BY <1>2, <1>3, RefundLandingDoes
<1>4. CASE UNCHANGED returnVars
  BY <1>2, <1>4 DEF returnVars
<1> QED
  BY <1>1, <1>3, <1>4, RaisingReturns, DecidingReturns, InsertReturns, DecisionReturns, OrderReturns,
     RestockReturns, CountReturns DEF ReturnsNext

LEMMA ReturningStarts == ReturnsInit => Returning
<1> SUFFICES ASSUME ReturnsInit PROVE Returning
  OBVIOUS
<1>1. /\ \A r \in ReturnIds : return[r] = NoReturn /\ shelved[r] = 0
      /\ \A c \in Clerks : clerk[c].at = "idle"
      /\ soldOrder.status = "DELIVERED"
  BY DEF ReturnsInit, ClerkIdle
<1>2. AskedFor <= UnitsSold
  <2>1. return \in [ReturnIds -> ReturnRow]
    BY ReturnsStartTyped DEF ReturnTypes, ReturnsTypeOK
  <2> DEFINE f == [r \in ReturnIds |-> Pooled(return[r])]
  <2>2. \A r \in ReturnIds : f[r] = 0
    BY <1>1 DEF Pooled, NoReturn
  <2>3. AskedFor = SumFunctionOnSet(f, ReturnIds)
    BY <2>1, AskedIs, AskedForIs
  <2> HIDE DEF f
  <2>4. AskedFor = 0
    BY <2>2, <2>3, SumOfNothings, ReturnsAssumption
  <2> QED
    BY <2>4, ReturnsAssumption
<1>3. \A r \in ReturnIds : ReturnFits(r) /\ OnShelf(r)
  BY <1>1 DEF ReturnFits, OnShelf, NoReturn, ClerkAt
<1>4. \A c \in Clerks : ClerkHolds(c)
  BY <1>1 DEF ClerkHolds, ClerkAt
<1> QED
  BY <1>1, <1>2, <1>3, <1>4 DEF Returning

\* For any returns of a line, any refunds and any crashes, and one clerk at a time: no more
\* units are on their way back or back than the line sold; and unless somebody died halfway
\* no return shelves more units than were approved of it.
THEOREM NothingOverReturned ==
    ASSUME OneClerk
    PROVE  ReturnsSpec => []NeverOverReturned
<1>1. ReturnTypes /\ Returning /\ [ReturnsNext]_returnVars => Returning'
  BY ReturningStep
<1>2. ReturnTypes /\ Returning => NeverOverReturned
  <2> SUFFICES ASSUME ReturnTypes, Returning PROVE NeverOverReturned
    OBVIOUS
  <2> DEFINE asked == [r \in ReturnIds |-> return[r].asked]
             kept == {r \in ReturnIds : return[r].status \in ReturnStatuses \ {"NONE", "REJECTED", "CANCELLED"}}
             pool == {r \in ReturnIds : return[r].status \notin {"REJECTED", "CANCELLED"}}
  <2>1. return \in [ReturnIds -> ReturnRow]
    BY DEF ReturnTypes, ReturnsTypeOK
  <2>2. kept \in SUBSET pool /\ IsFiniteSet(pool) /\ \A r \in pool : asked[r] \in Nat
    <3>1. \A r \in ReturnIds : return[r].asked \in Nat
      BY <2>1 DEF ReturnRow
    <3> QED
      BY <3>1, ReturnsAssumption, FS_Subset
  <2>3. AskedBy(kept) = SumFunctionOnSet(asked, kept) /\ AskedFor = SumFunctionOnSet(asked, pool)
    BY DEF AskedBy, AskedFor
  <2>4. /\ returnCrashes = 0 => \A r \in ReturnIds : shelved[r] <= return[r].approved
        /\ AskedFor <= UnitsSold
    BY DEF Returning, OnShelf, ReturnFits
  <2>5. SumFunctionOnSet(asked, kept) \in Nat /\ SumFunctionOnSet(asked, pool) \in Nat
    BY <2>2, FS_Subset, SumIsNat
  <2> HIDE DEF asked, pool
  <2>6. SumFunctionOnSet(asked, kept) <= SumFunctionOnSet(asked, pool)
    BY <2>2, SumOfSubset
  <2>7. AskedBy(kept) <= UnitsSold
    BY <2>3, <2>4, <2>5, <2>6, ReturnsAssumption
  <2> QED
    BY <2>4, <2>7 DEF NeverOverReturned
<1> QED
  BY <1>1, <1>2, ReturningStarts, ReturnsStartTyped, ReturnStepKeepsTypes, PTL DEF ReturnsSpec

\* And unless somebody died halfway, an order that waits for returned goods has a return
\* that was neither rejected nor cancelled once the clerk rests.
THEOREM GoodsAreAwaited ==
    ASSUME OneClerk
    PROVE  ReturnsSpec => []WaitsForGoods
<1>1. ReturnTypes /\ Returning /\ [ReturnsNext]_returnVars => Returning'
  BY ReturningStep
<1>2. Returning => WaitsForGoods
  BY DEF Returning, WaitsForGoods, SomeKept, ClerkAt
<1> QED
  BY <1>1, <1>2, ReturningStarts, ReturnsStartTyped, ReturnStepKeepsTypes, PTL DEF ReturnsSpec
==============================================================================
