# Clearwood: models, checks and proofs of the shop's core

Clearwood is a furniture shop: an Express API over MySQL (Prisma), a storefront,
an admin panel, and adapters for a payment provider and couriers. What can go
wrong in it without any single function being wrong is in `src/backend`: several
Node.js workers serve requests, webhooks and sweeps over one database, every
`await` lets another worker in, and stock, coupons, money, parcels and the status
of an order are spread over many rows. This directory models that part in TLA+,
checks it with TLC and proves what matters most with TLAPS. Paths below are
relative to `src/backend/src/` unless they start with `src/`.

## 1. Inventory

### 1.1 Components, state and operations

| component | state | operations | modules |
|---|---|---|---|
| inventory ledger (`modules/catalog-admin/inventory.service.ts`, `variant.admin.service.ts`) | `ProductVariant.stockQty / reservedQty / allowBackorder / stockStatus / version / deletedAt`; append-only `InventoryLedger` | `adjust`, `setAbsolute`, `reserve`, `release` (one transaction each, row locked); `update` and `remove` of a variant (product locked) | `StockRules`, `Inventory` |
| order lifecycle (`modules/orders/orderStateMachine.ts`) | `Order.status` | `transition`: table, guards, compare-and-set | `OrderLifecycle`, `Checkout` |
| checkout and holds (`modules/orders/checkout.service.ts`) | `CheckoutSession`, `Order`, `StockReservation`, `Cart.status` | `place`, `verifyPayment`, `confirmPayment`, `confirmCod`, `failOrder`, `abandon`, `expireStaleOrders`, `commitHolds`, `releaseHolds` | `Checkout`, `OrderContract` |
| coupon redemption (`modules/pricing/coupon.redemption.service.ts`) | `Coupon.usedCount`, `CouponRedemption` | `reserve`, `confirm`, `release` | `Checkout` |
| cancellation (`modules/orders/order.service.ts`, `controllers/order.controller.ts`) | `Refund` rows | `cancelForCustomer`, `requestRefundFor`, the admin `setStatus` | `Checkout` |
| payments and webhooks (`modules/orders/webhook.service.ts`, `repositories/payment.repository.ts`) | `Payment`, `PaymentWebhookEvent` | `receive`, `replay`, `dispatch`; the payment and refund handlers; `markCaptured` (compare-and-set) | `WebhookInbox`, `Checkout`, `Refunds` |
| reconciliation (`modules/orders/reconciliation.service.ts`) | none of its own | `run`: asks the provider before it expires an order; `verifyPendingRefunds` | `Checkout`, `Refunds` |
| refund execution (`modules/payments/refund/`) | `Refund`, reversals, `Order.refundedPaise / refundReservedPaise` | request, approve, claim, reserve capacity, call, reverse, book; verify | `Refunds`, `ReversalPlanner`, `OrderMoney` |
| split payments (`modules/payments/split/`) | `OrderSplitAllocation`, `PaymentTransfer` | allocate, transfer, retry | `Payouts` |
| pricing engine (`modules/pricing/`, `src/shared/src/money.ts`) | none | list price, tiers, adjustments, discounts, coupon, shipping, tax, rounding | `Money`, `Pricing` |
| document numbers (`repositories/order.repository.ts`, `modules/fulfilment/fulfilmentNumber.service.ts`) | sequence rows | allocate by compare-and-set with a retry budget | `DocumentNumbers` |
| fulfilment (`modules/fulfilment/shipment.service.ts`, `providerGateway.service.ts`, `tracking.service.ts`) | `Shipment`, `ProviderOperation`, `OrderItem.fulfilledQty` | create, label, cancel, move by hand; courier's updates; the derived order status | `ShipmentLifecycle`, `Shipments` |
| returns (`modules/fulfilment/return.service.ts`) | `ReturnRequest`, refunds raised | request, approve, collect, receive, inspect, complete, reject, cancel | `Returns` |
| cart (`modules/cart/`) | `Cart`, `CartItem` | add, set, remove, clear, save, correct, merge, abandon, expire, convert | `Cart` |
| authentication (`modules/auth/`) | `RefreshToken`, `OtpChallenge` | issue, rotate, revoke a family | `TokenRotation` |
| administrators (`modules/auth/admin-user.service.ts`) | `AdminUser`, roles | create, invite, activate, suspend, disable, remove, promote, demote | `AdminRoster` |
| request idempotency (`middleware/idempotency.ts`) | `IdempotencyKey` | find, create, wait, replay, settle, purge | `Idempotency` |
| listing reconciler (`modules/storefront/`, `repositories/maintenanceTask.repository.ts`) | `MaintenanceTask`, listing rows | acquire, renew, complete, request a rebuild, refresh | `ListingReconciler` |
| catalogue administration (`modules/catalog-admin/category.admin.service.ts`, `materializedPath.ts`) | `Category` | create, move, rename, delete, restore | `CategoryTree` |
| caches (`drivers/cache/redis.cache.ts`, `catalogCache.service.ts`) | entries, epochs, unconfirmed prefixes | get, fill, invalidate, replay | `SharedCache` |
| storefront and search, content, media, documents, reports, notifications, other drivers | rows and files | queries, rendering, I/O | — |

`PROJECT.json` lists every component with its status and the reason for what is
left out, and, under `hazards`, everything a test would hardly reach, at its line,
with the property that covers it.

### 1.2 How they interact

`place()` reads the cart through the checkout session, writes the order in one
transaction, then takes the holds **one item at a time**: `inventory.reserve()`
commits, then a `StockReservation` row commits, then the next item. The coupon
follows, then the session learns its order, the status moves to
`PENDING_PAYMENT`, the provider is asked for an order and a `Payment` row is
written. From then on five actors may act on the order at once: the browser
(`verifyPayment`), the provider (webhooks, in any order, any number of times),
the shopper (`cancel`, `abandon`), the sweep (`expireStaleOrders`, reconciliation)
and an administrator. They meet in three compare-and-set statements
(`markCaptured`, `stockReservation.settle`, `order.transitionStatus`), and in
many statements that are not.

A captured payment pays the partners their shares. A cancelled, returned
or complained-about order raises `Refund` rows; executing one reserves capacity on
the order, calls the provider, reverses the partners' transfers, and books the
money, while the provider's webhooks and reconciliation change the same rows.
Parcels of a confirmed order are moved by staff, by the courier's webhooks and by
polls; each of them derives the order's status from all parcels.

### 1.3 What is hard, and the properties that make it correct

* **Stock ledger.** A balance read before a lock; policy and stock edited through
  different locks. Correct when the ledger is a running total of the balance
  (`LedgerIsRunningTotal`) and no movement takes a variant below what is reserved
  (`MovesKeepFloor`).
* **Lifecycle.** A transition is judged on an order read several awaits before.
  Correct when no status changes along an edge that is not in the table
  (`LegalMoves`), and nobody gets a committed order without a captured payment or
  cash (`CommittedMeansPaid`).
* **Holds.** Confirmation, failure, abandonment, sweep, reconciliation and
  cancellation settle the same reservations. Correct when every reserved unit is
  owned by one live reservation (`HoldsAccounted`), sold or given back once
  (`SoldAtMostOnce`, `KeepsContract`) and not held by an order that was decided
  (`NoHoldAfterRelease`); and when what nobody pays for comes back
  (`LapsedHoldsComeBack`).
* **Coupons.** The same races on a counter (`CouponSlotsAccounted`, `NoSlotLost`).
* **Webhooks.** At-least-once delivery, effect at most once
  (`HandledOncePerReplay`), and no event forgotten (`InboxSettles`).
* **Refunds.** Capacity is reserved before a call whose outcome may stay unknown.
  Correct when never more goes out than came in (`NeverOverRefunded`), the order's
  books equal what the provider did (`BooksBalance`), one worker acts on a refund
  (`OneWorkerActs`, `OnlyReconciliationResolves`), partners give back once
  (`PartnersGiveOnce`), and limbo ends (`LimboEnds`).
* **Paise.** Each total is divided over lines, pieces, partners and refunds;
  nothing may be created or lost by rounding (`OrderMoneyAddsUp`,
  `PartnersPaidOnce`).
* **Parcels and returns.** `NeverOverShipped`, `OneOrderAtCourier`,
  `OrderFollowsParcels`, `NeverOverReturned`, `WaitsForGoods`.
* **One winner.** Of a token (`OneLiveToken`, `RevokedStaysDead`), a key
  (`OneRequestPerKey`), a lease (`WatermarkCovers`, `RebuildHonoured`), a number
  (`GaplessSeries`); and somebody keeps the keys (`SuperAdminRemains`).
* **Redundant state.** Stored paths (`PathsFollowParents`), clamped quantities
  (`LinesWithinCeiling`), cached values (`NoStaleEntry`).

## 2. Modules

### 2.1 Overview

| module | stands for |
|---|---|
| `StockRules` | the arithmetic of `inventory.service.ts` on one locked row; used by both `Inventory` and `Checkout`, so that they cannot disagree |
| `Inventory` | variant rows, ledger rows, movements, two-step admin edits and removals |
| `OrderLifecycle` | `ORDER_TRANSITIONS`, the guards, the releasing and committed statuses, as data |
| `Checkout` | everything from `place()` to a settled order: composes `StockRules`, `OrderLifecycle`, the coupon, the payment row, the webhooks that confirm or fail an order, sweep, reconciliation, cancellation, admin status changes, the provider and crashes |
| `OrderContract` | abstract: what an order promises about its stock, without handlers |
| `CheckoutInvariant` | the inductive invariants of the checkout's proofs, as definitions TLC can check too |
| `WebhookInbox` | the event table: store, lock, dispatch, release, replay |
| `Refunds` | a refund from its request to its booking, with workers that die, stale locks, reconciliation and the provider's webhooks; composes `OrderLifecycle` and `ReversalPlanner` |
| `ReversalPlanner` | `reversalPlanner.ts`, a pure function |
| `Money` | `src/shared/src/money.ts`: basis points, tax, GST halves, proportional allocation, split |
| `Pricing` | `pricing.engine.ts`, `tier.resolver.ts` and `refundCalculator.ts` as operators: a basket to a quote, an order and pieces to a refund |
| `OrderMoney` | the paise of one order from the quote through several refunds; composes `Pricing` |
| `Payouts` | `split.engine.ts` and `split.service.ts`: allocations, the transfers of a captured payment, retries |
| `ShipmentLifecycle` | `shipmentStateMachine.ts`: edges of a parcel, the status derived for the order |
| `Shipments` | staff, courier and journal around the parcels of one order; composes `ShipmentLifecycle` and `OrderLifecycle` |
| `Returns` | returns of one line, restocking, refunds that land later |
| `Cart` | a guest's and a customer's cart, by statement |
| `Idempotency` | the middleware for one key |
| `TokenRotation` | one family of refresh tokens |
| `ListingReconciler` | lease, watermark and rebuilds of the listing index |
| `DocumentNumbers` | both sequence repositories |
| `AdminRoster` | administrators and the `SUPER_ADMIN` rule |
| `CategoryTree` | the category tree and its stored paths |
| `SharedCache` | the Redis cache around one key |
| `MCCheckout`, `MCRefunds`, `MCShipments`, `MCCart`, `MCBaskets` | instances for TLC: carts, opening stock, refunds' amounts, baskets, symmetry |
| `MCServices`, `MCMoney`, `MCSettlement` | one run for components that share no state: the variable `subject` (or `mover`), chosen in the initial state, says which one moves; the others keep their initial state |
| `SumTheorems` | facts about sums over finite sets and functions, for the proofs that count units and paise, and proofs about the divisions of `Money` |
| `CheckoutProofs`, `CheckoutAccountProofs` | proofs about `Checkout`: types, status changes and the contract; the accounts of stock and coupon |
| `RefundProofs` | proofs about `ReversalPlanner`, `Refunds` and `Payouts` |
| `OrderMoneyProofs` | proofs about `Pricing` and `OrderMoney` |
| `GoodsProofs` | proofs about `Inventory`, `Shipments` and `Returns` |
| `UniquenessProofs` | proofs about `TokenRotation`, `WebhookInbox`, `DocumentNumbers`, `AdminRoster` and `Idempotency` |
| `CatalogueProofs` | proofs about `SharedCache`, `ListingReconciler` and `Cart` |

The conventions are the same everywhere. A handler in progress is a record of its
worker (`pc` and `task` of a job, `worker`, `desk`, `clerk`, `tab`, `delivery`,
`pass`, `manager`, `editor`, …): the statement it executes next, what it was called
with, and the columns it has read and still relies on. One step is one database
statement, one transaction or one external call, so every interleaving at an
`await` is a behaviour. A refused call changes nothing. What belongs to somebody
else (the payment provider, the courier) is a variable marked external. Where
the code writes by id from a row it read before, so does the model; where it writes
under a predicate, the predicate is the guard.

### 2.2 `Inventory`

`inventory.service.ts` opens each of its transactions with `SELECT ... FOR UPDATE`
on the variant, so `Adjust`, `Reserve` and `Release` are single actions; the row's
floors come from `StockRules`. `setAbsolute()` computes its delta *inside* the lock
from the target, hence `SetAbsolute`. `variant.admin.service.ts` locks the
**product** instead: `update()` reads the row and derives the new status
(`ReadForUpdate`), then writes it under the version check (`WriteUpdate`), and
`remove()` checks (`CheckRemovable`) and deletes (`Remove`) while a reservation can
come in between. The variable `removal` is the product lock. `bulkAdjust` is a loop
over `adjust`.

### 2.3 `Checkout`

| variable | code |
|---|---|
| `stockQty`, `reservedQty` | `ProductVariant` |
| `status`, `payStatus`, `paid`, `expiry`, `placedBy` | `Order.status`, `paymentStatus`, `paidPaise > 0`, `expiresAt` (unset, set, in the past), the session that placed it |
| `hold` | `StockReservation.status` of each item |
| `usedCount`, `redemption` | `Coupon.usedCount`, `CouponRedemption.status` |
| `payment`, `payId` | `Payment.status`, whether `providerPaymentId` is recorded |
| `sessionOrder`, `convertedTo` | `CheckoutSession.orderId`, the order a cart was converted into |
| `refunds` | number of `Refund` rows a cancellation requested |
| `provider` | which events have happened at the payment provider (external) |

| code | steps of the job |
|---|---|
| `place()`, `createOrder()` | `StartPlace`, `Create`, (`ReserveItem`, `WriteReservation`)*, `ReserveCoupon`, `AttachSession`, `Move`, `ProviderAccepts` / `ProviderRefuses`, `WritePayment` |
| the catch block of `takeHolds()` | `UndoReserve`*, `UndoRows` |
| `confirmCod()` | `Reload`, `WriteCodPayment`, then `commitHolds()` |
| `commitHolds()` | `ListHolds`, (`SettleHold`, `GiveBack`, `Deduct`)*, `ReadRedemption`, `WriteRedemption`, `ConvertCart`, `Move` |
| `releaseHolds()` | `ListHolds`, (`SettleHold`, `GiveBack`)*, `ReadRedemption`, `WriteRedemption` |
| `verifyPayment()`, captured webhook | `StartVerify` / `DeliverCaptured`, `Capture`, `RecordPaid`, `Reload`, `commitHolds()` |
| authorized and failed webhooks | `DeliverAuthorized`, `WriteAuthorized`; `DeliverFailed`, `WriteFailed`, then `failOrder()` |
| `failOrder()`, `expireStaleOrders()` | `releaseHolds()`, `MarkPayment`, `Reload`, `Move` |
| reconciliation | `Reconcile`, `LookUpPayment`, `AskProvider`, then confirmation or expiry |
| `cancelForCustomer()` | `Cancel`, `releaseHolds()`, `Move`, `RequestRefund` |
| admin `setStatus()` | `AdminSetStatus`, `Move` |
| `transition()` | `Move` (won the compare-and-set), `MoveAlreadyMade` (the order is there already), `MoveRefused` (illegal, or moved elsewhere) |

`transition()` judges the table and the guards on `seen`, the order as the handler
read it, and writes only where the status is still the one in `seen`. The second
half of that sentence is what `LegalMoves` is about.

Abstractions, each an over-approximation or outside every property: the order of
items inside `takeHolds()` is arbitrary; the re-validation of the cart before an
order is written is left out; order totals are positive, so the zero-total guard
of the state machine is left out; the sweep and reconciliation handle one stale
order per job; the two reads with which `settleCoupon()` finds the redemption are
one; variants are not deleted while orders are placed; `CouponSessions` carry one
coupon; history rows, notifications, addresses and quotes are left out, and split
allocations and transfers are `Payouts`.

### 2.4 Money that comes back: `Refunds`, `ReversalPlanner`, `WebhookInbox`

`Request`, `StartApprove`/`Approve` and `StartExecute` are the service's entry
points. An execution is `Claim` (the compare-and-set of `payment.repository.ts:310`),
`Plan`, `Reserve` and `MarkReserved` (two statements), `CallProvider` or `Adopt`
(the provider is asked first whether it knows the refund), then either
`HoldForVerification` (outcome unknown), `ReleaseCapacity` and `FailRefund` (refused),
or `RecordProvider`, the reversals and the booking (`BeginBooking`, `ReadForBooking`,
`ConfirmOnOrder`, `SettleOrder`). Each transfer is reversed by `StartReversal` (what is
left to take), `ReverseTransfer` (the partner's answer: given and heard, not heard, or
refused), then `RecordReversal` (both rows in one transaction, or neither) or
`ParkReversal` (the catch); `returned` is what partners really gave back, which no row
knows of until it is recorded, and never if the answer is lost or the worker dies.
`VerifyRefund` to `FailVerified` are `verifyPendingRefunds()`; `ProviderSettles` and
`OnRefund` are the provider and its webhook; `LockGoesStale` is the lock's timeout
(`locked = "stale"`), restricted by `LocksOutliveCalls` to refunds nobody works on. The
transaction that books is one step; the write under a predicate inside it is its
guard.

`WebhookInbox` is `receive()` (`Deliver`, `LookUpEvent`, `InsertEvent`), `process()`
(`ProcessEvent`, `Dispatch`, `SettleEvent`) and `replay()` (`ReplayEvent`).

### 2.5 Paise: `Money`, `Pricing`, `OrderMoney`, `Payouts`

These are integer computations with rounding at every division, translated formula
by formula: `QuoteOf` is the engine's pipeline (list price, tier, adjustments with
the floor at zero, group rate, extras, best offer, coupon (a percentage, also when
`TIERED`, or an amount) with its cap and its proportional allocation, delivery rate, tax inclusive or exclusive, GST halves, round
to the rupee), `RefundOf` the calculator's (default delivery refund, per-piece
division of what is left of a line, the closing refund that takes the rest).
Matching (dates, channels, customer groups, product facts) is abstracted to which
rules fit a line. The record sets (`Basket`, `BasketLine`, `PriceRule`, ...) are what
the validators of prices, rules and coupons let through: amounts and rates are natural
numbers, only adjustments and customisations may be negative. `OrderMoney` freezes a quote (`PlaceOrder`), requests refunds
(`FreezeRefund`, worth computed now) and executes them in any order
(`ExecuteRefund`, taken off the lines then, under the predicate of
`refund.service.ts:808`).

`Payouts` computes the allocations of overlapping rules (`Takes`: each rule sees what
is left by the ones before it; `AllocationsOf` gives the rest to the residue) and
follows each leg: one call for all legs, one row a leg, retries leg by leg.

### 2.6 Goods that move: `Shipments`, `Returns`

A desk creates a parcel (`CreateParcel`, `CountParcels`, `InsertParcel`: remaining
units are read before the insert), labels it (`AssignAwb`, `PromoteDraft`,
`RereadParcel`, then the journal: `ClaimOperation`, `CallCourier`, `FinishOperation`,
then `RecordRegistration`, `LabelParcel`), schedules, cancels or moves it
(`SetParcelStatus`, to any status of the form, `ByHand`, that the table allows). The
courier's words (`Says`, its own vocabulary) arrive as `CourierReports` and are written (`WriteStatus`, or
`WriteQuietly` when the status is not a change). Whoever changed a parcel derives the
order from all of them: `ReadParcels`, `ReadFulfilment`, `BookFulfilment`,
`DeriveStatus`, `MoveOrder`. `courierParcels` counts what the courier really made.

`Returns` follows `return.service.ts`: each decision is judged on a row read before and
written by id (`Decide`, `WriteDecision`); `complete()` is `StartComplete`, `Restock`,
`CountRestocked`, `RaiseRefund`, `CloseReturn`; refunds land by `RefundLands`.

### 2.7 The small ones

* `Cart`: `FindCart`/`InsertCart` (unique key on the owner's active cart),
  `CheckRoom`, `UpsertLine` (atomic increment) and `ClampLine`, `ReadLine`/`SwapQty`
  (compare-and-set), the merge line by line (`MergeLine`, `SettleLine`,
  `RetireGuest`), `ReadForFix`/`FixLine`, the sweeps (`ListStale`, `MarkStale`), the
  recount (`CountLines`, `WriteCount`) and the checkout's conversion.
* `Idempotency`: `FindKey`, `WaitForOutcome`, `DropExpired`, `CreateKey`, `RunHandler`,
  `SettleKey`, with the key's expiry and the purge.
* `TokenRotation`: `Present`, `JudgeToken`, `ClaimToken` (compare-and-set), the loser's second
  look (`JudgeLost`), `IssueChild`, `LookBack`, and revocations at any moment.
* `ListingReconciler`: `StartPass`, `Acquire`, `ReadTask`, `Refresh` per product,
  `KeepAlive`, `Complete`; `Tick` is the clock; `PricingWrite` and `RequestRebuild` are
  two steps of whoever changes prices.
* `DocumentNumbers`: `ReadLast`, `WriteNext`; the unique key and the compare-and-set are
  both "nobody wrote since I read".
* `AdminRoster`: `Begin` (the actor's privilege is read), `Enter` (`withRoleLock`), `Judge`,
  `Commit`, `RollBack`; invitations are accepted outside the lock.
* `CategoryTree`: a request checks (`Begin…`), writes its row, and rewrites the paths
  below (`RewriteBelow`).
* `SharedCache`: `CommitWrite` then an invalidation (`AdvanceEpoch`, `Unlink`, `Confirm`, or
  `SweepFails`), and a read that misses (`StartFill`, `ReadEpoch`, `Build`, `SetIfEpoch`).

## 3. Runs

### 3.1 Runs that pass

| run | question | instance | distinct states |
|---|---|---|---|
| `checkout_one_order` | Do all handlers racing on one order keep units, holds, payment, coupon and status consistent, does every path implement `OrderContract`, and does a lapsed order end up holding nothing? | 1 order of 1 variant, 2 workers, every handler, fairness below | 1.0 million |
| `checkout_two_orders` | Do competing carts get and give back stock correctly? | 2 orders, 2 variants of which one has one unit, 2 workers of which one may die; placement, cash, provider failures, confirmation, the admin form with `CONFIRMED` | 1.2 million |
| `money` | Are refunds, coupons, paise and payouts accounted for? | 3 refunds of 4 of a payment of 10, 2 executors, 1 reconciler, 1 crash; 2 orders at the last use of a coupon, placements, 1 crash; 240 baskets, 3 refunds of 0, 1 or 3 pieces a line; 6 sales with overlapping split rules, 1 retrier, 1 crash | 1.8 million |
| `settlement` | Does what follows a payment come to an end, and do partners give back once? | 2 refunds with a transfer of 6, 2 executors, 1 reconciler, 1 crash; 2 events, 2 workers, 1 replay, 1 crash; fairness below | 0.21 million |
| `services` | Do the components that share no state keep their promises? | one small instance each, see the cfg: 2 administrators on a variant, 2 parcels of 2 lines, 2 returns of 2 units, 3 requests with one key, 3 tokens and 3 rotations, 2 processes with a lease over 3 instants, 4 requests for a number, 2 administrators' accounts, 3 categories, 2 tabs and 2 carts, 2 processes with a cache | 2.8 million |

**Why these bounds are enough to be interesting.** Two workers are the least that
race, and every hazard found needs only two jobs at once. Two items make the
window inside a placement and inside a settlement real (one settled, one not); two
orders are needed only where orders compete (last unit, last coupon use). Three
refunds of which any two fit make capacity bind; a payment of 10 with 6 transferred
makes a reversal partial. The baskets' prices, rates and weights leave a remainder
at every division. A family of three tokens is a rotation, a reuse and the child of a
rotation; three requests with one key are the first, a copy and another payload. The
proofs of section 4 lift the most important results from these bounds.

**Symmetry.** Workers of the checkout, refunds of one amount and returns of one line
are interchangeable in every step and every property, so permuting them is sound.
The runs that check liveness use none.

**Deadlock** checking is off everywhere: when all orders are settled and nobody
clicks, the system rightly stops.

**Combined runs.** `services`, `money` and `settlement` put components side by side
that share no state; in one behaviour only one of them moves. That is the union of
their state spaces, not the product, and says about each exactly what a run of its
own would. `services` tells TLC so (`VIEW MovingState`): a state is identified by the
subject and the variables of its component, all others having their initial values.
Some alternatives that are actions of the modules are off in that instance to keep it
small: the courier never reports a cancellation, staff set three statuses by hand
(`ByHand`: collected, in transit and asked back; the proofs take any), and no tab
converts the cart, which the checkout's own runs do.

**Restrictions that matter**, each because the property does not hold beyond it, as
section 3.3 describes:

* `checkout_one_order` and the proofs: the administrator's form sets only committed
  statuses (`AdminTargets`); with `CANCELLED` holds stay behind, and with `CONFIRMED`
  a paid order can be confirmed while its holds are still `RESERVED` (which
  `HoldsAccounted` and `CommittedMeansPaid` allow, `KeepsContract` does not).
* `CouponSlotsAccounted` is checked for placements; once confirmations and releases
  race it does not hold. That no use of the coupon is lost (`NoSlotLost`) is checked
  with every handler.
* Refunds: workers die at every step but "mark" and "fail" (`SafeToDie`), locks outlive
  the provider's calls (`LocksOutliveCalls`), and one reconciliation runs at a time
  (with two, `refunds_released_twice`). Workers also die once a partner gave money back and
  before a row says so. `PartnersGiveOnce` is checked, and proved, for a
  sale transferred to one partner.
* `OrderMoneyAddsUp`: a refund is executed before the next is requested
  (`MaxAwaiting = 1`; with two awaiting see `refund_line_twice`).
* `PartnersPaidOnce`: one administrator retries at a time and does not die between the
  provider's answer and the row (`Retriers`, `MortalPayers`), and no answer is lost
  (`LostAnswers`).
* `Shipments`, `Returns`, `CategoryTree`: one desk, one clerk, one editor. All three judge
  on a row read before and write by id; two of them at once break every property.
* `Cart`: no more pieces are available than a line may hold, and no request dies; a
  correction judges on a line it may have read before its clamp.
* `SharedCache`: an invalidation fails only while its process runs no other one
  (`SweepsFail = "alone"`).
* Crashes are explored in `Refunds`, `WebhookInbox`, `Payouts`, `Shipments`,
  `Returns`, `Idempotency`, `TokenRotation`, `ListingReconciler`, `AdminRoster` in
  `money`'s checkout and in `checkout_two_orders`. A worker killed between `reserve()` and the
  `StockReservation` row loses units by construction, so `HoldsAccounted` is asked
  without crashes.

**Fairness.** `checkout_one_order`: weak fairness of the steps of every job, because
Node.js runs the continuation of a handler that was started; strong fairness of
starting the sweep for a stale order, because it looks again and again while other
jobs move the order in and out of its view or keep all workers busy. The source has
*no timer* for it (`expireStaleOrders()` and reconciliation run on demand; only the
listing reconciler has one, `server.ts:43`), so this is an assumption about the
deployment. `settlement`: reconciliation takes up every refund it lists again and
again and now and then reaches the provider (strong), and runs to its end (weak);
nothing is assumed of executions, which may be dead. Inbox workers go on (weak).

### 3.2 Runs that end in a counterexample

Each states something a comment or the schema says, and TLC finds a history of
the code as written that breaks it:

| run | history |
|---|---|
| `checkout_double_submit` | two `place()` calls of one session both read it without an order and create two |
| `checkout_reconcile` | the provider order is paid, but no payment id has reached us: reconciliation expires it |
| `refunds_released_twice` | two reconciliations at once take up the same refund of unknown outcome and both release its reservation; the second takes another refund's, and more is granted than was paid |
| `refund_line_twice` | two refunds of one piece are requested before either is executed; both are paid out, the second at the expense of the order's other lines |
| `returns_completed_twice` | `assertTransition` accepts a status a return is already in: `complete()` of a completed return raises a second refund |
| `cart_merged_twice` | the login's merge and `POST /cart/merge` overlap; the guest's quantities are added twice |
| `fulfilment_second_order` | a repeat after a refused courier call owns no journal entry; its timeout goes unrecorded, and a third attempt orders the parcel again |

### 3.3 Further histories the models show

Found while modelling, most with TLC on larger or less restricted instances, the
others by reading, and kept here because nothing else records them.

*Stock and orders*

* Switching `allowBackorder` off while a variant is oversold
  (`variant.admin.service.ts:341`) leaves more reserved than stocked, and `adjust()`
  then refuses even deliveries that do not close the whole gap.
* `update()` derives `stockStatus` from a balance read before the lock (`:324`), and
  `adjust()` does not touch `version`: the stored status can belong to an old
  balance. `remove()` checks `reservedQty` under the product lock (`:400`), `reserve()`
  takes the row lock: a removed variant can hold reservations.
* `commitHolds()` releases units before it deducts them (`checkout.service.ts:593`):
  another placement reserves them in between, the deduction is refused and only
  logged. The reservation is `CONSUMED`, the stock was not.
* Of two cancellations one wins the transition and one finds it made; both write a
  full refund.
* A worker dies while its order is `DRAFT`; no sweep looks at `DRAFT`, its reservation
  stays.
* The sweep acts on the order it listed (`checkout.service.ts:722`): a capture
  recorded in between is overwritten with `paymentStatus = EXPIRED`, and the order
  expires although it is paid.
* `failOrder()` overwrites `paymentStatus` by id: a late failed-payment webhook that
  read the order before its capture leaves a `CONFIRMED` order with
  `paymentStatus = FAILED`.
* A failed attempt releases the holds; a later attempt on the same order confirms
  it, and `commitHolds()` finds nothing to consume: paid, and no stock taken.
* After a failed attempt the payment row is `FAILED`, and `markCaptured()` of a
  second attempt matches no row: the caller takes it for an already captured payment
  and drops it.
* `setStatus()` lets an administrator move an order to `CANCELLED` without
  `releaseHolds()`.
* A confirmation and a cancellation both read a coupon's redemption `RESERVED`; the
  slot is returned and given to another order, then the first redemption becomes
  `CONFIRMED`: over-redeemed by one.

*Refunds and partners*

* A crash between `reserve()` and its mark leaks the order's capacity; a crash at
  "fail", between `releaseAll()` and the status `FAILED`, makes the sweep release again.
* A `refund.failed` webhook sets `FAILED`; the retry adopts the provider's failed refund
  and reverses the partners' transfers again.
* Two partners: a refund whose first reservation was refused is planned anew, and what
  it then reserves follows the new plan, while its reversal rows keep the first
  (`recordIntendedReversals()` writes them once, `refund.service.ts:557`). If the outcome of its
  call stays unknown and the provider does not know it, the sweep releases what the rows
  say (`reconciliation.service.ts:182`): from one transfer too much, which was held for
  another refund, from the other too little. A third refund gets that room, and together
  they take more from a partner than it was sent. TLC finds this with refunds of 1, 2 and
  1 over two transfers of 2, in a search narrowed to such histories; the proof attempt
  showed where to look: the release has to be covered by the refund's own reservation
  (`Owes`), and is not.
* Reconciliation that adopts a provider refund still `pending` never books it; so does
  a crash between the recorded answer and `applyToOrder()`.
* A partner that gave back and whose answer was lost, or whose worker died before the row,
  has no `PROCESSED` reversal; its amount stays in `reversalReservedPaise`, which is why it
  cannot be taken again. Failed reversals keep `reversalReservedPaise`, too; `PENDING` and `PENDING_VERIFICATION`
  reversals are swept by nobody.
* A late `approve()` (written by id, `refund.service.ts:252`) makes a processed refund
  executable again.
* Two administrators who retry transfers at once pay a leg twice; so does a retry after
  a call that timed out once the provider had paid, and a retrier that dies between
  the answer and the row. A worker of the captured payment that dies after the call
  leaves legs that are paid and have no row, and nobody comes back for them. The
  driver sends one idempotency key per payment for the first call and every retry
  (`transfers:<paymentId>`), and one per amount for reversals: a provider that honours
  it would answer a retried leg with the first answer, and book it as paid.
* A refund that explicitly includes the delivery lets the closing refund, which
  includes it by default, exceed the order's ceiling. The tax given back for a line in
  several refunds drifts from the tax charged, by up to a paisa for each *piece*
  (`TaxGoesBack`); that it is a paisa a refund is false as soon as a refund takes
  several pieces, which the proof of section 4 brought to light. `OrderItem.cancelledQty` is read but never written.
* `complete()` called twice, two clerks who approve at once, an inspection after a refused
  completion: goods restocked twice, more returned than bought. A completed
  return leaves its order `RETURN_REQUESTED`. `return.repository`'s compare-and-set
  `transitionStatus` is never called.

*Parcels*

* A worker that dies after the courier accepted and before the registration is
  recorded leaves a parcel that can never be labelled (409 from then on).
* A cash-on-delivery parcel cancelled while a second one exists: nobody collects the
  cash. `applyUpdate` by hand writes by id from a stale row.
* `setStatus()` by hand takes any status with an edge (`tracking.service.ts:404`): a labelled
  parcel set to `CANCELLATION_REQUESTED` moves no order, and when the courier then reports
  `DELIVERED`, also an edge, the order stays `READY_TO_SHIP` for good, because there is no
  edge from there to `DELIVERED` (`orderStateMachine.ts:27`). `OrderFollowsParcels` names
  this case (`AskedBackByHand`) as the one in which an order whose goods have all
  arrived is not moved; it takes a single parcel, another one's derivation would have
  moved the order to `SHIPPED`.

*Everything else*

* Two concurrent moves (A under B, B under A) close a cycle in the category tree.
  Deleting a leaf, moving its parent and restoring the leaf leaves its path stale; so do
  `SOFT` deletions with live descendants, and `SOFT` with restores closes a cycle.
* A cart's validation that reads between increment and clamp writes a quantity above
  the ceiling; `setStatus(MERGED)` overwrites `CONVERTED`, and the sweep's `markMany`
  turns `MERGED` into `EXPIRED`; a merge that meets a removed row stops half way.
* Two overlapping invalidations of one process: the confirmation of the earlier erases
  the mark of the later one that failed, and a stale entry lives until its TTL.
  `unconfirmed` is per process: other workers keep serving the stale value. An
  in-flight read that is joined after the write may answer with the older value.
* The listing refresh does not see a variant added between its read and the stamp
  `computedAt`. A gapless series is broken when the worker dies, or rendering fails,
  after the number is taken; two concurrent `issueInvoice` calls issue two invoices.
* Accepting an invitation writes `ACTIVE` from a stale read and revives a disabled
  account.
* Of two first requests with one key, the loser of the insert falls into the catch block and
  runs the operation unrecorded (`idempotency.ts:122`), against the header's promise that
  it runs once; `OneRequestPerKey` speaks of the requests a key recorded.
* `waitForOutcome()` polls the key, not the row: after a purge or an expiry it can replay
  another payload's outcome. A one-time password's attempts are incremented from a
  stale read and consumed by id: concurrent guesses exceed the cap.

## 4. Proofs

A theorem holds for every value of the constants: any orders, carts, variants, stock,
coupon limit, workers, handlers, tokens, events, parcels, refunds, amounts and crashes.
Assumed are the modules' own `ASSUME`s (types of the constants; TLC evaluates them in
every run) and, where the table says so, a condition on the constants that the code
does not enforce. Each such condition excludes histories that sections 3.2 and 3.3
describe, in which the property really fails, and the runs that check the property
keep to it:

| condition | says | without it |
|---|---|---|
| `AdminStaysCommitted` | the administrator's form sets only statuses after `CONFIRMED` | `CANCELLED` by hand leaves holds behind |
| `MaxCrashes = 0` (one theorem) | no worker is killed in the middle of a job | a death between `reserve()` and the `StockReservation` row loses units |
| `OnlyPlacesAndConfirms` (one theorem) | no handler but a refused placement releases | a confirmation and a cancellation both settle one redemption |
| `OneAtATime` | one administrator approves refunds, one sweep reconciles | a late `approve()` makes a processed refund executable again; two sweeps: `refunds_released_twice` |
| `CallsEnd` | a provider's call ends before its lock times out | reconciliation works on a refund that is still being executed |
| `ProviderKeepsItsWord` | a refund the provider accepted does not fail afterwards | a retry adopts the failed refund |
| `RetriesAreSafe` | one administrator retries transfers at a time and lives to record each answer, and no answer is lost | a transfer that was paid is booked as failed and retried |
| `WritesComplete` | no death between the two halves of a write to the books | capacity leaks, or is released twice |
| `OnePartner` | the sale was transferred to one partner | the rows a release goes by differ from what was reserved, section 3.3 |
| `MaxAwaiting = 1` | a refund is executed before the next one of the order is worked out | two refunds of the same piece: `refund_line_twice` |
| `OneDesk`, `OneClerk` | one member of staff at a time handles the parcels, or the returns, of an order; the code does not enforce it | both of two desks or clerks judge on the same row and write by id |
| `NothingIsInvalid` | the courier does not refuse a parcel as invalid | `fulfilment_second_order` |
| `SweepsFail # "any"` | an invalidation fails only while its process runs no other | the earlier confirmation erases the later mark |
| `OneEditor` | one administrator edits the tree at a time, nothing is restored, and no `SOFT` deletion leaves children behind | two moves close a cycle; a restored row has the path it was deleted with |
| `NoTabDies`, `NoSpareStock` | no request for the cart dies; no more pieces are available than a line may hold (or no cart is corrected) | a death before the clamp; a correction that read before it |

`Orders` is finite where units of orders are summed. `Discipline` is the conjunction of
the four conditions on refunds.

| theorem | states | under | argument |
|---|---|---|---|
| `GoodsProofs!TypeCorrect` | `[]TypeOK` of `Inventory` | | inductive as it stands |
| `GoodsProofs!LedgerCorrect` | `[]LedgerIsRunningTotal` | | `AdjustExtendsLedger`: an adjustment appends the row that continues the sum; nothing else writes balance or ledger |
| `GoodsProofs!FloorIsKept` | `MovesKeepFloor` | | action by action from the rules of `StockRules` |
| `CheckoutProofs!TypeCorrect` | `[]TypeOK` | | `Shape` and `Stocked` |
| `CheckoutProofs!FloorIsKept` | `[]StockFloor` | | `Stocked`, see below |
| `CheckoutProofs!MovesAreLegal` | `LegalMoves` | | `Creating`, see below |
| `CheckoutProofs!NothingHeldAfterRelease` | `[]NoHoldAfterRelease` | `AdminStaysCommitted` | `ReleaseInvariant` |
| `CheckoutProofs!ContractIsKept` | `Spec => KeepsContract` | `AdminStaysCommitted` | `ReleaseInvariant` and a refinement step per action |
| `CheckoutProofs!OnlyPaidIsCommitted` | `[]CommittedMeansPaid` | | `PaidInvariant`, see below |
| `CheckoutAccountProofs!ReservationsAreAccounted` | `[]HoldsAccounted` | `AdminStaysCommitted`, no crashes | `Balanced`, see below |
| `CheckoutAccountProofs!NothingSoldTwice` | `[]SoldAtMostOnce` | `AdminStaysCommitted` | `Sold`, see below |
| `CheckoutAccountProofs!NoUseIsLost` | `[]NoSlotLost` | `AdminStaysCommitted` | `Redemptions`: only `ReserveCoupon` counts up, with the redemption it writes |
| `CheckoutAccountProofs!CouponIsAccounted` | `[]CouponSlotsAccounted` | `AdminStaysCommitted`, `OnlyPlacesAndConfirms` | `Releases`: a redemption that is released was read by the only job that could change it |
| `RefundProofs!RefundsTypeCorrect`, `OneActs`, `OnlyReconciliationDecides` | `[]RefundsTypeOK`, `[]OneWorkerActs`, `OnlyReconciliationResolves` | `OneAtATime`, `CallsEnd`, `ProviderKeepsItsWord` | `Control`, see below |
| `RefundProofs!BooksAlwaysBalance`, `NeverPaysOutMore` | `[]BooksBalance`, `[]NeverOverRefunded` | `Discipline` | `Control` and `Books`, see below |
| `SumTheorems!AllocateIsExact`, `AllocateIsFair`, `SplitIsExact`, `RefundProofs!PlanBalances` | what the paise functions return, for every input | | sums of rounded-down shares, see below |
| `OrderMoneyProofs!QuoteIsExact` | what `QuoteOf` returns for every basket the validators let through: no part below nothing, the parts make up the whole | | line by line through the pipeline, see below |
| `OrderMoneyProofs!OrderMoneyIsExact` | `[]OrderMoneyAddsUp` | `MaxAwaiting = 1` | `MoneyInv`, see below |
| `RefundProofs!PartnersKeepTheirs` | `[]PartnersGiveOnce` | `Discipline`, `OnePartner` | `Gives` and `Owes`, see below |
| `RefundProofs!NoMoreThanTheRefund` | `[]GivenOncePerRefund`, the second half of `PartnersGiveOnce`, for any transfers | `OneAtATime`, `CallsEnd`, `ProviderKeepsItsWord` | `Gives`: nothing is back before the provider is on record; from then on the one worker with the plan takes each transfer once |
| `RefundProofs!PaidOnce` | `[]PartnersPaidOnce` | `RetriesAreSafe` | `Paying`: a row that is settled, or about to be, says what the provider paid; `TakesFit`: takes are clamped to what is left, so they telescope and never exceed the order |
| `GoodsProofs!ShipmentsTypeCorrect`, `ReturnsTypeCorrect` | the type invariants | | with what each step has read |
| `GoodsProofs!OneOrderIsMade` | `[]OneOrderAtCourier` | `NothingIsInvalid` | `JournalGuards`: whoever calls made the journal entry, and the entry is made once |
| `GoodsProofs!NothingOverShipped` | `[]NeverOverShipped` | `OneDesk` | `Shipping`: what the desk counted is still true when it inserts, and no edge leads back from `CANCELLED` |
| `GoodsProofs!OrderFollows` | `[]OrderFollowsParcels`, for any statuses set by hand | `OneDesk` | `FollowsParcels`, see below |
| `GoodsProofs!NothingOverReturned`, `GoodsAreAwaited` | `[]NeverOverReturned`, `[]WaitsForGoods` | `OneClerk` | `Returning`: the row in hand is the stored one, the pool is a sum that one row moves, the shelf is what was counted or is about to be |
| `UniquenessProofs!TokensTypeCorrect`, `InboxTypeCorrect` | the type invariants | | inductive as they stand |
| `UniquenessProofs!NeverForked` | `[]OneLiveToken` | | `IssuerIsAlone`: a token is used up before its child exists, so a request about to issue one is alone and no token is live meanwhile |
| `UniquenessProofs!NoTokenSurvives` | `[]RevokedStaysDead` | | `DeliveredAreRevoked`: a revocation reaches every token delivered before it, and `LookBack` keeps one issued across it from being delivered |
| `UniquenessProofs!HandledOnce` | `[]HandledOncePerReplay` | | counting permissions: an event that exists gives one, each replay one more; an open event, a claim and an effect each hold one |
| `UniquenessProofs!NumbersGapless` | `[]GaplessSeries` | | `Drawn`, `Distinct`, `Complete`: each write that succeeds draws the next number, because nobody wrote since the read |
| `UniquenessProofs!NeverLockedOut` | `[]SuperAdminRemains` | | `LockIsHeld` and `JudgedHolds`: the one who judges and writes is alone in the lock, and what happens outside it only adds power |
| `UniquenessProofs!KeyTellsTheTruth` | `[]OneRequestPerKey` | | `WorkersOwnTheKey` and `DropsExpired`: a handler works only while the row is its own and not expired; `CreatedOnce` keeps a request that is done from creating it anew |
| `CatalogueProofs!CacheTypeCorrect`, `NothingStaleStays` | `[]CacheTypeOK`, `[]NoStaleEntry` | `SweepsFail # "any"` | `StaleFillIsCaught`, `StaleEntryIsCaught`: a stale value in flight meets a new epoch, one that is stored meets an invalidation that is still to delete it |
| `CatalogueProofs!ListingTypeCorrect`, `NoWindowIsSkipped`, `RebuildsAreHonoured` | `[]ListingTypeOK`, `[]WatermarkCovers`, `[]RebuildHonoured` | | `PassesCover`, `PassesRebuild`: what a pass has refreshed is later than its span and than every request it saw |
| `CatalogueProofs!CartTypeCorrect` | `[]CartTypeOK` | | `CartShape` |
| `CatalogueProofs!CeilingIsKept` | `[]LinesWithinCeiling` | `NoTabDies`, `NoSpareStock` | `ExcessIsCaught`: a line above its ceiling has a request about to clamp it that still holds its row |
| `CatalogueProofs!TreeTypeCorrect` | `[]TreeTypeOK` | | `TreeTyped`: with what each request is about to write |
| `CatalogueProofs!PathsAreTrue` | `[]PathsFollowParents` | `OneEditor` | `Branching`, see below |

**Sums.** Units, paise and uses are sums over sets, and induction over a set cannot be
instantiated with these provers. `SumTheorems` goes around it: if a fact about the sum
failed, it would fail for some finite set, hence for one of least cardinality
(`WFMin`, a theorem without an operator parameter), and taking one element out of that
one gives a smaller failure. What results (a sum changes by what one element changes, splits
over disjoint sets, is monotone, telescopes) is stated once with `ASSUME ... PROVE`
and cited everywhere else.

`TypeOK` of `Checkout` is not inductive: a step that reads `placedBy[Ord(w)]` needs
to know that a job at that step has an order, and that the order exists. **`Shape`**
adds exactly that: which handler can be at which step (`OpAt`), what its task
carries, that its order exists, that an order has a session and a payment has an
order. There is one lemma per action (`CreateKeeps`, ...), and `ShapeFromParts`
reduces each to the worker that takes the step.

**`Stocked`** (types of the stock columns and the floor) is inductive next to
`Shape`, because the rules of one row are (`RowRules`): reserving stays below the
stock, giving back never goes below zero, and a deduction is refused when it would
undercut what is reserved. That is why the floor survives the gap between `release`
and `adjust` in `commitHolds()`; what does not survive it is that the units are
deducted (section 3.3).

**`Creating`**: an order about to be created does not exist and is created by one
job. With it a status changes only in `Create`, from nothing to `DRAFT`, or in
`Move`, whose compare-and-set makes the status the handler read the actual one; so
the edge judged on a stale order is a legal edge of the real one.

**`ReleaseInvariant`** is what the compare-and-set statements do not give by
themselves. `Stages`: a placement owns its order alone until it is
`PENDING_PAYMENT`, and only later does any other handler take it up. `Holding`: in
the middle of the loop over the reservations, those still held are among the ones
the loop has left; when the order is moved none is held; and only an undecided
order holds stock. A step is split into what it establishes for its own job
(`Works`) and what it leaves to the others (`Calm`: no status changes and holds only
end); `Create`, `WriteReservation` and `Move` are not calm and have a lemma each.
`AdminStaysCommitted` says that the administrator's form is used for fulfilment
only; section 3.1 says why it is needed.

**`PaidInvariant`** needs no assumption about administrators. From outside, an order
becomes committed only by a move to `CONFIRMED`, whose guard asks for a captured
payment or cash, both read earlier and perhaps stale. `PaymentsAreReal` and `PaidOf`
say that money never goes away: what a job has read as captured the provider has
been paid. The cash half is the delicate one, since the path passes an empty provider
for "cash": `OneOpener` says one job opens an order, whether online or for cash, and
the provider hears of an order only from its online placement, so an order confirmed
as cash has never been announced there, and (`CashIsOpened`) never will be.

The refinement maps `status` to the phase of the order and `StockReservation.status`
to the fate of its units. `Create` is `Open`, `WriteReservation` is `Take`,
`SettleHold` and `UndoRows` are `End`, a `Move` out of placement is `Decide`, and every
other step stutters.

**`Balanced`** and **`Sold`** are `HoldsAccounted` and `SoldAtMostOnce` in the middle of a job.
An order is *charged* with a variant from the moment its units are reserved to the
moment they are given back: while its reservation is `RESERVED`, and while the job that
wrote or settled it has the other half of the pair still to do. It is *delivered* to
once its reservation is `CONSUMED` and no job is still about to deduct it. With these sets
every step moves both sides of the equation by the same order. `Endings` says why no two
jobs can move the same one: a reservation is settled under a compare-and-set, so the
job that gives back or deducts is its only one (`OneEnder`). `Sold` is an inequality because
a refused deduction is only logged; it survives crashes, which only lose deductions.

**`Control`** is what makes an execution of a refund safe: every step of a worker states
what the row it works on looks like (`WorkerAgrees`), what the columns of a row say
together (`RowAgrees`), and that a claimed row has one owner (`OneOwner`). **`Books`** adds
that the order's two columns are the sums over the refunds that hold capacity, or that
are booked; each of `Reserve`, `ReleaseCapacity` and `ConfirmOnOrder` moves one refund
between the sets in the same transaction as the columns, and what the provider moved is
among them (`MovedIsOnTheBooks`).

**`Owes`.** A partner gives back at most what it was sent because the room is reserved on its
transfer first; but the column is one sum for all refunds, and three places take from it:
the reversal itself, the release of a failed call, and the sweep, which goes by the
reversal rows. `Owes` says that the sum can be divided into shares, one for each refund
(`Shares`), such that whatever a worker has in hand for its refund is within the refund's
share (`OwedByWorker`), and so is what the sweep would release for a refund nobody has
answered for, unless the transfer no longer has room for that much (`OwedByRow`); and what
a partner gave and no row records (`out`: the answer not yet written, not heard, or known
to a worker that died) stays within the column besides the shares (`Covered`,
`OutByWorker`), for good when it is never written. A release is refused
then (`Released`), so it never reaches into another refund's share. That the rows
are covered although they may be older than the reservation needs `OnePartner`: a later
plan for the one transfer is smaller than the first only by what the transfer has given back since.

**Paise.** `allocateProportionally` rounds every share down and gives one more paisa to as
many lines as paise are left. `AllocateIsExact` needs that fewer are left than there are
lines with weight: each floor loses less than one. That the extra paise are placed is a
statement about a rank, by the size of the set of better-ranked lines. `SplitIsExact` uses
it for the percentages; `PlanBalances` for the reversals, and shows that the assertion with
which `planReversals` ends never throws.

**A quote.** A basket is any record the validators let through (`Basket`), with any
number of lines, rules and rates; `BasketsAssumption` says that the instance's baskets
are such records, and that the sets a winner is taken from are finite. The engine loops and
sorts; the proof takes a fold apart at its last element, and a sort at its
winner, which exists (`SomeoneWins`: among finitely many, one has the least key).
`QuoteIsExact` then follows the pipeline. A line is never below zero, because each
rule and each customisation is floored; an offer takes at most what is there; the coupon's
part of a line is at most the line, since `AllocateIsFair` keeps a share within a paisa
below or above the exact proportion and the whole within the sum of the lines; the GST
halves make up the tax, and the sum is the grand total less the rounding to the rupee.

**The refunds of an order.** `OrderMoneyAddsUp` is not inductive: the refund that is worked
out and not yet executed must still fit the order. **`MoneyInv`** adds `Fresh` (the waiting
refund is the one the calculator would work out now) and `Books` (the paid sum is what the
lines gave, the deliveries and the rounding, and the rounding is back exactly when all
lines are). With `MaxAwaiting = 1` nothing moves between working out and executing, so
`Fresh` is kept, and `ExecuteRefund` is the calculator's step. That `perUnit` gives the first
pieces the larger share makes the next pieces of a line what is left of it rounded up,
so a line never gives more than it cost and its last piece takes the rest. For the tax,
`DriftOfPieces` compares the pieces' tax, rounded up from what is left, with the
proportional tax, rounded to nearest: they part by at most a paisa a piece, whatever
was taken before. The documents' drift telescopes over the refunds. Trying to prove a
bound of a paisa a *refund*, which the property said before and the smaller instance
did not refute, showed that it is false; the property and the instance (refunds of three
pieces of a line of seven) were corrected.

**`FollowsParcels`.** Between the write to a parcel and the order's own write the order
is behind; `DerivingHolds` says how far each step of the derivation has got, `NearlyFollows`
what the order can be meanwhile, and `Booked` that the stored quantities are the parcels'
when they are written. The proof goes over the edges of `ShipmentTransitions` and the
order's table: every status a derivation asks for is an edge, or the order is already
there, or is cancelled. Proving it showed a mistake in the model, not in the code: the
derived status was a `CASE` whose guards overlap, which TLA+ leaves open where the
code's `if`s go by order; `DeriveUndelivered` is now a chain of `IF`s. It holds for
any statuses set by hand; `CANCELLATION_REQUESTED` among them costs the one exception
that the property names (section 3.3).

**`Branching`.** `PathsFollowParents` compares neighbours, but what keeps it true is
global: `assertNoCycle()` climbs by parents, `recomputeSubtree()` goes down by
children, and the rows it fetches are found by their paths. `Rooted` (no set of categories
keeps all its parents) and `DepthsFit` (every live row has a depth within the cap) say
that the catalogue is a tree: so a climb meets no row twice and ends, by the pigeonhole
principle, and the recomputation never refuses a path as too deep. `BranchGrows` shows
that below by paths is below by parents, so a row is never moved into its own branch.
`Knows` says what a request relies on until it is done; while paths are rewritten
(`BelowKnows`) only the rows still to do and their children may be behind. Where the
code recurses along parents, the proof takes the chain of the climb as a function
(`ChainExists`) and a first step at which it would go wrong, in place of an induction.

**Model-checked only.** `LapsedHoldsComeBack`, `LimboEnds` and `InboxSettles` are liveness
under fairness, out of the provers' reach. That several partners give back no more than
they got is false beyond `OnePartner`, see section 3.3; each refund's own bound is proved
without it.
`ServicesTypeOK` and `SettlementTypeOK` are conjunctions of type invariants, of which
those of the modules above are proved one by one.

## 5. Not modelled

* **Queries and rendering**: storefront, search, content, media, documents, reports,
  notifications, the admin panel, the web front end. They keep no state the properties
  depend on; wrong output there is a matter for tests.
* **Forms over one row**: products, attributes, option sets, tax classes, coupons,
  discount rules, accounts and settings are read, validated and written under a
  `version` check; there is nothing to interleave beyond what `Inventory`'s `update`
  shows.
* **Imports** (`import.service.ts`): a batch job row by row. What it does to stock is
  `SetAbsolute` of `Inventory`; an absolute balance from an old export overwrites the sales
  in between, by design of the format.
* **`ledgerIntegrity.service.ts`** only reads; the equations it looks for are
  `BooksBalance` and `PartnersGiveOnce`.
* **Drivers**: the payment provider and the couriers are environments of the models.
* Within modelled components: a leg that is missing from the provider's answer
  (`split.service.ts:272`, skipped, and the leg gets no row); `bulkAdjust`; the session forms (`init`, `patch`); batches
  of the sweep that abort half way; transfer and settlement webhooks (they copy a
  status); `restock()` and `applyProviderStatus()` of refunds; rates, labels, polling and the
  shipping inbox (the protocol of `WebhookInbox` again); wishlists and cart coupons;
  one-time passwords and sign-in; which prefixes an edit drops from the cache.

## 6. Running

In this directory, with TLC and TLAPS installed, for instance:

    tlc -workers 2 -config checkout_one_order.cfg MCCheckout.tla
    tlc -workers 2 -config services.cfg MCServices.tla
    tlc -workers 2 -config money.cfg MCMoney.tla
    tlc -workers 2 -config settlement.cfg MCSettlement.tla
    tlapm CheckoutProofs.tla && tlapm CheckoutAccountProofs.tla
    tlapm SumTheorems.tla && tlapm RefundProofs.tla && tlapm OrderMoneyProofs.tla
    tlapm GoodsProofs.tla
    tlapm UniquenessProofs.tla && tlapm CatalogueProofs.tla

`checkout_*.cfg` are instances of `MCCheckout`, `refunds_released_twice.cfg` of
`MCRefunds`, `refund_line_twice.cfg` of `MCBaskets`, `returns_completed_twice.cfg` of
`Returns`, `cart_merged_twice.cfg` of `MCCart`, `fulfilment_second_order.cfg` of
`MCShipments`. The passing runs take one to three minutes each with two workers, the
others seconds. The operators called *faulty* in the modules are variants of the
definition below them with a plausible mistake; substituting one makes the run
named in `PROJECT.json` fail, which shows that its property can tell.
