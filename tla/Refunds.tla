-------------------------------- MODULE Refunds --------------------------------
(***************************************************************************)
(* Refund execution (refund.service.ts, refundReservation.ts): request,    *)
(* approve, claim, reserve the capacity, call the provider, reverse the    *)
(* partners' transfers, book the money on the order. Every await that      *)
(* reads or writes a shared row is a step of a worker, which may die       *)
(* between two of them. Reconciliation (verifyPendingRefunds) asks the     *)
(* provider about refunds nobody can answer for; the provider's webhooks   *)
(* set a refund's status whenever they arrive.                             *)
(*                                                                         *)
(* One paid order. The provider is external: it keeps one refund per       *)
(* client reference and does not check our totals.                         *)
(***************************************************************************)
EXTENDS OrderLifecycle, ReversalPlanner, FiniteSets, TLC

CONSTANTS
    Refunds,         \* the refund rows that may be requested for the order
    Amount,          \* what each of them is worth, frozen at the request
    Paid,            \* what the customer paid
    Transferred,     \* the sequence of amounts transferred to linked accounts
    Executors,       \* workers that execute and approve refunds
    Approvers,       \* those of them that approve
    Reconcilers,     \* workers that run the reconciliation
    MortalSteps,     \* the steps at which a worker may die
    MaxRefundCrashes, \* how many workers die
    LocksOutliveCalls, \* no call takes longer than REFUND_LOCK_TIMEOUT_MINUTES
    ProviderMayFail  \* the provider's own refund may fail after it was accepted

ASSUME RefundAmountsAssumption ==
    /\ IsFiniteSet(Refunds)
    /\ Amount \in [Refunds -> Nat \ {0}]
    /\ Paid \in Nat \ {0}
    /\ Transferred \in Seq(Nat \ {0})
    /\ Approvers \subseteq Executors /\ Executors \cap Reconcilers = {}
    /\ MaxRefundCrashes \in Nat
    /\ LocksOutliveCalls \in BOOLEAN /\ ProviderMayFail \in BOOLEAN

VARIABLES
    order,     \* Order: what is refunded and reserved, and its status
    refund,    \* Refund rows
    transfer,  \* PaymentTransfer rows: reversed and reserved paise
    reversal,  \* TransferReversal rows of each refund on each transfer
    atProvider, \* the provider's refunds, by our client reference
    returned,  \* what the linked accounts gave back for each refund, at the provider
    worker,    \* the handlers in progress
    refundCrashes

refundVars == <<order, refund, transfer, reversal, atProvider, returned, worker, refundCrashes>>

Parts == DOMAIN Transferred

RefundStatuses ==
    {"NONE", "REQUESTED", "APPROVED", "PROCESSING", "PROCESSED", "FAILED", "PENDING_VERIFICATION"}

RefundRow ==
    [status: RefundStatuses,
     locked: {"no", "fresh", "stale"},  \* executionLockedAt: null, recent, past the timeout
     reserved: BOOLEAN,                 \* capacityReserved
     confirmed: BOOLEAN,                \* capacityConfirmed
     known: BOOLEAN]                    \* providerRefundId is set

ReversalStatuses ==
    {"none", "PENDING", "PROCESSED", "FAILED", "PENDING_VERIFICATION", "CANCELLED"}

RefundSteps ==
    {"idle", "approve", "claim", "plan", "reserve", "mark", "adopt", "call", "unknown", "release",
     "fail", "record", "reverse", "take", "taken", "unheard", "refused", "book", "confirm",
     "settle", "ask", "found", "missing", "forget"}

\* What a handler carries between its awaits: the row it read, and its plan.
Idle == [step |-> "idle", of |-> "none",
         row |-> [status |-> "NONE", locked |-> "no", reserved |-> FALSE,
                  confirmed |-> FALSE, known |-> FALSE],
         plan |-> [i \in Parts |-> 0], left |-> {}]

RefundWorkers == Executors \cup Reconcilers

RefundsTypeOK ==
    /\ order \in [refunded: Nat, reserved: Nat, status: OrderStatuses]
    /\ refund \in [Refunds -> RefundRow]
    /\ transfer \in [Parts -> [reversed: Nat, reserved: Nat]]
    /\ reversal \in [Refunds -> [Parts -> [status: ReversalStatuses, amount: Nat]]]
    /\ atProvider \in [Refunds -> {"none", "pending", "processed", "failed"}]
    /\ returned \in [Refunds -> [Parts -> Nat]]
    /\ worker \in [RefundWorkers -> [step: RefundSteps, of: Refunds \cup {"none"}, row: RefundRow,
                               plan: [Parts -> Nat], left: SUBSET Parts]]
    /\ refundCrashes \in 0..MaxRefundCrashes

RefundsInit ==
    /\ order = [refunded |-> 0, reserved |-> 0, status |-> "DELIVERED"]
    /\ refund = [r \in Refunds |-> Idle.row]
    /\ transfer = [i \in Parts |-> [reversed |-> 0, reserved |-> 0]]
    /\ reversal = [r \in Refunds |-> [i \in Parts |-> [status |-> "none", amount |-> 0]]]
    /\ atProvider = [r \in Refunds |-> "none"]
    /\ returned = [r \in Refunds |-> [i \in Parts |-> 0]]
    /\ worker = [w \in RefundWorkers |-> Idle]
    /\ refundCrashes = 0

(***************************************************************************)
(* Moves of a handler. After a step it is at another step, or done.        *)
(***************************************************************************)
RefundAt(w, step) == worker[w].step = step
GoTo(w, step) == worker' = [worker EXCEPT ![w].step = step]
Done(w) == worker' = [worker EXCEPT ![w] = Idle]
SetRefund(r, row) == refund' = [refund EXCEPT ![r] = row]

(***************************************************************************)
(* refundReservation.ts                                                    *)
(***************************************************************************)
\* Faulty checks that leave out what other refunds hold.
HasRoomIgnoringHolds(amount) == Paid >= order.refunded + amount
TransferRoomIgnoringHolds(plan) ==
    \A i \in Parts : Transferred[i] >= transfer[i].reversed + plan[i]

HasRoom(amount) == Paid >= order.refunded + order.reserved + amount
TransferHasRoom(plan) ==
    \A i \in Parts : Transferred[i] >= transfer[i].reversed + transfer[i].reserved + plan[i]

\* releaseOrder, releaseTransfer: predicated, so that they never underflow.
Released(reserved, amount) == IF reserved >= amount THEN reserved - amount ELSE reserved

ReleaseAll(amount, plan) ==
    /\ order' = [order EXCEPT !.reserved = Released(@, amount)]
    /\ transfer' = [i \in Parts |->
                      [transfer[i] EXCEPT !.reserved = Released(@, plan[i])]]

(***************************************************************************)
(* request(), approve()                                                    *)
(***************************************************************************)
\* blockedReason() and the ceiling of calculateRefund().
Refundable(r) == order.refunded + order.reserved + Amount[r] <= Paid

Request(r) ==
    /\ refund[r].status = "NONE"
    /\ Refundable(r)
    /\ SetRefund(r, [Idle.row EXCEPT !.status = "REQUESTED"])
    /\ UNCHANGED <<order, transfer, reversal, atProvider, returned, worker, refundCrashes>>

\* approve() reads the status, then writes APPROVED by id.
StartApprove(w, r) ==
    /\ RefundAt(w, "idle")
    /\ refund[r].status = "REQUESTED"
    /\ worker' = [worker EXCEPT ![w] = [Idle EXCEPT !.step = "approve", !.of = r]]
    /\ UNCHANGED <<order, refund, transfer, reversal, atProvider, returned, refundCrashes>>

Approve(w) ==
    /\ RefundAt(w, "approve")
    /\ refund' = [refund EXCEPT ![worker[w].of].status = "APPROVED"]
    /\ Done(w)
    /\ UNCHANGED <<order, transfer, reversal, atProvider, returned, refundCrashes>>

(***************************************************************************)
(* execute()                                                               *)
(***************************************************************************)
\* A faulty execute() that also takes refunds nobody can answer for.
ExecutableUnverified(status) == status \in {"APPROVED", "FAILED", "PENDING_VERIFICATION"}

Executable(status) == status \in {"APPROVED", "FAILED"}

StartExecute(w, r) ==
    /\ RefundAt(w, "idle")
    /\ Executable(refund[r].status)
    /\ worker' = [worker EXCEPT ![w] = [Idle EXCEPT !.step = "claim", !.of = r, !.row = refund[r]]]
    /\ UNCHANGED <<order, refund, transfer, reversal, atProvider, returned, refundCrashes>>

\* A faulty claim that tests the status only.
ClaimableByStatus(w) == refund[worker[w].of].status \in {"APPROVED", "FAILED", "PROCESSING"}

\* claimForExecution: the status the caller read, and nobody else's lock.
Claimable(w) ==
    LET r == worker[w].of
    IN  refund[r].status = worker[w].row.status /\ refund[r].locked = "no"

Claim(w) ==
    /\ RefundAt(w, "claim")
    /\ LET r == worker[w].of
       IN  IF Claimable(w)
           THEN /\ SetRefund(r, [refund[r] EXCEPT !.status = "PROCESSING", !.locked = "fresh"])
                /\ GoTo(w, "plan")
           ELSE Done(w) /\ UNCHANGED refund
    /\ UNCHANGED <<order, transfer, reversal, atProvider, returned, refundCrashes>>

\* The plan against what the transfers hold now, and the intent rows, written once.
Plan(w) ==
    LET r    == worker[w].of
        rows == [i \in Parts |-> [amount |-> Transferred[i], reversed |-> transfer[i].reversed,
                                  primary |-> FALSE]]
        plan == IF Parts = {} THEN [i \in Parts |-> 0]
                ELSE PlanReversals(Amount[r], rows, "PROPORTIONAL").amounts
    IN  /\ RefundAt(w, "plan")
        /\ worker' = [worker EXCEPT ![w].plan = plan, ![w].step =
                        IF worker[w].row.reserved THEN "adopt" ELSE "reserve"]
        /\ reversal' = IF \E i \in Parts : reversal[r][i].status # "none" THEN reversal
                       ELSE [reversal EXCEPT ![r] = [i \in Parts |->
                                IF plan[i] > 0 THEN [status |-> "PENDING", amount |-> plan[i]]
                                ELSE @[i]]]
        /\ UNCHANGED <<order, refund, transfer, atProvider, returned, refundCrashes>>

\* refundReservation.reserve: the order and every transfer, or nothing; a refusal
\* hands the lock back.
Reserve(w) ==
    LET r == worker[w].of IN
    /\ RefundAt(w, "reserve")
    /\ IF HasRoom(Amount[r]) /\ TransferHasRoom(worker[w].plan)
       THEN /\ order' = [order EXCEPT !.reserved = @ + Amount[r]]
            /\ transfer' = [i \in Parts |->
                              [transfer[i] EXCEPT !.reserved = @ + worker[w].plan[i]]]
            /\ GoTo(w, "mark")
            /\ UNCHANGED refund
       ELSE /\ SetRefund(r, [refund[r] EXCEPT !.status = "APPROVED", !.locked = "no"])
            /\ Done(w)
            /\ UNCHANGED <<order, transfer>>
    /\ UNCHANGED <<reversal, atProvider, returned, refundCrashes>>

MarkReserved(w) ==
    /\ RefundAt(w, "mark")
    /\ refund' = [refund EXCEPT ![worker[w].of].reserved = TRUE]
    /\ GoTo(w, "adopt")
    /\ UNCHANGED <<order, transfer, reversal, atProvider, returned, refundCrashes>>

\* adoptExistingRefund: the search may fail, which counts as nothing found.
Adopt(w) ==
    /\ RefundAt(w, "adopt")
    /\ \/ atProvider[worker[w].of] # "none" /\ GoTo(w, "record")
       \/ GoTo(w, "call")
    /\ UNCHANGED <<order, refund, transfer, reversal, atProvider, returned, refundCrashes>>

\* The commit point. The provider accepts (once per reference) and answers, accepts
\* and the answer is lost, never hears of it, or rejects it.
CallProvider(w) ==
    LET r == worker[w].of IN
    /\ RefundAt(w, "call")
    /\ \/ \E outcome \in {"pending", "processed"} :
            /\ atProvider' = [atProvider EXCEPT ![r] = IF @ = "none" THEN outcome ELSE @]
            /\ \/ GoTo(w, "record")
               \/ GoTo(w, "unknown")
       \/ atProvider[r] = "none" /\ GoTo(w, "unknown") /\ UNCHANGED atProvider
       \/ atProvider[r] = "none" /\ GoTo(w, "release") /\ UNCHANGED atProvider
    /\ UNCHANGED <<order, refund, transfer, reversal, returned, refundCrashes>>

\* A faulty unknown outcome: the capacity is handed back without asking the provider.
ReleaseOnUnknown(w) ==
    LET r == worker[w].of IN
    /\ RefundAt(w, "unknown")
    /\ ReleaseAll(Amount[r], worker[w].plan)
    /\ SetRefund(r, [refund[r] EXCEPT !.status = "FAILED", !.locked = "no", !.reserved = FALSE])
    /\ Done(w)
    /\ UNCHANGED <<reversal, atProvider, returned, refundCrashes>>

\* handleProviderFailure, UNKNOWN: the capacity stays held.
HoldForVerification(w) ==
    LET r == worker[w].of IN
    /\ RefundAt(w, "unknown")
    /\ SetRefund(r, [refund[r] EXCEPT !.status = "PENDING_VERIFICATION", !.locked = "no"])
    /\ Done(w)
    /\ UNCHANGED <<order, transfer, reversal, atProvider, returned, refundCrashes>>

\* TERMINAL or RETRYABLE: nothing moved, the capacity goes back, then the row fails.
ReleaseCapacity(w) ==
    /\ RefundAt(w, "release")
    /\ ReleaseAll(Amount[worker[w].of], worker[w].plan)
    /\ GoTo(w, "fail")
    /\ UNCHANGED <<refund, reversal, atProvider, returned, refundCrashes>>

FailRefund(w) ==
    LET r == worker[w].of IN
    /\ RefundAt(w, "fail")
    /\ SetRefund(r, [refund[r] EXCEPT !.status = "FAILED", !.locked = "no", !.reserved = FALSE])
    /\ Done(w)
    /\ UNCHANGED <<order, transfer, reversal, atProvider, returned, refundCrashes>>


AdoptedStatus(r) == IF atProvider[r] = "processed" THEN "PROCESSED" ELSE "PROCESSING"

\* Past the commit point: the provider's id and status, and the lock is gone.
RecordProvider(w) ==
    LET r == worker[w].of IN
    /\ RefundAt(w, "record")
    /\ SetRefund(r, [refund[r] EXCEPT !.status = AdoptedStatus(r), !.locked = "no", !.known = TRUE])
    /\ worker' = [worker EXCEPT ![w].step = "reverse",
                                ![w].left = {i \in Parts : worker[w].plan[i] > 0}]
    /\ UNCHANGED <<order, transfer, reversal, atProvider, returned, refundCrashes>>

(***************************************************************************)
(* executeReversals(): one planned transfer after the other.               *)
(***************************************************************************)
NextPart(w) == CHOOSE i \in worker[w].left : \A j \in worker[w].left : i <= j

\* What is asked of a transfer is re-derived from it as it is now; a transfer with
\* nothing left is skipped, and its reversal cancelled unless it was settled before.
Opened(row, amount) ==
    IF amount = 0 THEN [row EXCEPT !.status = IF @ = "PENDING" THEN "CANCELLED" ELSE @]
    ELSE IF row.status = "PENDING" THEN row
    ELSE [status |-> "PENDING", amount |-> amount]

StartReversal(w) ==
    LET r == worker[w].of
        i == NextPart(w)
        amount == Least(worker[w].plan[i], AtLeastZero(Transferred[i] - transfer[i].reversed))
    IN  /\ RefundAt(w, "reverse")
        /\ worker[w].left # {}
        /\ worker' = [worker EXCEPT ![w].plan[i] = amount,
                                    ![w].step = IF amount = 0 THEN @ ELSE "take",
                                    ![w].left = IF amount = 0 THEN @ \ {i} ELSE @]
        /\ reversal' = [reversal EXCEPT ![r][i] = Opened(@, amount)]
        /\ UNCHANGED <<order, refund, transfer, atProvider, returned, refundCrashes>>

\* confirmTransfer, and the predicated fallback for a refund that never reserved.
Reversible(i, amount) ==
    transfer[i].reserved >= amount \/ transfer[i].reversed <= Transferred[i] - amount

AfterReversal(i, amount) ==
    [transfer[i] EXCEPT !.reversed = @ + amount, !.reserved = Released(@, amount)]

\* paymentDriver.reverseTransfer: the partner gives the money back and says so, is not
\* heard whether it gave it back or not, or refuses.
ReverseTransfer(w) ==
    LET r == worker[w].of
        i == NextPart(w)
    IN  /\ RefundAt(w, "take")
        /\ \/ /\ returned' = [returned EXCEPT ![r][i] = @ + worker[w].plan[i]]
              /\ GoTo(w, "taken") \/ GoTo(w, "unheard")
           \/ /\ GoTo(w, "unheard") \/ GoTo(w, "refused")
              /\ UNCHANGED returned
        /\ UNCHANGED <<order, refund, transfer, reversal, atProvider, refundCrashes>>

Passed(w) ==
    worker' = [worker EXCEPT ![w].step = "reverse", ![w].left = @ \ {NextPart(w)}]

\* Both rows in one transaction, or neither: the predicate may refuse.
RecordReversal(w) ==
    LET r == worker[w].of
        i == NextPart(w)
        amount == worker[w].plan[i]
    IN  /\ RefundAt(w, "taken")
        /\ IF Reversible(i, amount)
           THEN /\ transfer' = [transfer EXCEPT ![i] = AfterReversal(i, amount)]
                /\ reversal' = [reversal EXCEPT ![r][i] = [status |-> "PROCESSED", amount |-> amount]]
                /\ Passed(w)
           ELSE GoTo(w, "unheard") /\ UNCHANGED <<transfer, reversal>>
        /\ UNCHANGED <<order, refund, atProvider, returned, refundCrashes>>

\* The catch: an unconfirmed reversal waits for a person, a refused one failed.
ParkReversal(w) ==
    LET r == worker[w].of
        i == NextPart(w)
        status == IF RefundAt(w, "unheard") THEN "PENDING_VERIFICATION" ELSE "FAILED"
    IN  /\ RefundAt(w, "unheard") \/ RefundAt(w, "refused")
        /\ reversal' = [reversal EXCEPT ![r][i].status = status]
        /\ Passed(w)
        /\ UNCHANGED <<order, refund, transfer, atProvider, returned, refundCrashes>>

(***************************************************************************)
(* applyToOrder(): the reservation becomes refunded money, once.           *)
(***************************************************************************)
BeginBooking(w) ==
    /\ RefundAt(w, "reverse")
    /\ worker[w].left = {}
    /\ GoTo(w, "book")
    /\ UNCHANGED <<order, refund, transfer, reversal, atProvider, returned, refundCrashes>>

ReadForBooking(w) ==
    LET r == worker[w].of IN
    /\ RefundAt(w, "book")
    /\ IF refund[r].confirmed
       THEN Done(w)
       ELSE worker' = [worker EXCEPT ![w].step = "confirm", ![w].row = refund[r]]
    /\ UNCHANGED <<order, refund, transfer, reversal, atProvider, returned, refundCrashes>>

\* A faulty booking that leaves the reservation in place.
BookWithoutRelease(w) ==
    /\ RefundAt(w, "confirm")
    /\ order' = [order EXCEPT !.refunded = @ + Amount[worker[w].of]]
    /\ GoTo(w, "settle")
    /\ UNCHANGED <<refund, transfer, reversal, atProvider, returned, refundCrashes>>

\* confirmOrder when the row says it reserved, else (or when that finds nothing
\* reserved) the predicated increment; a refusal is an error and the handler ends.
ConfirmOnOrder(w) ==
    LET amount == Amount[worker[w].of] IN
    /\ RefundAt(w, "confirm")
    /\ IF worker[w].row.reserved /\ order.reserved >= amount
       THEN /\ order' = [order EXCEPT !.reserved = @ - amount, !.refunded = @ + amount]
            /\ GoTo(w, "settle")
       ELSE IF order.refunded <= Paid - amount
       THEN order' = [order EXCEPT !.refunded = @ + amount] /\ GoTo(w, "settle")
       ELSE Done(w) /\ UNCHANGED order
    /\ UNCHANGED <<refund, transfer, reversal, atProvider, returned, refundCrashes>>

\* capacityConfirmed, then the order's status from its own totals where that is legal.
SettleOrder(w) ==
    LET target == IF order.refunded >= Paid THEN "REFUNDED" ELSE "PARTIALLY_REFUNDED" IN
    /\ RefundAt(w, "settle")
    /\ refund' = [refund EXCEPT ![worker[w].of].confirmed = TRUE]
    /\ order' = [order EXCEPT !.status = IF CanTransition(@, target) THEN target ELSE @]
    /\ Done(w)
    /\ UNCHANGED <<transfer, reversal, atProvider, returned, refundCrashes>>

(***************************************************************************)
(* reconciliation.verifyPendingRefunds()                                   *)
(***************************************************************************)
\* A faulty sweep that forgets the refunds of dead workers.
NeedsOnlyPending(r) == refund[r].status = "PENDING_VERIFICATION"

NeedsVerification(r) ==
    \/ refund[r].status = "PENDING_VERIFICATION"
    \/ refund[r].status = "PROCESSING" /\ refund[r].locked = "stale"

VerifyRefund(w, r) ==
    /\ RefundAt(w, "idle")
    /\ NeedsVerification(r)
    /\ worker' = [worker EXCEPT ![w] = [Idle EXCEPT !.step = "ask", !.of = r, !.row = refund[r]]]
    /\ UNCHANGED <<order, refund, transfer, reversal, atProvider, returned, refundCrashes>>

\* The provider knows the reference, or not; when it cannot be reached the refund
\* is left for the next sweep.
AskForRefund(w) ==
    /\ RefundAt(w, "ask")
    /\ GoTo(w, IF atProvider[worker[w].of] = "none" THEN "missing" ELSE "found")
    /\ UNCHANGED <<order, refund, transfer, reversal, atProvider, returned, refundCrashes>>

ProviderUnreachable(w) ==
    /\ RefundAt(w, "ask")
    /\ Done(w)
    /\ UNCHANGED <<order, refund, transfer, reversal, atProvider, returned, refundCrashes>>

AdoptVerified(w) ==
    LET r == worker[w].of IN
    /\ RefundAt(w, "found")
    /\ SetRefund(r, [refund[r] EXCEPT !.status = AdoptedStatus(r), !.locked = "no", !.known = TRUE])
    /\ IF atProvider[r] = "processed" THEN GoTo(w, "book") ELSE Done(w)
    /\ UNCHANGED <<order, transfer, reversal, atProvider, returned, refundCrashes>>

\* No such refund: what the row says it holds goes back, with its open reversals.
ReleaseVerified(w) ==
    LET r == worker[w].of
        open == [i \in Parts |->
                   IF reversal[r][i].status \in {"PENDING", "PENDING_VERIFICATION"}
                   THEN reversal[r][i].amount ELSE 0]
    IN  /\ RefundAt(w, "missing")
        /\ IF worker[w].row.reserved THEN ReleaseAll(Amount[r], open)
           ELSE UNCHANGED <<order, transfer>>
        /\ GoTo(w, "forget")
        /\ UNCHANGED <<refund, reversal, atProvider, returned, refundCrashes>>

FailVerified(w) ==
    LET r == worker[w].of IN
    /\ RefundAt(w, "forget")
    /\ SetRefund(r, [refund[r] EXCEPT !.status = "FAILED", !.locked = "no", !.reserved = FALSE])
    /\ Done(w)
    /\ UNCHANGED <<order, transfer, reversal, atProvider, returned, refundCrashes>>

(***************************************************************************)
(* The provider, the clock and crashes.                                    *)
(***************************************************************************)
ProviderSettles(r) ==
    /\ atProvider[r] = "pending"
    /\ \E outcome \in {"processed"} \cup (IF ProviderMayFail THEN {"failed"} ELSE {}) :
          atProvider' = [atProvider EXCEPT ![r] = outcome]
    /\ UNCHANGED <<order, refund, transfer, reversal, returned, worker, refundCrashes>>

\* What each event says; every event the provider sent may arrive again at any time.
SentEvents(r) ==
    [none |-> {}, pending |-> {"PROCESSING"}, processed |-> {"PROCESSING", "PROCESSED"},
     failed |-> {"PROCESSING", "FAILED"}][atProvider[r]]

\* webhookService.onRefund: the row of that provider id, overwritten.
OnRefund(r) ==
    /\ refund[r].known
    /\ \E status \in SentEvents(r) : SetRefund(r, [refund[r] EXCEPT !.status = status])
    /\ UNCHANGED <<order, transfer, reversal, atProvider, returned, worker, refundCrashes>>

Executes(w, r) ==
    worker[w].of = r /\ w \in Executors /\ ~RefundAt(w, "idle") /\ ~RefundAt(w, "claim")

LockGoesStale(r) ==
    /\ refund[r].locked = "fresh"
    /\ LocksOutliveCalls => \A w \in Executors : ~Executes(w, r)
    /\ refund' = [refund EXCEPT ![r].locked = "stale"]
    /\ UNCHANGED <<order, transfer, reversal, atProvider, returned, worker, refundCrashes>>

WorkerDies(w) ==
    /\ refundCrashes < MaxRefundCrashes
    /\ worker[w].step \in MortalSteps
    /\ Done(w)
    /\ refundCrashes' = refundCrashes + 1
    /\ UNCHANGED <<order, refund, transfer, reversal, atProvider, returned>>

-------------------------------------------------------------------------------
Execution(w) ==
    \/ Claim(w) \/ Plan(w) \/ Reserve(w) \/ MarkReserved(w) \/ Adopt(w) \/ CallProvider(w)
    \/ HoldForVerification(w) \/ ReleaseCapacity(w) \/ FailRefund(w) \/ RecordProvider(w)
    \/ StartReversal(w) \/ ReverseTransfer(w) \/ RecordReversal(w) \/ ParkReversal(w)
    \/ BeginBooking(w) \/ ReadForBooking(w) \/ ConfirmOnOrder(w) \/ SettleOrder(w)

Verification(w) ==
    \/ AskForRefund(w) \/ ProviderUnreachable(w)
    \/ AdoptVerified(w) \/ ReleaseVerified(w) \/ FailVerified(w)
    \/ ReadForBooking(w) \/ ConfirmOnOrder(w) \/ SettleOrder(w)

RefundsNext ==
    \/ \E r \in Refunds : Request(r) \/ ProviderSettles(r) \/ OnRefund(r) \/ LockGoesStale(r)
    \/ \E w \in Approvers, r \in Refunds : StartApprove(w, r)
    \/ \E w \in Executors, r \in Refunds : StartExecute(w, r)
    \/ \E w \in Reconcilers, r \in Refunds : VerifyRefund(w, r)
    \/ \E w \in Executors : Approve(w) \/ Execution(w)
    \/ \E w \in Reconcilers : Verification(w)
    \/ \E w \in RefundWorkers : WorkerDies(w)

RefundsSpec == RefundsInit /\ [][RefundsNext]_refundVars

\* Every reconciliation goes through all the refunds it lists, runs to its end, and
\* reaches the provider now and then.
FairReconciliation ==
    \A w \in Reconcilers :
        /\ \A r \in Refunds : /\ SF_refundVars(VerifyRefund(w, r))
                               /\ SF_refundVars(AskForRefund(w) /\ worker[w].of = r)
        /\ WF_refundVars(AdoptVerified(w)) /\ WF_refundVars(ReleaseVerified(w))
        /\ WF_refundVars(FailVerified(w)) /\ WF_refundVars(ReadForBooking(w))
        /\ WF_refundVars(ConfirmOnOrder(w)) /\ WF_refundVars(SettleOrder(w))

RefundsFairSpec == RefundsSpec /\ FairReconciliation

-------------------------------------------------------------------------------
AmountOf(rows) == SumFunctionOnSet(Amount, rows)
On(r, step) == \E w \in RefundWorkers : worker[w].of = r /\ RefundAt(w, step)

\* The provider has the money of these refunds on its way out.
Moved == {r \in Refunds : atProvider[r] \in {"pending", "processed"}}

\* Refunds whose amount the order holds: the row says so, or a worker is about to
\* write that it does, or no longer does.
HoldingCapacity ==
    {r \in Refunds :
        \/ On(r, "mark")
        \/ refund[r].reserved /\ ~refund[r].confirmed
           /\ ~(On(r, "fail") \/ On(r, "forget") \/ On(r, "settle"))}

\* Refunds whose amount is on the order's books.
Booked == {r \in Refunds : refund[r].confirmed \/ On(r, "settle")}

\* However executions, retries and the reconciliation interleave, what the provider
\* was asked to pay out never sums to more than was paid. The provider is not asked to
\* check that: reserveOrder() and who may call releaseAll() decide it.
NeverOverRefunded == AmountOf(Moved) <= Paid

\* refundReservation.ts: the order's refundReservedPaise and refundedPaise are the sums
\* over its refunds that hold, and that are booked: nothing is counted twice when a
\* refund is executed again, adopted or verified, and nothing is dropped on the way. And
\* money on its way out is held or booked at every moment in between, so that no
\* request computes its ceiling without it.
BooksBalance ==
    /\ order.reserved = AmountOf(HoldingCapacity)
    /\ order.refunded = AmountOf(Booked)
    /\ Moved \subseteq HoldingCapacity \cup Booked

\* executeReversals(): for one refund the partners never give back more than it is worth,
\* which is what its plan asks of all of them.
GivenOncePerRefund == \A r \in Refunds : Total(returned[r]) <= Amount[r]

\* executeReversals(): nor does a partner give back more than it was sent, over all the
\* refunds. (Nothing is said once a refund failed at the provider after its transfers
\* were reversed: its retry reverses them again. And it holds of one transfer: with two, a
\* release by the rows of an earlier plan can free what another refund reserved.)
PartnersGiveOnce ==
    (\A r \in Refunds : atProvider[r] # "failed") =>
        /\ \A i \in Parts : Total([r \in Refunds |-> returned[r][i]]) <= Transferred[i]
        /\ GivenOncePerRefund

\* claimForExecution(), verifyPendingRefunds(): between the claim and the row that
\* records the outcome one worker acts on a refund, the reconciliation included.
Acting ==
    {"plan", "reserve", "mark", "adopt", "call", "unknown", "release", "fail", "record",
     "missing", "forget"}
OneWorkerActs ==
    \A r \in Refunds :
        Cardinality({w \in RefundWorkers : worker[w].of = r /\ worker[w].step \in Acting}) <= 1

\* reconciliation.service.ts:110 "the only thing allowed to resolve an unverified
\* refund": a refund that awaits verification changes only by the reconciliation or by
\* the provider's own word (its webhook).
OnlyReconciliationResolves ==
    [][\A r \in Refunds :
          refund[r].status = "PENDING_VERIFICATION" /\ refund'[r].status # "PENDING_VERIFICATION"
          => \/ \E w \in Reconcilers : worker[w].of = r /\ worker'[w] # worker[w]
             \/ refund[r].known /\ refund'[r].status \in SentEvents(r)]_refundVars

\* The outcome is unknown, or the worker that would know it is dead.
InLimbo(r) ==
    \/ refund[r].status = "PENDING_VERIFICATION"
    \/ refund[r].status = "PROCESSING" /\ refund[r].locked = "stale"

\* Money in limbo is settled: while reconciliation runs and the provider answers now
\* and then, a refund whose outcome is unknown does not stay so, and one whose worker
\* died with the lock does not stay PROCESSING.
LimboEnds == \A r \in Refunds : InLimbo(r) ~> ~InLimbo(r)
===============================================================================
