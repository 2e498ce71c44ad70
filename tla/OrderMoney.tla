------------------------------ MODULE OrderMoney ------------------------------
(***************************************************************************)
(* The paise of one order from the quote it is placed on to its last       *)
(* refund. Its lines are frozen when it is placed (checkout.service.ts); a *)
(* refund freezes what it is worth when it is requested, and is taken off  *)
(* the lines when it is executed (refund.service.ts). How an execution     *)
(* meets the provider is Refunds.tla's; here it is one step.               *)
(***************************************************************************)
EXTENDS Pricing

CONSTANTS
    Baskets,       \* what shoppers may order
    MaxRefundRows, \* bound: refunds of an order
    MaxAwaiting    \* bound: of them, requested and not yet executed

ASSUME BasketsAssumption == \A basket \in Baskets : basket \in Basket /\ FiniteChoices(basket)

VARIABLES
    bill,      \* the frozen order: its quote; <<>> before it is placed
    requested, \* the refund rows in order: their status and the amounts frozen in them
    back,      \* OrderItem.refundedQty and refundedAmountPaise, per line
    refunded   \* Order.refundedPaise

moneyVars == <<bill, requested, back, refunded>>

Billed == bill # <<>>
PiecesAsked == {0, 1, 3}   \* bound: pieces of a line in one request

MoneyTypeOK ==
    /\ Billed => \A i \in DOMAIN bill.lines : back[i] \in LineRefund
    /\ refunded \in Nat
    /\ \A r \in DOMAIN requested : requested[r].status \in {"REQUESTED", "PROCESSED"}

MoneyInit ==
    bill = <<>> /\ back = <<>> /\ requested = <<>> /\ refunded = 0

\* createOrder: the quote's lines become the order's.
PlaceOrder ==
    /\ ~Billed
    /\ \E basket \in Baskets :
        /\ bill' = QuoteOf(basket)
        /\ back' = [i \in DOMAIN basket.lines |-> [qty |-> 0, amount |-> 0]]
    /\ UNCHANGED <<requested, refunded>>

\* refundService.request: nothing is reserved for a request that has not been executed.
FreezeRefund ==
    /\ Billed /\ bill.grand > refunded /\ Len(requested) < MaxRefundRows
    /\ Cardinality({r \in DOMAIN requested : requested[r].status = "REQUESTED"}) < MaxAwaiting
    /\ \E wanted \in [DOMAIN bill.lines -> PiecesAsked], shipping \in {"default", "yes", "no"} :
        LET worth == RefundOf(bill, back, refunded, 0, wanted, shipping)
        IN  /\ worth.granted
            /\ requested' = Append(requested, [status |-> "REQUESTED", worth |-> worth])
    /\ UNCHANGED <<bill, back, refunded>>

\* A line takes the refund unless that exceeds its quantity or its total; then it is
\* left as it was, and the order's total is not.
BackAfter(i, part) ==
    IF /\ back[i].qty + part.qty <= bill.lines[i].qty
       /\ back[i].amount + part.amount <= bill.lines[i].total
    THEN [qty |-> back[i].qty + part.qty, amount |-> back[i].amount + part.amount]
    ELSE back[i]

\* Reserve the capacity, let the provider pay, applyToOrder; a refund that no longer
\* fits stays what it was.
ExecuteRefund(r) ==
    LET worth == requested[r].worth IN
    /\ requested[r].status = "REQUESTED"
    /\ refunded + worth.total <= bill.grand
    /\ requested' = [requested EXCEPT ![r].status = "PROCESSED"]
    /\ refunded' = refunded + worth.total
    /\ back' = [i \in DOMAIN back |-> BackAfter(i, worth.lines[i])]
    /\ UNCHANGED bill

MoneyNext == PlaceOrder \/ FreezeRefund \/ \E r \in DOMAIN requested : ExecuteRefund(r)

MoneySpec == MoneyInit /\ [][MoneyNext]_moneyVars

-------------------------------------------------------------------------------
Executed == {r \in DOMAIN requested : requested[r].status = "PROCESSED"}
SumOver(rows, Part(_)) == Total([r \in rows |-> Part(requested[r].worth)])

\* The parts of a quote make up the whole for every combination of price lists, tiers,
\* adjustments, discounts, coupon, delivery and tax: the net the engine throws at a
\* mismatch never fires, the coupon's discount lands on its lines to the last paisa,
\* no line costs less than nothing, and the halves of the GST make up the tax.
QuoteAddsUp ==
    Billed =>
        /\ AddsUp(bill)
        /\ Total([i \in DOMAIN bill.lines |-> bill.lines[i].coupon]) = bill.couponDiscount
        /\ \A i \in DOMAIN bill.lines :
             LET line == bill.lines[i] IN
             /\ line.discount \in 0..line.subtotal
             /\ line.split.cgst + line.split.sgst + line.split.igst = line.tax

\* The pieces of a line that go back in several refunds are worth, together, what the
\* line cost, and the last refund of an order returns all that was left: not a paisa
\* more, not a paisa less, unless the delivery was given back earlier or kept.
RefundsReturnTheRest ==
    Billed =>
        LET delivery == SumOver(Executed, LAMBDA w : w.shipping)
            rounded  == SumOver(Executed, LAMBDA w : w.rounding)
            allBack  == \A i \in DOMAIN bill.lines : back[i].qty = bill.lines[i].qty
        IN  /\ refunded <= bill.grand
            /\ refunded = Total([i \in DOMAIN back |-> back[i].amount]) + delivery + rounded
            /\ \A i \in DOMAIN bill.lines :
                 back[i].qty = bill.lines[i].qty => back[i].amount = bill.lines[i].total
            /\ allBack /\ delivery = bill.shipping => refunded = bill.grand

\* The tax the refunds' documents give back for a line stays within a paisa a piece of
\* what was charged on the part of the line that went back. (A line that bears a taxable
\* delivery may be taxed more than it costs; nothing is said of it.)
TaxGoesBack ==
    Billed => \A i \in DOMAIN bill.lines :
        LET line  == bill.lines[i]
            drift == SumOver(Executed, LAMBDA w : w.lines[i].tax)
                     - ProportionOf(line.tax, line.total, back[i].amount)
        IN  line.tax <= line.total => drift \in -back[i].qty..back[i].qty

\* The money of one order adds up, from its quote to its last refund.
OrderMoneyAddsUp == MoneyTypeOK /\ QuoteAddsUp /\ RefundsReturnTheRest /\ TaxGoesBack

\* refund.service.ts: "a line can never be refunded beyond its own total". What the
\* executed refunds gave for a line stays within what it cost.
LineRefundedOnce ==
    Billed => \A i \in DOMAIN bill.lines :
                SumOver(Executed, LAMBDA w : w.lines[i].amount) <= bill.lines[i].total
===============================================================================
