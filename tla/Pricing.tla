-------------------------------- MODULE Pricing --------------------------------
(***************************************************************************)
(* What an order costs (pricing.engine.ts) and what a refund of some of    *)
(* its pieces is worth (refundCalculator.ts): pure functions of the        *)
(* shopper's basket and of the order's frozen lines. A list of price       *)
(* components is kept as its sum. Conditions on dates, channels and facts  *)
(* are decided: a basket line carries the rules that match it, in the      *)
(* order the engine sorts them.                                            *)
(***************************************************************************)
EXTENDS Money, FiniteSets, SequencesExt

Absent == -1   \* an optional amount that is not given

(* A basket as the validators let it through: no amount, rate or quantity is negative,  *)
(* but for the deltas of adjustments and customisations.                                *)
Optional == Nat \cup {Absent}
PriceListItem == [priority : Int, specific : Int, minQty : Nat, price : Nat]
TierRow == [minQty : Nat, targeted : Int, specific : Int, price : Optional, bp : Nat]
PriceRule ==
    [kind : {"FIXED_AMOUNT", "PER_UNIT", "PERCENT", "MULTIPLIER"}, onBase : BOOLEAN,
     bp : Int, paise : Int]
LineOffer == [kind : {"PERCENT", "FIXED"}, bp : Nat, paise : Nat, cap : Optional]
BasketLine ==
    [qty : Nat \ {0}, base : Nat, listItems : SUBSET PriceListItem, tiers : SUBSET TierRow,
     rules : Seq(PriceRule), extras : Seq(Int), offers : Seq(LineOffer), eligible : BOOLEAN,
     rateBp : Nat]
CouponTerms ==
    [kind : {"NONE", "PERCENT", "FIXED", "FREE_SHIPPING", "TIERED"}, bp : Nat, paise : Nat,
     cap : Optional]
ShippingRate ==
    [by : {"PRICE", "WEIGHT", "ITEM_COUNT"}, from : Nat, upTo : Optional, priority : Int,
     paise : Nat, perPiece : Nat, freeAbove : Optional]
Basket ==
    [lines : Seq(BasketLine) \ {<<>>}, groupBp : Nat, coupon : CouponTerms,
     rates : SUBSET ShippingRate, grams : Nat, freeAbove : Nat, inclusive : BOOLEAN,
     shippingTaxable : BOOLEAN, roundToRupee : BOOLEAN, intraState : BOOLEAN]
FiniteChoices(basket) ==
    /\ IsFiniteSet(basket.rates)
    /\ \A i \in DOMAIN basket.lines : /\ IsFiniteSet(basket.lines[i].listItems)
                                      /\ IsFiniteSet(basket.lines[i].tiers)

\* Lexicographic, larger first: how the engine's sorts pick their winner.
Outranks(a, b) == \E k \in DOMAIN a : a[k] > b[k] /\ \A i \in 1..(k - 1) : a[i] = b[i]
Winner(items, Rank(_)) ==
    CHOOSE i \in items : \A j \in items \ {i} : ~Outranks(Rank(j), Rank(i))

-------------------------------------------------------------------------------
(* The price of one piece. *)

\* resolvePriceList: the list item replaces the base price.
ListPrice(line) ==
    LET fitting == {i \in line.listItems : i.minQty <= line.qty}
        Rank(i) == <<i.priority, i.specific, i.minQty>>
    IN  IF fitting = {} THEN line.base ELSE Winner(fitting, Rank).price

\* resolveTier: the tier's own price, or its percentage off.
TierPrice(line, listed) ==
    LET fitting == {t \in line.tiers : t.minQty <= line.qty}
        Rank(t) == <<t.minQty, t.targeted, t.specific>>
        tier    == Winner(fitting, Rank)
    IN  IF fitting = {} THEN listed
        ELSE IF tier.price # Absent THEN tier.price
        ELSE AtLeastZero(listed - ApplyBasisPoints(listed, tier.bp))

\* One adjustment: the price never falls below nothing, the component keeps its delta.
Adjusted(piece, delta) ==
    [price |-> AtLeastZero(piece.price + delta), parts |-> piece.parts + delta]

AdjustmentDelta(rule, price, before) ==
    CASE rule.kind \in {"FIXED_AMOUNT", "PER_UNIT"} -> rule.paise
      [] rule.kind = "PERCENT"    -> ApplyBasisPoints(IF rule.onBase THEN before ELSE price, rule.bp)
      [] rule.kind = "MULTIPLIER" -> ApplyBasisPoints(price, rule.bp) - price

\* The FLOOR component makes up for what the floor at nothing cut off.
FloorPart(piece) == piece.price - piece.parts

\* The adjustments one after the other, in the order the engine sorts them.
Ruled(line, before) ==
    LET Rule(p, r) == Adjusted(p, AdjustmentDelta(r, p.price, before))
    IN  FoldLeft(Rule, [price |-> before, parts |-> before], line.rules)

Customised(line, piece) == FoldLeft(Adjusted, piece, line.extras)

\* What the customer group takes off.
Grouped(piece, groupBp) ==
    IF groupBp > 0 THEN Adjusted(piece, -ApplyBasisPoints(piece.price, groupBp)) ELSE piece

\* resolveUnitPrice: list, tier, adjustments, customisation, customer group, floor.
UnitPrice(line, groupBp) ==
    LET ruled == Ruled(line, TierPrice(line, ListPrice(line)))
        piece == Grouped(Customised(line, ruled), groupBp)
    IN  [price |-> piece.price, parts |-> piece.parts + FloorPart(piece)]

-------------------------------------------------------------------------------
(* The basket: lines, coupon, shipping, tax, rounding. *)

\* An amount off a line never exceeds its cap, nor what the line still costs.
Capped(amount, cap, room) ==
    Least(IF cap = Absent THEN amount ELSE Least(amount, cap), room)

\* One automatic LINE discount.
Offered(draft, offer) ==
    LET wanted == IF offer.kind = "PERCENT" THEN ApplyBasisPoints(draft.subtotal, offer.bp)
                  ELSE offer.paise
        amount == AtLeastZero(Capped(wanted, offer.cap, draft.subtotal - draft.discount))
    IN  [draft EXCEPT !.discount = @ + amount, !.parts = @ - amount]

Draft(line, groupBp) ==
    LET Gross(piece) == [subtotal |-> piece.price * line.qty, discount |-> 0, coupon |-> 0,
                         parts    |-> piece.parts * line.qty]
    IN  FoldLeft(Offered, Gross(UnitPrice(line, groupBp)), line.offers)

Net(draft) == draft.subtotal - draft.discount
Nets(drafts) == [i \in DOMAIN drafts |-> Net(drafts[i])]

\* couponDiscountFor
CouponDiscount(coupon, eligible) ==
    IF eligible <= 0 THEN 0
    ELSE Capped(CASE coupon.kind \in {"PERCENT", "TIERED"} -> ApplyBasisPoints(eligible, coupon.bp)
                  [] coupon.kind = "FIXED"               -> coupon.paise
                  [] OTHER                               -> 0,
                coupon.cap, eligible)

\* Only what the coupon applies to carries its discount.
CouponWeights(basket, drafts) ==
    [i \in DOMAIN drafts |-> IF basket.lines[i].eligible THEN Net(drafts[i]) ELSE 0]

\* pickShippingRate, and the charge: free above a value, or by a FREE_SHIPPING coupon.
ShippingFor(basket, net, pieces) ==
    LET Measure(rate) == CASE rate.by = "WEIGHT"     -> basket.grams * pieces
                           [] rate.by = "ITEM_COUNT" -> pieces
                           [] OTHER                  -> net
        fitting == {r \in basket.rates : Measure(r) >= r.from
                                         /\ (r.upTo = Absent \/ Measure(r) <= r.upTo)}
        rate    == Winner(fitting, LAMBDA r : <<-r.priority>>)
        free    == IF rate.freeAbove # Absent THEN rate.freeAbove ELSE basket.freeAbove
    IN  IF fitting = {} \/ basket.coupon.kind = "FREE_SHIPPING" \/ (free > 0 /\ net >= free) THEN 0
        ELSE rate.paise + rate.perPiece * (pieces - 1)

\* The tax on what a line costs and its share of a taxable delivery.
LineTax(basket, rateBp, taxable) ==
    IF basket.inclusive THEN TaxFromInclusive(taxable, rateBp) ELSE ApplyBasisPoints(taxable, rateBp)

\* The coupon's discount, divided over the lines by their weights.
CarryCoupon(drafts, discount, weights) ==
    LET Carry(share) == [i \in DOMAIN drafts |->
                            [drafts[i] EXCEPT !.coupon = share[i], !.discount = @ + share[i],
                                              !.parts = @ - share[i]]]
    IN  IF discount > 0 THEN Carry(Allocate(discount, weights)) ELSE drafts

\* The tax comes on top of a line, unless its price contains it.
OnTop(basket, tax) == IF basket.inclusive THEN 0 ELSE tax
Taxed(basket, drafts, delivery) ==
    LET Line(i, tax) ==
            [qty |-> basket.lines[i].qty, subtotal |-> drafts[i].subtotal,
             discount |-> drafts[i].discount, coupon |-> drafts[i].coupon,
             parts |-> drafts[i].parts + OnTop(basket, tax), tax |-> tax,
             split |-> SplitGst(tax, basket.intraState),
             total |-> Net(drafts[i]) + OnTop(basket, tax)]
    IN  [i \in DOMAIN drafts |->
            Line(i, LineTax(basket, basket.lines[i].rateBp, Net(drafts[i]) + delivery[i]))]

\* The totals, and the grand total in whole rupees.
Closed(basket, drafts, lines, discount, shipping) ==
    LET sum      == Total(Nets(drafts)) + shipping
                    + Total([i \in DOMAIN lines |-> OnTop(basket, lines[i].tax)])
        rounding == IF basket.roundToRupee THEN RupeeRounding(sum) ELSE 0
    IN  [lines |-> lines, couponDiscount |-> discount, shipping |-> shipping,
         rounding |-> rounding, grand |-> sum + rounding]

\* The delivery, whose charge is part of what the lines are taxed on when it is taxable.
Delivered(basket, drafts, discount) ==
    LET pieces   == Total([i \in DOMAIN basket.lines |-> basket.lines[i].qty])
        shipping == ShippingFor(basket, Total(Nets(drafts)), pieces)
        delivery == Allocate(IF basket.shippingTaxable THEN shipping ELSE 0, Nets(drafts))
    IN  Closed(basket, drafts, Taxed(basket, drafts, delivery), discount, shipping)

\* calculate
QuoteOf(basket) ==
    LET drafts   == [i \in DOMAIN basket.lines |-> Draft(basket.lines[i], basket.groupBp)]
        weights  == CouponWeights(basket, drafts)
        discount == CouponDiscount(basket.coupon, Total(weights))
    IN  Delivered(basket, CarryCoupon(drafts, discount, weights), discount)

\* assertInvariant
AddsUp(quote) ==
    /\ quote.grand = Total([i \in DOMAIN quote.lines |-> quote.lines[i].total])
                     + quote.shipping + quote.rounding
    /\ \A i \in DOMAIN quote.lines : quote.lines[i].parts = quote.lines[i].total

-------------------------------------------------------------------------------
(* A refund of some pieces of an order's frozen lines. *)

\* What earlier refunds have taken back of a line.
LineRefund == [qty : Nat, amount : Nat]

\* perUnit
PerUnit(total, units) == Allocate(total, [u \in 1..units |-> 1])
FirstOf(values, n) == Total(SubSeq(values, 1, Least(n, Len(values))))

\* proportionOf, rounded half up, and what of a component has not gone back.
ProportionOf(component, whole, part) ==
    IF whole <= 0 \/ part <= 0 THEN 0 ELSE RoundedRatio(component * part, whole)
StillOf(component, line, amount) == AtLeastZero(component - ProportionOf(component, line.total, amount))

\* remainingQty; nothing writes cancelledQty, so it stays nought.
RemainingQty(line, back) == AtLeastZero(line.qty - back.qty)

\* A faulty value: the whole line, whatever went back.
WholeValue(line, back) == line.total

\* remainingLineValuePaise: the frozen total less what went back.
RemainingValue(line, back) == AtLeastZero(line.total - back.amount)

\* calculateRefund: wanted pieces of each line, none of it to mean the line is not named.
\* An empty sequence of lines is a refusal.
RefundOf(quote, back, returned, reserved, wanted, shipping) ==
    LET named   == {i \in DOMAIN wanted : wanted[i] > 0}
        Left(i) == RemainingQty(quote.lines[i], back[i])
        closes  == \A i \in DOMAIN wanted : wanted[i] >= Left(i)
        lines   == [i \in DOMAIN wanted |->
                      IF i \notin named THEN [qty |-> 0, amount |-> 0, tax |-> 0]
                      ELSE [qty    |-> wanted[i],
                            amount |-> FirstOf(PerUnit(RemainingValue(quote.lines[i], back[i]), Left(i)),
                                               wanted[i]),
                            tax    |-> FirstOf(PerUnit(StillOf(quote.lines[i].tax, quote.lines[i],
                                                               back[i].amount), Left(i)),
                                               wanted[i])]]
        deliver == IF shipping = "yes" \/ (shipping = "default" /\ closes)
                   THEN AtLeastZero(quote.shipping) ELSE 0
        round   == IF closes THEN quote.rounding ELSE 0
        total   == Total([i \in DOMAIN wanted |-> lines[i].amount]) + deliver + round
        refused == \/ named = {}
                   \/ \E i \in named : wanted[i] > Left(i)
                   \/ total <= 0
                   \/ total > AtLeastZero(quote.grand - returned - reserved)
    IN  [granted |-> ~refused, lines |-> lines, shipping |-> deliver, rounding |-> round,
         total |-> total, closes |-> closes]
===============================================================================
