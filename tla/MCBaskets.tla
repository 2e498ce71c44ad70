------------------------------- MODULE MCBaskets -------------------------------
(* Baskets whose prices, weights and rates leave remainders at every division. *)
EXTENDS OrderMoney

Line(qty, base) ==
    [qty |-> qty, base |-> base, listItems |-> {}, tiers |-> {}, rules |-> <<>>, extras |-> <<>>,
     offers |-> <<>>, eligible |-> TRUE, rateBp |-> 1800]
ListItem == [priority |-> 1, specific |-> 1, minQty |-> 1, price |-> 301]
Tenth == [minQty |-> 2, targeted |-> 0, specific |-> 1, price |-> Absent, bp |-> 1050]
PercentUp == [kind |-> "PERCENT", onBase |-> TRUE, bp |-> 333, paise |-> 0]
TooMuchOff == [kind |-> "FIXED_AMOUNT", onBase |-> TRUE, bp |-> 0, paise |-> -400]
Offer == [kind |-> "PERCENT", bp |-> 777, paise |-> 0, cap |-> 50]

\* A plain line, one with every kind of rule, one whose rules exceed its price.
FirstLines ==
    {Line(7, 429),
     [Line(2, 333) EXCEPT !.listItems = {ListItem}, !.tiers = {Tenth}, !.rules = <<PercentUp>>,
                          !.extras = <<55>>, !.offers = <<Offer>>],
     [Line(2, 333) EXCEPT !.rules = <<TooMuchOff, PercentUp>>, !.extras = <<70>>]}
SecondLines == {[Line(1, 250) EXCEPT !.rateBp = 500], [Line(2, 77) EXCEPT !.eligible = FALSE]}
Coupons == {[kind |-> "NONE", bp |-> 0, paise |-> 0, cap |-> Absent],
            [kind |-> "PERCENT", bp |-> 1500, paise |-> 0, cap |-> 200],
            [kind |-> "TIERED", bp |-> 750, paise |-> 0, cap |-> Absent],
            [kind |-> "FIXED", bp |-> 0, paise |-> 101, cap |-> Absent],
            [kind |-> "FREE_SHIPPING", bp |-> 0, paise |-> 0, cap |-> Absent]}
Rates == {[by |-> "PRICE", from |-> 0, upTo |-> Absent, priority |-> 2, paise |-> 99,
           perPiece |-> 10, freeAbove |-> 3100],
          [by |-> "ITEM_COUNT", from |-> 4, upTo |-> Absent, priority |-> 1, paise |-> 149,
           perPiece |-> 0, freeAbove |-> Absent]}

AwkwardBaskets ==
    {[lines |-> <<first, second>>, groupBp |-> groupBp, coupon |-> coupon, rates |-> Rates,
      grams |-> 100, freeAbove |-> 0, inclusive |-> inclusive, shippingTaxable |-> taxable,
      roundToRupee |-> TRUE, intraState |-> taxable] :
        first \in FirstLines, second \in SecondLines, groupBp \in {0, 725}, coupon \in Coupons,
        inclusive \in BOOLEAN, taxable \in BOOLEAN}
===============================================================================
