-------------------------------- MODULE MCMoney --------------------------------
(***************************************************************************)
(* One run for what becomes of money: refunds of a paid order in progress, *)
(* the last use of a coupon, the paise of an order from its quote to its   *)
(* last refund, and the partners' transfers. They share no state; one of   *)
(* them moves in each behaviour.                                           *)
(***************************************************************************)
EXTENDS MCRefunds, MCCheckout, MCBaskets, Payouts

VARIABLE mover

MoneyMoves(who) ==
    /\ mover = who
    /\ UNCHANGED mover
    /\ mover = "refunds" \/ UNCHANGED refundVars
    /\ mover = "coupon"  \/ UNCHANGED vars
    /\ mover = "order"   \/ UNCHANGED moneyVars
    /\ mover = "payouts" \/ UNCHANGED payoutVars

AllMoneyInit ==
    /\ mover \in {"refunds", "coupon", "order", "payouts"}
    /\ RefundsInit /\ Init /\ MoneyInit /\ PayoutsInit

AllMoneyNext ==
    \/ MoneyMoves("refunds") /\ RefundsNext
    \/ MoneyMoves("coupon")  /\ Next
    \/ MoneyMoves("order")   /\ MoneyNext
    \/ MoneyMoves("payouts") /\ PayoutsNext

AllMoneySpec == AllMoneyInit /\ [][AllMoneyNext]_<<mover, refundVars, vars, moneyVars, payoutVars>>

-------------------------------------------------------------------------------
SplitRule(mode, basis, lines) ==
    [mode |-> mode, basis |-> basis, lines |-> lines, scope |-> "PRODUCT", paise |-> 333,
     bp |-> 3333, cap |-> -1, minOrder |-> 0, active |-> TRUE]

\* Rules that overlap and exceed the order, that are too small an order's or capped, and
\* that reach nothing.
MCSales ==
    {[order |-> [grand |-> grand, subtotal |-> 901,
                 lines |-> <<[subtotal |-> 601, total |-> 650], [subtotal |-> 300, total |-> 350]>>],
      rules |-> rules] :
        grand \in {300, 1000},
        rules \in {<<SplitRule("PERCENT", "LINE_TOTAL", {1}),
                     SplitRule("FIXED", "LINE_SUBTOTAL", {1, 2})>>,
                   <<[SplitRule("FIXED", "ORDER_TOTAL", {})
                        EXCEPT !.scope = "GLOBAL", !.minOrder = 500],
                     [SplitRule("PERCENT", "ORDER_SUBTOTAL", {2}) EXCEPT !.cap = 100]>>,
                   <<[SplitRule("PERCENT", "ORDER_TOTAL", {1, 2}) EXCEPT !.active = FALSE],
                     SplitRule("PERCENT", "LINE_TOTAL", {})>>}}
===============================================================================
