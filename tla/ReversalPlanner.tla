---------------------------- MODULE ReversalPlanner ----------------------------
(***************************************************************************)
(* reversalPlanner.ts: which transfers give a refund's money back, and how *)
(* much each. Transfers are a sequence of [amount, reversed, primary].     *)
(***************************************************************************)
EXTENDS Money

\* availableToReverse
Available(transfers) ==
    [i \in DOMAIN transfers |-> AtLeastZero(transfers[i].amount - transfers[i].reversed)]

\* planProportional: the weight of a transfer is what it still holds.
PlanProportional(target, available) ==
    LET share == Allocate(target, available)
    IN  [i \in DOMAIN available |-> Least(share[i], available[i])]

\* planPrimaryFirst: our own account first, then the partners in their order, each
\* up to what it holds, until nothing is left.
PlanPrimaryFirst(target, available, primary) ==
    LET before(i) == {j \in DOMAIN available :
                        \/ primary[j] /\ ~primary[i]
                        \/ primary[j] = primary[i] /\ j < i}
        taken(i)  == Total([j \in before(i) |-> available[j]])
    IN  [i \in DOMAIN available |-> Least(available[i], AtLeastZero(target - taken(i)))]

\* planReversals: what is taken from each transfer, what the platform bears, and the
\* assertion that throws when the parts do not add up.
PlanReversals(refund, transfers, policy) ==
    LET available == Available(transfers)
        target    == Least(refund, Total(available))
        primary   == [i \in DOMAIN transfers |-> transfers[i].primary]
        amounts   == IF Total(available) = 0 THEN available
                     ELSE IF policy = "PRIMARY_FIRST"
                     THEN PlanPrimaryFirst(target, available, primary)
                     ELSE PlanProportional(target, available)
    IN  [amounts   |-> amounts,
         absorbed  |-> refund - target,
         balances  |-> /\ Total(amounts) = target
                       /\ \A i \in DOMAIN amounts : amounts[i] <= available[i]]
===============================================================================
