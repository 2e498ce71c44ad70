--------------------------------- MODULE Money ---------------------------------
(***************************************************************************)
(* The integer arithmetic of src/shared/src/money.ts: every amount is a    *)
(* whole number of paise, every rate a whole number of basis points, and   *)
(* no function may create or lose a paisa.                                 *)
(***************************************************************************)
EXTENDS Integers, Sequences, FiniteSets, Functions

\* The paise of a list of amounts.
Total(amounts) == SumFunction(amounts)

Least(a, b) == IF a <= b THEN a ELSE b
AtLeastZero(a) == IF a < 0 THEN 0 ELSE a

\* roundHalfUp(n / d), d > 0: half away from zero, the same magnitude for -n and n.
RoundedRatio(n, d) ==
    IF n >= 0 THEN (2 * n + d) \div (2 * d) ELSE -((2 * (-n) + d) \div (2 * d))

\* applyBasisPoints
ApplyBasisPoints(amount, bp) == RoundedRatio(amount * bp, 10000)

\* taxFromInclusive: the tax inside a price that already contains it.
TaxFromInclusive(gross, bp) == IF bp <= 0 THEN 0 ELSE RoundedRatio(gross * bp, 10000 + bp)

\* splitGst: the halves of an intra-state tax; Math.trunc rounds towards zero.
SplitGst(tax, intraState) ==
    LET half == IF tax >= 0 THEN tax \div 2 ELSE -((-tax) \div 2)
    IN  IF intraState
        THEN [cgst |-> half, sgst |-> tax - half, igst |-> 0]
        ELSE [cgst |-> 0, sgst |-> 0, igst |-> tax]

\* rupeeRoundingAdjustment of a non-negative total, PAISE_PER_RUPEE = 100.
RupeeRounding(total) ==
    LET rest == total % 100
    IN  IF rest = 0 THEN 0 ELSE IF rest >= 50 THEN 100 - rest ELSE -rest

\* Largest remainder first, ties to the earlier index.
ServedBefore(rest, j, i) == rest[j] > rest[i] \/ (rest[j] = rest[i] /\ j < i)

\* The dust of a division goes out one paisa at a time in that order; what is left
\* of a division by the sum of the weights is always fewer paise than weights.
WithDust(shares, rest, dust) ==
    [i \in DOMAIN shares |->
        LET ahead == Cardinality({j \in DOMAIN rest : ServedBefore(rest, j, i)})
        IN  shares[i] + IF i \in DOMAIN rest /\ ahead < dust THEN 1 ELSE 0]

\* allocateProportionally: negative weights count as none; without any weight the
\* first bucket takes it all.
Allocate(total, weights) ==
    LET size   == IF total < 0 THEN -total ELSE total
        sign   == IF total < 0 THEN -1 ELSE 1
        weight == [i \in DOMAIN weights |-> AtLeastZero(weights[i])]
        all    == Total(weight)
        shares == [i \in DOMAIN weights |-> (size * weight[i]) \div all]
        rest   == [i \in DOMAIN weights |-> (size * weight[i]) % all]
        placed == WithDust(shares, rest, size - Total(shares))
    IN  IF all = 0
        THEN [i \in DOMAIN weights |-> IF i = 1 THEN total ELSE 0]
        ELSE [i \in DOMAIN weights |-> sign * placed[i]]

\* splitPaise: FIXED takes its amount, PERCENT its floor, REMAINDER the rest; without
\* a REMAINDER the dust goes to the percentages. "none" when the rules do not fit.
SplitPaise(total, rules) ==
    LET percents  == {i \in DOMAIN rules : rules[i].mode = "PERCENT"}
        remainder == {i \in DOMAIN rules : rules[i].mode = "REMAINDER"}
        shares    == [i \in DOMAIN rules |->
                        CASE rules[i].mode = "FIXED"     -> rules[i].value
                          [] rules[i].mode = "PERCENT"   -> (total * rules[i].value) \div 100
                          [] rules[i].mode = "REMAINDER" -> 0]
        rest      == [i \in percents |-> (total * rules[i].value) % 100]
        left      == total - Total(shares)
    IN  IF \/ Cardinality(remainder) > 1
           \/ left < 0
           \/ remainder = {} /\ left > 0 /\ percents = {}
        THEN <<>>
        ELSE IF remainder # {}
             THEN [i \in DOMAIN rules |-> IF i \in remainder THEN left ELSE shares[i]]
             ELSE [i \in DOMAIN rules |->
                    IF i \in percents
                    THEN shares[i] + left \div Cardinality(percents)
                         + IF Cardinality({j \in percents : ServedBefore(rest, j, i)})
                                < left % Cardinality(percents)
                           THEN 1 ELSE 0
                    ELSE shares[i]]
===============================================================================
